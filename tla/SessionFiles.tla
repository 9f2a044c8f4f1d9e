----------------------------- MODULE SessionFiles -----------------------------
(***************************************************************************)
(* Sessions on disk: how a call finds the transcript it is about, and what *)
(* rename, tag, delete and fork do to it (sessions/filesystem.rs,          *)
(* sessions/mutations.rs), next to a CLI that writes transcripts and to    *)
(* other calls; a process may die between any two steps.                   *)
(*                                                                         *)
(* A name is what sanitize_path makes of a path: <<stem>>, or, of a path   *)
(* of more than 200 characters, <<stem, hash>>; the parts are joined with  *)
(* a '-'.  A path appears here as its name.  The CLI may hash in another   *)
(* way, so a directory may bear the stem of a path and not its hash.       *)
(***************************************************************************)
EXTENDS TranscriptInfo, Ordered

CONSTANTS
    ReadDir,        \* names of project directories, in the order of read_dir
    FullStems,      \* stems of 200 characters
    Main,           \* the directory calls are made for
    Worktrees,      \* what git prints for it
    Sessions,       \* sessions the CLI writes
    ForkIds,        \* fresh ids
    Agents,
    Batches,        \* what the CLI may append at once
    Lines,          \* what a rename or a tag may append
    Callers,        \* processes that use the SDK
    MaxWrites,      \* bound on the writes of the CLI
    MaxCalls        \* bound on the calls of the SDK

Dirs == ToSet(ReadDir)
Ids == Sessions \cup ForkIds

ASSUME FilesAssumption ==
    /\ ReadDir \in Seq(Dirs) /\ IsInjective(ReadDir)
    /\ \A n \in Dirs \cup {Main} \cup ToSet(Worktrees) :
        Len(n) = 1 \/ (Len(n) = 2 /\ n[1] \in FullStems)
    /\ Sessions \cap ForkIds = {} /\ Main \in Dirs /\ Worktrees \in Seq(ToSet(Worktrees))
    /\ \A lines \in Batches : lines \in Seq(ToSet(lines))
    /\ \A line \in Lines :
        line = IF IsType(line, "tag") THEN Tag(line.tag) ELSE Title(line.customTitle)
    /\ MaxWrites \in Nat /\ MaxCalls \in Nat

NoFile == [ino |-> 0]
NoDir == <<>>

VARIABLES
    projects,       \* the directories that are there
    file,           \* transcripts: [ino, lines, mtime] or NoFile
    agents,         \* transcripts of subagents, in a directory named for the session
    now,            \* the clock, which also numbers the files
    call,           \* the call of every process
    deleted,        \* history: <<d, s>> deleted, and not written by the CLI since
    written,        \* history: the call that wrote last, unless it met another, or Idle
    budget          \* what is left of the bounds: [writes, calls]
vars == <<projects, file, agents, now, call, deleted, written, budget>>

Idle == [op |-> "none"]

Init ==
    /\ projects = {}
    /\ file = [x \in Dirs \X Ids |-> NoFile]
    /\ agents = [x \in Dirs \X Ids |-> {}]
    /\ now = 0 /\ deleted = {} /\ written = Idle
    /\ call = [c \in Callers |-> Idle]
    /\ budget = [writes |-> MaxWrites, calls |-> MaxCalls]

-----------------------------------------------------------------------------
(* Where a session is *)

\* find_project_dir: a long path may have its directory under another hash.
FindProjectDir(p) ==
    LET alike == SelectInSeq(ReadDir, LAMBDA d : d \in projects /\ IsStrictPrefix(<<p[1]>>, d))
    IN  IF p \in projects THEN p
        ELSE IF Len(p) = 1 \/ alike = 0 THEN NoDir ELSE ReadDir[alike]

\* The places a lookup tries, in ascending order: the directory and its worktrees,
\* or, without a directory, all there are.
Order(where) == IF where = "directory" THEN <<Main>> \o Worktrees ELSE ReadDir
Places(where) ==
    {k \in DOMAIN Order(where) :
        IF where = "directory" THEN k = 1 \/ Order(where)[k] # Main
        ELSE Order(where)[k] \in projects}
DirAt(where, k) == FindProjectDir(Order(where)[k])

\* An empty file is one the CLI has only created: it is not here.
IsHere(d, s) == d # NoDir /\ file[<<d, s>>] # NoFile /\ file[<<d, s>>].lines # <<>>

\* The file a query is answered from.
Find(where, s) ==
    LET there == {k \in Places(where) : IsHere(DirAt(where, k), s)}
    IN  IF there = {} THEN NoDir ELSE DirAt(where, Min(there))

Info(d, s) == LiteInfo(s, file[<<d, s>>].lines, file[<<d, s>>].mtime, "project")

\* get_session_info
SessionInfo(where, s) ==
    LET d == Find(where, s) IN IF d = NoDir THEN NoInfo ELSE Info(d, s)

\* list_subagents
Subagents(where, s) ==
    LET d == Find(where, s) IN IF d = NoDir THEN {} ELSE agents[<<d, s>>]

-----------------------------------------------------------------------------
(* Listings *)

\* read_sessions_from_dir
SessionsIn(d) == {Info(d, s) : s \in {i \in Ids : IsHere(d, i)}} \ {NoInfo}

\* is_match: a worktree's own directory, or one whose name extends a long name.
IsOf(d, p) == d = p \/ ((Len(p) = 2 \/ p[1] \in FullStems) /\ IsStrictPrefix(p, d))

\* The directories list_sessions_for_project reads; with one worktree, or
\* none, it is the directory's own alone.
ListedDirs(where) ==
    IF where = "anywhere" THEN projects
    ELSE {d \in projects :
            \/ d = FindProjectDir(Main)
            \/ Len(Worktrees) > 1 /\ \E p \in ToSet(Worktrees) : IsOf(d, p)}

\* deduplicate_by_session_id: of the copies of a session the newest.
Deduplicated(rows) ==
    {r \in rows : \A q \in rows : q.session = r.session => q.last_modified <= r.last_modified}

ListSessions(where) == Deduplicated(UNION {SessionsIn(d) : d \in ListedDirs(where)})

-----------------------------------------------------------------------------
(* The CLI *)

\* Somebody writes or deletes what the call, or the last write, was about.
Met(k, ids) == IF k # Idle /\ k.id \in ids THEN [k EXCEPT !.alone = FALSE] ELSE k
Forget(ids) == written' = IF written # Idle /\ written.id \in ids THEN Idle ELSE written

Tick == now' = now + 1

\* A file that is created, and one whose lines are set.
NewFile(lines) == [ino |-> now + 1, lines |-> lines, mtime |-> now + 1]
Rewritten(f, lines) == [f EXCEPT !.lines = lines, !.mtime = now + 1]

\* The CLI creates a transcript, or appends to one.  A new directory may be a
\* better match for a long path than the one that was found so far.
CliWrites(d, s, lines) ==
    /\ budget.writes > 0 /\ budget' = [budget EXCEPT !.writes = @ - 1]
    /\ projects' = projects \cup {d}
    /\ file' = [file EXCEPT ![<<d, s>>] =
                  IF @ = NoFile THEN NewFile(lines) ELSE Rewritten(@, @.lines \o lines)]
    /\ deleted' = deleted \ {<<d, s>>}
    /\ LET ids == IF d \in projects THEN {s} ELSE Ids
       IN  call' = [c \in Callers |-> Met(call[c], ids)] /\ Forget(ids)
    /\ Tick
    /\ UNCHANGED agents

CliRunsAgent(d, s, a) ==
    /\ budget.writes > 0 /\ budget' = [budget EXCEPT !.writes = @ - 1]
    /\ d \in projects /\ a \notin agents[<<d, s>>]
    /\ agents' = [agents EXCEPT ![<<d, s>>] = @ \cup {a}]
    /\ deleted' = deleted \ {<<d, s>>}
    /\ UNCHANGED <<projects, file, now, call, written>>

-----------------------------------------------------------------------------
(* Calls *)

Begin(c, op, where, s, line) ==
    /\ call[c] = Idle
    /\ budget.calls > 0 /\ budget' = [budget EXCEPT !.calls = @ - 1]
    /\ call' = [call EXCEPT ![c] = [op |-> op, at |-> "search", where |-> where, id |-> s,
                                    line |-> line, left |-> Places(where), dir |-> NoDir,
                                    ino |-> 0, text |-> <<>>, alone |-> TRUE]]
    /\ UNCHANGED <<projects, file, agents, now, deleted, written>>

At(c, op, at) == call[c] # Idle /\ call[c].op \in op /\ call[c].at = at
Ends(c) == call' = [call EXCEPT ![c] = Idle]
Disk == <<projects, file, agents, now>>
Rest == <<deleted, written, budget>>

\* One place of the search.  A rename holds the file open from here.
Search(c) ==
    /\ At(c, {"append", "delete", "fork"}, "search")
    /\ IF call[c].left = {} THEN Ends(c)
       ELSE LET k == Min(call[c].left)
                d == DirAt(call[c].where, k)
                s == call[c].id IN
            call' = [call EXCEPT ![c] =
                IF IsHere(d, s)
                  THEN [@ EXCEPT !.at = "found", !.dir = d, !.ino = file[<<d, s>>].ino]
                  ELSE [@ EXCEPT !.left = call[c].left \ {k}]]
    /\ UNCHANGED Disk /\ UNCHANGED Rest

Shown(c, line) ==
    written' = IF call[c].alone THEN [call[c] EXCEPT !.line = line, !.at = "done"] ELSE Idle

\* MUTANT of AppendLine: the file is created if it is gone.
AppendLineCreates(c) ==
    /\ At(c, {"append"}, "found")
    /\ LET x == <<call[c].dir, call[c].id>> IN
       file' = [file EXCEPT ![x] =
                  IF @ = NoFile THEN NewFile(<<call[c].line>>)
                  ELSE Rewritten(@, Append(@.lines, call[c].line))]
    /\ Ends(c) /\ Shown(c, call[c].line) /\ Tick
    /\ UNCHANGED <<projects, agents, deleted, budget>>

\* try_append: what is written to a file deleted by now goes with it.
AppendLine(c) ==
    /\ At(c, {"append"}, "found")
    /\ LET x == <<call[c].dir, call[c].id>> IN
       file' = [file EXCEPT ![x] =
                  IF @.ino # call[c].ino THEN @
                  ELSE Rewritten(@, Append(@.lines, call[c].line))]
    /\ Ends(c) /\ Shown(c, call[c].line) /\ Tick
    /\ UNCHANGED <<projects, agents, deleted, budget>>

\* delete_session, first the transcript.  Somebody may have been faster.
RemoveFile(c) ==
    /\ At(c, {"delete"}, "found")
    /\ LET x == <<call[c].dir, call[c].id>> IN
       /\ file' = [file EXCEPT ![x] = NoFile]
       /\ call' = [k \in Callers |->
            IF k = c THEN IF file[x] = NoFile THEN Idle ELSE [call[c] EXCEPT !.at = "agents"]
            ELSE Met(call[k], {call[c].id})]
       /\ Forget({call[c].id})
    /\ UNCHANGED <<projects, agents, now, deleted, budget>>

\* Then its subagents; an error is ignored.
RemoveAgents(c, ok) ==
    /\ At(c, {"delete"}, "agents")
    /\ LET x == <<call[c].dir, call[c].id>> IN
       IF ok THEN /\ agents' = [agents EXCEPT ![x] = {}]
                  /\ deleted' = IF file[x] = NoFile THEN deleted \cup {x} ELSE deleted
             ELSE UNCHANGED <<agents, deleted>>
    /\ Ends(c)
    /\ UNCHANGED <<projects, file, now, written, budget>>

\* derive_title of a fork; a title that is empty counts.
ForkTitle(es) ==
    LET head == Head64(es)
        tail == Tail64(es)
        title == FirstPresent(TitleOf(head, tail)
                              \o <<NonEmpty(FirstPrompt(head)), "Forked session">>)
    IN  title \o " (fork)"

\* What a fork is made of, as far as a listing shows it: see ForkTranscript.
Forkable(es) ==
    Those(es, {i \in DOMAIN es : IsType(es[i], "user") /\ ~IsSet(es[i], "isSidechain")})
ForkLines(es) == Append(Forkable(es), Title(ForkTitle(es)))

ReadSource(c) ==
    /\ At(c, {"fork"}, "found")
    /\ LET f == file[<<call[c].dir, call[c].id>>] IN
       IF f = NoFile \/ Forkable(f.lines) = <<>> THEN Ends(c)
       ELSE call' = [call EXCEPT ![c].at = "create", ![c].text = ForkLines(f.lines)]
    /\ UNCHANGED Disk /\ UNCHANGED Rest

\* write_new_file_0600: a new file, in the directory of its source, which is
\* empty at first.
CreateFork(c, f) ==
    /\ At(c, {"fork"}, "create")
    /\ \A d \in Dirs : file[<<d, f>>] = NoFile /\ <<d, f>> \notin deleted
    /\ \A k \in Callers : call[k] # Idle => call[k].id # f
    /\ file' = [file EXCEPT ![<<call[c].dir, f>>] = NewFile(<<>>)]
    /\ call' = [call EXCEPT ![c].at = "fill", ![c].id = f, ![c].alone = TRUE]
    /\ Tick
    /\ UNCHANGED <<projects, agents, deleted, written, budget>>

FillFork(c) ==
    /\ At(c, {"fork"}, "fill")
    /\ LET x == <<call[c].dir, call[c].id>> IN
       file' = [file EXCEPT ![x] = Rewritten(@, call[c].text)]
    /\ Ends(c) /\ Shown(c, Last(call[c].text)) /\ Tick
    /\ UNCHANGED <<projects, agents, deleted, budget>>

\* The process dies.
Crash(c) ==
    /\ call[c] # Idle /\ Ends(c)
    /\ UNCHANGED Disk /\ UNCHANGED Rest

-----------------------------------------------------------------------------
Next ==
    \/ \E d \in Dirs, s \in Sessions :
        \/ \E lines \in Batches : CliWrites(d, s, lines)
        \/ \E a \in Agents : CliRunsAgent(d, s, a)
    \/ \E c \in Callers :
        \/ \E where \in {"directory", "anywhere"}, s \in Ids :
            \/ \E line \in Lines : Begin(c, "append", where, s, line)
            \/ \E op \in {"delete", "fork"} : Begin(c, op, where, s, <<>>)
        \/ Search(c) \/ AppendLine(c) \/ RemoveFile(c)
        \/ \E ok \in BOOLEAN : RemoveAgents(c, ok)
        \/ ReadSource(c) \/ FillFork(c) \/ Crash(c)
        \/ \E f \in ForkIds : CreateFork(c, f)

Spec == Init /\ [][Next]_vars

-----------------------------------------------------------------------------
(* Properties *)

\* A deleted session stays away, with its subagents, until the CLI writes it
\* again: a rename, a tag or a fork that found the file before does not bring
\* it back, and two deletions do not undo each other (delete_session and
\* try_append, which never creates).
DeletedIsGone == \A x \in deleted : file[x] = NoFile /\ agents[x] = {}

\* A title shows; an empty one is looked past.  Nothing is claimed of a tag: the line that
\* tag_session writes does not begin with its type, and is not found again.
Shows(info, line) ==
    ~IsType(line, "tag") /\ NonEmpty(line.customTitle) # Absent =>
        info.custom_title = line.customTitle

\* The title a rename or a fork wrote is what the next lookup made in the same way shows,
\* and a session that was tagged is found.  A listing shows the same, whichever copy of the
\* session each of them reads, if the directory that was written is among those it reads;
\* and it is if it bears exactly the name of the directory or of one of several worktrees.
WritesAreShown ==
    written # Idle =>
        LET info == SessionInfo(written.where, written.id)
            rows == {r \in ListSessions(written.where) : r.session = written.id}
            listed == written.dir \in ListedDirs(written.where)
            named == \/ written.dir = Main
                     \/ Len(Worktrees) > 1 /\ written.dir \in ToSet(Worktrees)
        IN  info # NoInfo =>
            /\ Shows(info, written.line)
            /\ listed => rows # {} /\ \A r \in rows : Shows(r, written.line)
            /\ named => listed
=============================================================================
