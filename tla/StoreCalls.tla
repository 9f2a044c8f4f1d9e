------------------------------ MODULE StoreCalls ------------------------------
(***************************************************************************)
(* The calls that take several steps on a session store, while others      *)
(* write to it: list_sessions_from_store (sessions/store_queries.rs), the  *)
(* materialization of a session to resume (sessions/resume.rs) and the     *)
(* import of a session from disk (sessions/import.rs).  Every call of the  *)
(* store is one step; between any two of them a mirror may append and an   *)
(* application may rename, tag or delete.                                  *)
(***************************************************************************)
EXTENDS StoreQueries

CONSTANTS
    Project,        \* the project key all calls use
    MirrorBatches,  \* [key, entries] that a mirror or a fork may append
    Titles, Tags,   \* what an application renames and tags to
    Disk,           \* files of the session to import: key -> [lines, meta]
    BatchSize,      \* entries of one append of the import
    Limits,         \* page sizes a listing asks for, 0 for none
    Adapters,       \* what an adapter may implement: [list, summaries, subkeys]
    MaxWrites,      \* bound on writes of others and on imports
    MaxReads,       \* bound on listings and resumes; a behaviour ends with the last
    MaxFailures     \* bound on calls of the adapter that fail

Part == STRING          \* a part of a key

IsSequence(s) == s \in Seq({s[i] : i \in DOMAIN s})

\* The keys that anyone but a rename, a tag and a delete writes to.
GivenKeys == {b.key : b \in MirrorBatches} \cup DOMAIN Disk

\* "The on-disk .jsonl does NOT contain agent_metadata entries".  read_dir has no "."
\* among the parts of a path (a file "..jsonl", imported as "." and never resumed, is
\* left out); subagents have a directory of their own, and only they have sidecars.
IsTranscript(lines) == IsSequence(lines) /\ \A i \in DOMAIN lines : ~IsMetadata(lines[i])
OfSubagent(k) == k[3] = "subagents" /\ SafeSubpath(SubSeq(k, 3, Len(k)))

ASSUME CallsAssumption ==
    /\ \A k \in GivenKeys : k \in Seq(Part) /\ Len(k) >= 2 /\ k[2] # Absent
    /\ Project \in Part /\ IsFiniteSet(DOMAIN Disk)
    /\ \A k \in DOMAIN Disk : k[1] = Project /\ FilePathToSessionKey(k) = k
    /\ \E k \in DOMAIN Disk : /\ IsMain(k) /\ Disk[k].meta = NoMeta
                              /\ \A j \in DOMAIN Disk \ {k} : Under(k, j) /\ OfSubagent(j)
    /\ \A b \in MirrorBatches : IsSequence(b.entries)
    /\ \A k \in DOMAIN Disk : IsTranscript(Disk[k].lines)
    /\ BatchSize \in Nat \ {0} /\ Limits \subseteq Nat
    /\ Adapters \subseteq [list : BOOLEAN, summaries : BOOLEAN, subkeys : BOOLEAN]
    /\ MaxWrites \in Nat /\ MaxReads \in Nat /\ MaxFailures \in Nat

VARIABLES
    store,      \* the state of the store
    call,       \* the call under way, or the last one with what it returned
    seen,       \* history: <<key, entries>> since the call enumerated the sessions
    budget,     \* what is left of the bounds: [writes, reads, failures]
    imports     \* history: tries of the import; 0 when others wrote to the session

vars == <<store, call, seen, budget, imports>>

Idle == [op |-> "none", at |-> "done"]
Running == call.at # "done"
DiskMain == CHOOSE k \in DOMAIN Disk : IsMain(k)
Sessions == {k[2] : k \in GivenKeys}
Keys == GivenKeys \cup {MainKey(Project, s) : s \in Sessions}

\* What every key holds, <<>> for nothing.
Snapshot(st) == {<<k, Stored(st, k)>> : k \in Keys}

Init ==
    /\ store = EmptyStore
    /\ call = Idle /\ seen = {}
    /\ budget = [writes |-> MaxWrites, reads |-> MaxReads, failures |-> MaxFailures]
    /\ imports = [tries |-> 0, alone |-> TRUE, complete |-> FALSE]

Begin(c, kind) ==
    /\ ~Running /\ budget.reads > 0 /\ budget[kind] > 0
    /\ budget' = [budget EXCEPT ![kind] = @ - 1]
    /\ call' = c

Reads == UNCHANGED <<store, budget, imports>>

-----------------------------------------------------------------------------
(* Others write *)

\* What a call returned is forgotten then.
Written(st, k) ==
    /\ budget.writes > 0 /\ (Running \/ budget.reads > 0)
    /\ store' = st
    /\ IF Running THEN seen' = seen \cup Snapshot(st) /\ UNCHANGED call
                  ELSE seen' = {} /\ call' = Idle
    /\ budget' = [budget EXCEPT !.writes = @ - 1]
    /\ imports' = [imports EXCEPT !.alone =
                     @ /\ ~(k = DiskMain \/ Under(DiskMain, k))]

\* A flush of the mirror, or the append of fork_session_via_store.
Mirror == \E b \in MirrorBatches : Written(AppendTo(store, b.key, b.entries), b.key)

\* Nobody asks whether the session exists.
Rename(s, t) ==
    Written(AppendTo(store, MainKey(Project, s), <<Title(t)>>), MainKey(Project, s))

TagSession(s, t) ==
    Written(AppendTo(store, MainKey(Project, s), <<Tag(t)>>), MainKey(Project, s))

Delete(s) == Written(DeleteKey(store, MainKey(Project, s)), MainKey(Project, s))

-----------------------------------------------------------------------------
(* list_sessions_from_store *)

\* What the adapter implements decides the way; with neither it is refused.
List(limit, caps) ==
    /\ caps.list \/ caps.summaries
    /\ Begin([op |-> "list", limit |-> limit, caps |-> caps, sums |-> {},
              at |-> IF caps.summaries THEN "summaries" ELSE "sessions"], "reads")
    /\ seen' = {}
    /\ UNCHANGED <<store, imports>>

\* The fast path pages before it loads, so that a page costs at most its size.
Opened(c, summaries, listing) ==
    LET caps == c.caps
        slots == IF caps.summaries THEN Slots(summaries, listing, caps.list, Project)
                 ELSE {Gap(l) : l \in listing}
        sorted == Newest(slots)
    IN  [op |-> "list", at |-> "load", limit |-> c.limit, caps |-> caps,
         page |-> IF caps.summaries THEN PageOf(sorted, c.limit, 0) ELSE sorted]

ReadSummaries ==
    /\ call.op = "list" /\ call.at = "summaries"
    /\ LET sums == ListSessionSummaries(store, Project) IN
       IF call.caps.list
         THEN call' = [call EXCEPT !.at = "sessions", !.sums = sums] /\ UNCHANGED seen
         ELSE call' = Opened(call, sums, {}) /\ seen' = Snapshot(store)
    /\ Reads

ReadListing ==
    /\ call.op = "list" /\ call.at = "sessions"
    /\ call' = Opened(call, call.sums, ListSessions(store, Project))
    /\ seen' = Snapshot(store)
    /\ Reads

IsWaiting(slot) == slot.info = Waiting

\* The loads run side by side, and may end in any order.
LoadGap(i) ==
    /\ call.op = "list" /\ call.at = "load"
    /\ i \in DOMAIN call.page /\ IsWaiting(call.page[i])
    /\ LET slot == call.page[i]
           es == Load(store, MainKey(Project, slot.session_id))
       IN  call' = [call EXCEPT !.page[i].info =
                      LoadedInfo(slot.session_id, es, slot.mtime, Project)]
    /\ UNCHANGED seen /\ Reads

LoadGapFails(i) ==
    /\ call.op = "list" /\ call.at = "load"
    /\ i \in DOMAIN call.page /\ IsWaiting(call.page[i])
    /\ budget.failures > 0
    /\ budget' = [budget EXCEPT !.failures = @ - 1]
    /\ call' = [call EXCEPT !.page[i].info =
                  EmptyRow(call.page[i].session_id, call.page[i].mtime)]
    /\ UNCHANGED <<store, seen, imports>>

Listed ==
    /\ call.op = "list" /\ call.at = "load"
    /\ \A i \in DOMAIN call.page : ~IsWaiting(call.page[i])
    /\ LET shown == Ascending({i \in DOMAIN call.page : call.page[i].info # NoInfo})
           rows == [n \in DOMAIN shown |-> call.page[shown[n]].info]
       IN  call' = [op |-> "list", at |-> "done", limit |-> call.limit,
                    rows |-> IF call.caps.summaries THEN rows ELSE PageOf(rows, call.limit, 0)]
    /\ UNCHANGED seen /\ Reads

-----------------------------------------------------------------------------
(* materialize_resume_session *)

\* validate_session_store_options: to continue, the store has to list its sessions.
Accepted(sid, caps) == sid # Absent \/ caps.list

\* sid is the id to resume, or Absent to continue: then the candidates, rows of a
\* listing, are tried from the newest on.
Resume(sid, caps) ==
    /\ Accepted(sid, caps)
    /\ Begin([op |-> "resume", at |-> IF sid = Absent THEN "sessions" ELSE "candidate",
              sid |-> sid, subkeys |-> caps.subkeys, listed |-> {},
              candidates |-> IF sid = Absent THEN {} ELSE {[session_id |-> sid, mtime |-> 0]},
              picked |-> Absent, main |-> <<>>, left |-> {}, files |-> <<>>], "reads")
    /\ seen' = Snapshot(store)
    /\ UNCHANGED <<store, imports>>

ReadCandidates ==
    /\ call.op = "resume" /\ call.at = "sessions"
    /\ LET rows == ListSessions(store, Project)
       IN  call' = [call EXCEPT !.at = "candidate", !.listed = rows, !.candidates = rows]
    /\ seen' = Snapshot(store)
    /\ Reads

\* Done without a tree: the CLI starts as if there were no store.
NothingToResume ==
    /\ call.op = "resume" /\ call.at = "candidate" /\ call.candidates = {}
    /\ call' = [call EXCEPT !.at = "done"]
    /\ UNCHANGED seen /\ Reads

\* The first entry tells a sidechain; who names a session gets it all the same.
IsSkipped(es) == ~HasEntries(es) \/ (call.sid = Absent /\ IsSet(es[1], "isSidechain"))

\* MUTANT of IsNext: the candidates are tried from the oldest on.
IsNextOldest(r) == r \in call.candidates /\ \A q \in call.candidates : q.mtime >= r.mtime

IsNext(r) == r \in call.candidates /\ \A q \in call.candidates : q.mtime <= r.mtime

LoadCandidate(r) ==
    /\ call.op = "resume" /\ call.at = "candidate" /\ IsNext(r)
    /\ LET es == Load(store, MainKey(Project, r.session_id))
       IN  IF IsSkipped(es)
             THEN call' = [call EXCEPT !.candidates = @ \ {r}]
             ELSE call' = [call EXCEPT !.at = "subkeys", !.picked = r.session_id, !.main = es]
    /\ UNCHANGED seen /\ Reads

\* The main transcript is on disk by now.  Unsafe subpaths are left out, and all
\* of them if the store cannot list them.
ReadSubkeys ==
    /\ call.op = "resume" /\ call.at = "subkeys"
    /\ call' = [call EXCEPT !.at = "subs",
                  !.left = {p \in ListSubkeys(store, Project, call.picked) :
                              call.subkeys /\ SafeSubpath(p)}]
    /\ UNCHANGED seen /\ Reads

\* One subagent's transcript and sidecar; the synthetic type is not written.
Materialized(es) ==
    [lines |-> Transcript(es),
     meta |-> IF Metadata(es) = NoMeta THEN NoMeta ELSE Without(Metadata(es), "type")]

LoadSubkey(p) ==
    /\ call.op = "resume" /\ call.at = "subs" /\ p \in call.left
    /\ LET es == Load(store, SubKey(Project, call.picked, p))
       IN  call' = [call EXCEPT !.left = @ \ {p},
                      !.files = IF HasEntries(es) THEN Put(@, p, Materialized(es)) ELSE @]
    /\ UNCHANGED seen /\ Reads

Materialize ==
    /\ call.op = "resume" /\ call.at = "subs" /\ call.left = {}
    /\ call' = [call EXCEPT !.at = "done"]
    /\ UNCHANGED seen /\ Reads

\* Any read fails or times out, and the tree written so far is removed.
ReadFails ==
    /\ \/ call.op = "resume" /\ Running
       \/ call.op = "list" /\ call.at \in {"summaries", "sessions"}
    /\ budget.failures > 0
    /\ budget' = [budget EXCEPT !.failures = @ - 1]
    /\ call' = [op |-> "failed", at |-> "done"]
    /\ UNCHANGED <<store, seen, imports>>
-----------------------------------------------------------------------------
(* import_session_to_store *)

Batches(lines) ==
    LET n == (Len(lines) + BatchSize - 1) \div BatchSize IN
    [i \in 1..n |-> SubSeq(lines, (i - 1) * BatchSize + 1,
                           IF i * BatchSize < Len(lines) THEN i * BatchSize ELSE Len(lines))]

\* MUTANT of Sidecar: the sidecar's own type stays.
SidecarAsIs(meta) == PutOnce(meta, "type", "agent_metadata")

\* The sidecar becomes an entry; a type of its own must not hide what it is.
Sidecar(meta) == Put(meta, "type", "agent_metadata")

\* The appends for one file: its lines in batches and, of a subagent, the sidecar.
ImportsOf(k) ==
    Batches(Disk[k].lines)
      \o IF Disk[k].meta = NoMeta THEN <<>> ELSE <<<<Sidecar(Disk[k].meta)>>>>

\* The main transcript is first, then each subagent's.  A retry begins anew: nothing
\* remembers how far the last import came.
Import ==
    /\ Begin([op |-> "import", at |-> "append", key |-> DiskMain, left |-> ImportsOf(DiskMain),
              subs |-> SetToSeq(DOMAIN Disk \ {DiskMain})], "writes")
    /\ imports' = [imports EXCEPT !.tries = @ + 1, !.complete = FALSE]
    /\ seen' = {}
    /\ UNCHANGED store

ImportAppend ==
    /\ call.op = "import" /\ call.at = "append" /\ call.left # <<>>
    /\ store' = AppendTo(store, call.key, Head(call.left))
    /\ call' = [call EXCEPT !.left = Tail(@)]
    /\ UNCHANGED <<seen, budget, imports>>

ImportSubagent ==
    /\ call.op = "import" /\ call.at = "append" /\ call.left = <<>> /\ call.subs # <<>>
    /\ call' = [call EXCEPT !.key = Head(call.subs), !.left = ImportsOf(Head(call.subs)),
                            !.subs = Tail(@)]
    /\ UNCHANGED <<store, seen, budget, imports>>

Imported ==
    /\ call.op = "import" /\ call.at = "append" /\ call.left = <<>> /\ call.subs = <<>>
    /\ call' = [op |-> "import", at |-> "done"]
    /\ imports' = [imports EXCEPT !.complete = TRUE]
    /\ UNCHANGED <<store, seen, budget>>

\* An append fails, or a line does not parse: what was appended stays.
ImportFails ==
    /\ call.op = "import" /\ call.at = "append" /\ budget.failures > 0
    /\ budget' = [budget EXCEPT !.failures = @ - 1]
    /\ call' = [op |-> "failed", at |-> "done"]
    /\ UNCHANGED <<store, seen, imports>>

-----------------------------------------------------------------------------
Next ==
    \/ Mirror
    \/ \E s \in Sessions : Delete(s) \/ \E t \in Titles : Rename(s, t)
    \/ \E s \in Sessions : \E t \in Tags : TagSession(s, t)
    \/ \E limit \in Limits : \E caps \in Adapters : List(limit, caps)
    \/ ReadSummaries \/ ReadListing \/ Listed
    \/ \E i \in 1..Cardinality(Sessions) : LoadGap(i) \/ LoadGapFails(i)
    \/ \E s \in Sessions \cup {Absent}, caps \in Adapters : Resume(s, caps)
    \/ ReadCandidates \/ NothingToResume \/ ReadSubkeys \/ Materialize
    \/ call.op = "resume" /\ \E r \in call.candidates : LoadCandidate(r)
    \/ call.op = "resume" /\ \E p \in call.left : LoadSubkey(p)
    \/ ReadFails
    \/ Import \/ ImportAppend \/ ImportSubagent \/ Imported \/ ImportFails

Spec == Init /\ [][Next]_vars

-----------------------------------------------------------------------------
(* Properties *)

\* What a row may show of a transcript, whichever way it was derived.
Facts(info) == Without(info, "last_modified")
Rows(s, es) ==
    {Facts(LiteInfo(s, es, 0, Project)),
     Facts(SummaryToInfo(s, FoldSummary(NoSummary, es), Project))}

\* A call that only reads brings the store into no state that the same writes without
\* it do not; what is said of the store alone is said outside such calls.
NotReading == call.op \notin {"list", "resume"}

\* Summaries are folded batch by batch, through appends, renames, deletes and
\* re-creations: each is the fold of the whole transcript and has the time of its last
\* write; no session is without one, and none outlives its session.
SummariesCurrent == NotReading =>
    /\ DOMAIN store.summaries = {k \in DOMAIN store.data : IsMain(k)}
    /\ \A k \in DOMAIN store.summaries :
        store.summaries[k] =
            [mtime |-> store.mtimes[k], data |-> FoldSummary(NoSummary, store.data[k]).data]

\* A summary of the project shows what a parse of the whole transcript shows ("disk and
\* store paths produce identical results for the same transcript content"), apart from
\* the tag, as long as the transcript fits into the window of the parse and each line is
\* plain: no title, prompt, branch or directory in it is empty, and none of the keys is
\* nested in it again.  (On a tag, an empty field and a nested key the two part.)
IsPlain(e) ==
    /\ \A f \in DOMAIN LastWins \cup {"cwd"} : Get(e, f) # ""
    /\ {"before", "after"} \cap DOMAIN e = {}
SummariesMatch == NotReading =>
    \A k \in {j \in DOMAIN store.summaries : j[1] = Project} :
        LET es == store.data[k] IN
        Len(es) <= Window /\ (\A i \in DOMAIN es : IsPlain(es[i])) =>
            Without(SummaryToInfo(k[2], store.summaries[k], Project), "tag")
              = Without(LiteInfo(k[2], es, store.mtimes[k], Project), "tag")

\* A listing shows a session as it was when the sessions were enumerated or later,
\* never older, although its summary was read before: a session deleted by then is
\* not shown, one appended to is not shown as it was.  A session that was there
\* throughout with something to show is not missed.  (Or its row is empty, when
\* the adapter failed.)
ListedSinceEnumeration ==
    call.op = "list" /\ call.at = "done" =>
        LET held(s) == {x[2] : x \in {y \in seen : y[1] = MainKey(Project, s)}}
            listed == {call.rows[i].session : i \in DOMAIN call.rows}
        IN
        /\ Cardinality(listed) = Len(call.rows)
        /\ \A i \in DOMAIN call.rows :
            LET row == call.rows[i] IN
            \/ row.summary = ""
            \/ \E es \in held(row.session) : es # <<>> /\ Facts(row) \in Rows(row.session, es)
        /\ \A i, j \in DOMAIN call.rows :
            i < j => call.rows[i].last_modified > call.rows[j].last_modified
        /\ call.limit = 0 =>
            \A s \in Sessions :
                (\A es \in held(s) : es # <<>> /\ Facts(NoInfo) \notin Rows(s, es))
                  => s \in listed

\* "--continue resumes the user's conversation, not a subagent's": the session
\* picked is no sidechain, and every session that was newer in the listing (every one
\* of it, if none was picked) was seen empty, deleted or a sidechain.  Each transcript
\* of the tree is what the store held under its key at some moment of the call.
ResumesNewestConversation ==
    call.op = "resume" /\ call.at = "done" =>
        LET held(k) == {x[2] : x \in {y \in seen : y[1] = k}}
            main(s) == held(MainKey(Project, s))
            side(es) == es # <<>> /\ IsSet(es[1], "isSidechain")
            newer == {r \in call.listed : \A q \in call.listed :
                        q.session_id = call.picked => r.mtime > q.mtime}
        IN
        /\ \A r \in newer : \E es \in main(r.session_id) : es = <<>> \/ side(es)
        /\ call.picked # Absent =>
            /\ call.main # <<>> /\ call.main \in main(call.picked)
            /\ call.sid = Absent => ~side(call.main)
            /\ call.sid # Absent => call.picked = call.sid
            /\ \A p \in DOMAIN call.files :
                \E es \in held(SubKey(Project, call.picked, p)) :
                    call.files[p] = Materialized(es)

\* "The inverse of resume materialization": a session that was imported and then
\* resumed is on disk what it was, with its subagents and their sidecars if the
\* store can list them.  After a try that failed, each transcript still ends with
\* all its lines, behind those the try had stored, and each sidecar is the same.
ImportedSessionResumes ==
    call.op = "resume" /\ call.at = "done" /\ call.picked = DiskMain[2]
      /\ imports.alone /\ imports.complete =>
        LET file(p) == Disk[SubKey(Project, call.picked, p)]
            same(lines, got) == IF imports.tries = 1 THEN got = lines ELSE IsSuffix(lines, got)
            \* Of an empty file nothing is appended.
            kept == {k \in DOMAIN Disk \ {DiskMain} : ImportsOf(k) # <<>>}
            subpaths == {SubSeq(k, 3, Len(k)) : k \in kept}
        IN
        /\ same(Disk[DiskMain].lines, call.main)
        /\ DOMAIN call.files = IF call.subkeys THEN subpaths ELSE {}
        /\ Subagents(store, Project, call.picked) = {Last(p) : p \in subpaths}
        /\ \A p \in DOMAIN call.files :
            /\ same(file(p).lines, call.files[p].lines)
            /\ call.files[p].meta = IF file(p).meta = NoMeta THEN NoMeta
                                    ELSE Without(file(p).meta, "type")

\* The contracts of conformance.rs hold in whatever state calls have brought the
\* store, not only after the few that each contract makes on an empty one.
Conforms == NotReading =>
    \A k \in Keys :
        /\ DeleteContract(store, k)
        /\ ListingContract(store, k)
        /\ \A batch \in {b.entries : b \in MirrorBatches} : AppendContract(store, k, batch)
=============================================================================
