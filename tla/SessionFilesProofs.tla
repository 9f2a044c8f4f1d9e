-------------------------- MODULE SessionFilesProofs --------------------------
(***************************************************************************)
(* A deleted session stays away, and what was written last is what is      *)
(* shown: for every set of directories, worktrees, sessions, batches of    *)
(* the CLI and processes, however the steps of their calls interleave and  *)
(* wherever a process dies.                                                *)
(***************************************************************************)
EXTENDS SessionFiles, WellFoundedInduction, SequenceTheorems, FiniteSetTheorems, TLAPS

NatLess == {p \in Nat \X Nat : p[1] < p[2]}

\* A non-empty set of naturals has a least element.
LEMMA LeastExists ==
    ASSUME NEW S \in SUBSET Nat, S # {}
    PROVE  \E x \in S : \A y \in S : x <= y
<1>1. IsWellFoundedOn(NatLess, Nat)
  BY NatLessThanWellFounded DEF OpToRel, NatLess
<1>2. PICK x \in S : \A y \in S : ~ (<<y, x>> \in NatLess)
  BY <1>1, WFMin
<1>3. ASSUME NEW y \in S PROVE x <= y
  <2>1. x \in Nat /\ y \in Nat
    OBVIOUS
  <2>2. <<y, x>> \in Nat \X Nat /\ <<y, x>>[1] = y /\ <<y, x>>[2] = x
    BY <2>1
  <2>3. ~ (y < x)
    BY <1>2, <2>2 DEF NatLess
  <2>4. QED
    BY <2>1, <2>3
<1>4. QED
  BY <1>3

\* A file that is there has a number, and the call that found one knows it: an
\* append goes by the file it opened, not by its name.
GoodFile(f) ==
    \/ f = NoFile
    \/ \E n \in Nat \ {0} : \E ls, t : f = [ino |-> n, lines |-> ls, mtime |-> t]

FilesInv ==
    /\ projects \subseteq Dirs
    /\ now \in Nat
    /\ file = [x \in Dirs \X Ids |-> file[x]]
    /\ \A x \in Dirs \X Ids : GoodFile(file[x])
    /\ agents = [x \in Dirs \X Ids |-> agents[x]]
    /\ deleted \subseteq Dirs \X Ids

\* A call under way is about a session; past its search it has a directory and
\* the number of a file.  What else it holds, in a set S, does not matter.
Held(S) == [op : S, at : S, where : S, id : Ids, line : S, left : S, dir : S, ino : S,
            text : S, alone : S]
GoodCall(k) ==
    /\ \E S : k \in Held(S)
    /\ k.at # "search" => k.dir \in Dirs /\ k.ino # 0

CallsInv ==
    /\ call = [c \in Callers |-> call[c]]
    /\ \A c \in Callers : call[c] # Idle => GoodCall(call[c])

IInv == FilesInv /\ CallsInv /\ DeletedIsGone

\* What a lookup finds is a directory that is there.
LEMMA FoundIsThere ==
    ASSUME FilesInv, NEW p PROVE FindProjectDir(p) = NoDir \/ FindProjectDir(p) \in projects
<1> DEFINE hits == {i \in 1..Len(ReadDir) :
                      ReadDir[i] \in projects /\ IsStrictPrefix(<<p[1]>>, ReadDir[i])}
<1>1. CASE p \in projects
  BY <1>1 DEF FindProjectDir
<1>2. CASE p \notin projects
  <2>1. FindProjectDir(p) = IF Len(p) = 1 \/ (IF hits # {} THEN Min(hits) ELSE 0) = 0
                              THEN NoDir ELSE ReadDir[IF hits # {} THEN Min(hits) ELSE 0]
    BY <1>2 DEF FindProjectDir, SelectInSeq
  <2>2. CASE hits = {}
    BY <2>1, <2>2
  <2>3. CASE hits # {}
    <3>1. hits \in SUBSET Nat
      OBVIOUS
    <3> HIDE DEF hits
    <3>2. Min(hits) \in hits
      BY <2>3, <3>1, LeastExists DEF Min
    <3>3. ReadDir[Min(hits)] \in projects
      BY <3>2 DEF hits
    <3>4. QED
      BY <2>1, <2>3, <3>3
  <2>4. QED
    BY <2>2, <2>3
<1>3. QED
  BY <1>1, <1>2

LEMMA HereHasIno ==
    ASSUME FilesInv, NEW p, NEW s \in Ids, IsHere(FindProjectDir(p), s)
    PROVE  FindProjectDir(p) \in Dirs /\ file[<<FindProjectDir(p), s>>].ino # 0
<1>1. FindProjectDir(p) \in Dirs
  BY FoundIsThere DEF IsHere, FilesInv
<1>2. GoodFile(file[<<FindProjectDir(p), s>>]) /\ file[<<FindProjectDir(p), s>>] # NoFile
  BY <1>1 DEF FilesInv, IsHere
<1>3. PICK n \in Nat \ {0} :
        \E ls, t : file[<<FindProjectDir(p), s>>] = [ino |-> n, lines |-> ls, mtime |-> t]
  BY <1>2 DEF GoodFile
<1>4. file[<<FindProjectDir(p), s>>].ino = n
  BY <1>3
<1>5. QED
  BY <1>1, <1>4

-----------------------------------------------------------------------------
(* What a step does to the files *)

\* A write to one file: that file alone changes.
LEMMA FileWritten ==
    ASSUME FilesInv, NEW x, NEW f, file' = [file EXCEPT ![x] = f],
           x \in Dirs \X Ids => GoodFile(f)
    PROVE  /\ file' = [y \in Dirs \X Ids |-> file'[y]]
           /\ \A y \in Dirs \X Ids : GoodFile(file'[y])
           /\ \A y \in Dirs \X Ids : file'[y] = IF y = x THEN f ELSE file[y]
<1>1. \A y \in Dirs \X Ids : file'[y] = IF y = x THEN f ELSE file[y]
  BY DEF FilesInv
<1>2. file' = [y \in Dirs \X Ids |-> file'[y]]
  BY DEF FilesInv
<1>3. \A y \in Dirs \X Ids : GoodFile(file'[y])
  BY <1>1 DEF FilesInv
<1>4. QED
  BY <1>1, <1>2, <1>3

\* A new file; a file that is written again is the file it was, and what is gone
\* stays gone.
LEMMA NewFileGood ==
    ASSUME FilesInv, NEW lines PROVE GoodFile(NewFile(lines))
<1>1. now + 1 \in Nat \ {0}
  BY DEF FilesInv
<1>2. QED
  BY <1>1 DEF NewFile, GoodFile

LEMMA RewrittenGood ==
    ASSUME NEW f, NEW ls, GoodFile(f)
    PROVE  GoodFile(Rewritten(f, ls)) /\ (f = NoFile => Rewritten(f, ls) = NoFile)
<1> DEFINE t == now + 1
<1>1. CASE f = NoFile
  BY <1>1 DEF NoFile, GoodFile, Rewritten
<1>2. ASSUME NEW n \in Nat \ {0}, NEW l, NEW m, f = [ino |-> n, lines |-> l, mtime |-> m]
      PROVE  GoodFile(Rewritten(f, ls)) /\ (f = NoFile => Rewritten(f, ls) = NoFile)
  <2> DEFINE g == [f EXCEPT !.lines = ls]
  <2>1. g = [ino |-> n, lines |-> ls, mtime |-> m]
    BY <1>2
  <2>2. [g EXCEPT !.mtime = t] = [ino |-> n, lines |-> ls, mtime |-> t]
    <3> HIDE DEF g, t
    <3>1. QED
      BY <2>1
  <2>3. Rewritten(f, ls) = [ino |-> n, lines |-> ls, mtime |-> t]
    BY <2>2 DEF Rewritten
  <2>4. f.ino = n /\ NoFile.ino = 0
    BY <1>2 DEF NoFile
  <2>5. QED
    BY <2>3, <2>4 DEF GoodFile
<1>3. QED
  BY <1>1, <1>2 DEF GoodFile

\* A step that writes one file and deletes nothing keeps what is deleted away, if
\* the file was not deleted or is not there afterwards.
LEMMA WriteKeeps ==
    ASSUME IInv, NEW x, NEW f, file' = [file EXCEPT ![x] = f],
           x \in Dirs \X Ids => GoodFile(f) /\ (x \in deleted' => f = NoFile),
           agents' = agents, now' \in Nat, projects' \subseteq Dirs, deleted' \subseteq deleted
    PROVE  FilesInv' /\ DeletedIsGone'
<1>1. /\ file' = [y \in Dirs \X Ids |-> file'[y]]
      /\ \A y \in Dirs \X Ids : GoodFile(file'[y])
      /\ \A y \in Dirs \X Ids : file'[y] = IF y = x THEN f ELSE file[y]
  BY FileWritten DEF IInv
<1>2. FilesInv'
  BY <1>1 DEF IInv, FilesInv
<1>3. \A y \in deleted' : file'[y] = NoFile /\ agents'[y] = {}
  BY <1>1 DEF IInv, FilesInv, DeletedIsGone
<1>4. QED
  BY <1>2, <1>3 DEF DeletedIsGone

\* A call past its search is about a file in a directory.
LEMMA FoundCall ==
    ASSUME IInv, NEW c \in Callers, NEW op, NEW at, At(c, op, at), at # "search"
    PROVE  <<call[c].dir, call[c].id>> \in Dirs \X Ids /\ call[c].ino # 0
<1>1. GoodCall(call[c]) /\ call[c].at # "search"
  BY DEF At, IInv, CallsInv
<1>2. call[c].id \in Ids
  BY <1>1 DEF GoodCall, Held
<1>3. QED
  BY <1>1, <1>2 DEF GoodCall

LEMMA FilesStep ==
    ASSUME IInv, [Next]_vars PROVE FilesInv' /\ DeletedIsGone'
<1> USE DEF IInv
<1>1. ASSUME NEW d \in Dirs, NEW s \in Sessions, NEW lines \in Batches, CliWrites(d, s, lines)
      PROVE  FilesInv' /\ DeletedIsGone'
  <2> DEFINE x == <<d, s>>
             f == IF file[x] = NoFile
                    THEN NewFile(lines) ELSE Rewritten(file[x], file[x].lines \o lines)
  <2>1. x \in Dirs \X Ids
    BY DEF Ids
  <2>2. agents' = agents /\ now' = now + 1 /\ projects' = projects \cup {d}
        /\ deleted' = deleted \ {x}
    BY <1>1 DEF CliWrites, Tick
  <2>3. file' = [file EXCEPT ![x] = f]
    BY <1>1, <2>1 DEF CliWrites
  <2>4. GoodFile(f)
    <3>1. CASE file[x] = NoFile
      BY <3>1, NewFileGood
    <3>2. CASE file[x] # NoFile
      <4>1. GoodFile(file[x])
        BY <2>1 DEF FilesInv
      <4>2. QED
        BY <3>2, <4>1, RewrittenGood
    <3>3. QED
      BY <3>1, <3>2
  <2> HIDE DEF f
  <2>5. now' \in Nat /\ projects' \subseteq Dirs /\ x \notin deleted' /\ deleted' \subseteq deleted
    BY <2>2 DEF FilesInv
  <2>6. QED
    BY <2>2, <2>3, <2>4, <2>5, WriteKeeps
<1>2. ASSUME NEW d \in Dirs, NEW s \in Sessions, NEW a \in Agents, CliRunsAgent(d, s, a)
      PROVE  FilesInv' /\ DeletedIsGone'
  <2>1. /\ agents' = [agents EXCEPT ![<<d, s>>] = @ \cup {a}]
        /\ deleted' = deleted \ {<<d, s>>}
        /\ UNCHANGED <<projects, file, now>>
    BY <1>2 DEF CliRunsAgent
  <2>2. agents' = [x \in Dirs \X Ids |-> agents'[x]]
    BY <2>1 DEF FilesInv
  <2>3. \A x \in deleted' : agents'[x] = agents[x]
    BY <2>1 DEF FilesInv
  <2>4. FilesInv'
    BY <2>1, <2>2 DEF FilesInv
  <2>5. DeletedIsGone'
    BY <2>1, <2>3 DEF DeletedIsGone
  <2>6. QED
    BY <2>4, <2>5
<1>3. ASSUME NEW c \in Callers, AppendLine(c) PROVE FilesInv' /\ DeletedIsGone'
  <2> DEFINE x == <<call[c].dir, call[c].id>>
             g == Rewritten(file[x], Append(file[x].lines, call[c].line))
             f == IF file[x].ino # call[c].ino THEN file[x] ELSE g
  <2>1. x \in Dirs \X Ids /\ call[c].ino # 0
    BY <1>3, FoundCall DEF AppendLine
  <2>2. file' = [file EXCEPT ![x] = f]
    BY <1>3, <2>1 DEF AppendLine, FilesInv
  <2>3. UNCHANGED <<projects, agents, deleted>> /\ now' = now + 1
    BY <1>3 DEF AppendLine, Tick
  <2>4. GoodFile(file[x])
    BY <2>1 DEF FilesInv
  <2>5. GoodFile(g)
    BY <2>4, RewrittenGood
  <2>6. x \in deleted => file[x] = NoFile
    BY DEF DeletedIsGone
  <2>7. file[x] = NoFile => f = NoFile
    BY <2>1 DEF NoFile
  <2> HIDE DEF g
  <2>8. GoodFile(f)
    BY <2>4, <2>5
  <2> HIDE DEF f
  <2>9. now' \in Nat /\ projects' \subseteq Dirs
    BY <2>3 DEF FilesInv
  <2>10. QED
    BY <2>2, <2>3, <2>6, <2>7, <2>8, <2>9, WriteKeeps
<1>4. ASSUME NEW c \in Callers, RemoveFile(c) PROVE FilesInv' /\ DeletedIsGone'
  <2>1. /\ file' = [file EXCEPT ![<<call[c].dir, call[c].id>>] = NoFile]
        /\ UNCHANGED <<projects, agents, now, deleted>>
    BY <1>4 DEF RemoveFile
  <2>2. GoodFile(NoFile) /\ now' \in Nat /\ projects' \subseteq Dirs
    BY <2>1 DEF GoodFile, FilesInv
  <2>3. QED
    BY <2>1, <2>2, WriteKeeps
<1>5. ASSUME NEW c \in Callers, NEW ok \in BOOLEAN, RemoveAgents(c, ok)
      PROVE  FilesInv' /\ DeletedIsGone'
  <2> DEFINE x == <<call[c].dir, call[c].id>>
  <2>1. UNCHANGED <<projects, file, now>>
    BY <1>5 DEF RemoveAgents
  <2>2. CASE ok
    <3>1. /\ agents' = [agents EXCEPT ![x] = {}]
          /\ deleted' = IF file[x] = NoFile THEN deleted \cup {x} ELSE deleted
      BY <1>5, <2>2 DEF RemoveAgents
    <3>2. x \in Dirs \X Ids
      BY <1>5, FoundCall DEF RemoveAgents
    <3>3. \A y \in Dirs \X Ids : agents'[y] = IF y = x THEN {} ELSE agents[y]
      BY <3>1, <3>2 DEF FilesInv
    <3>4. agents' = [y \in Dirs \X Ids |-> agents'[y]]
      BY <3>1 DEF FilesInv
    <3>5. FilesInv'
      BY <2>1, <3>1, <3>2, <3>4 DEF FilesInv
    <3>6. \A y \in deleted' : file'[y] = NoFile /\ agents'[y] = {}
      BY <2>1, <3>1, <3>2, <3>3 DEF FilesInv, DeletedIsGone
    <3>7. QED
      BY <3>5, <3>6 DEF DeletedIsGone
  <2>3. CASE ~ok
    BY <1>5, <2>1, <2>3 DEF RemoveAgents, FilesInv, DeletedIsGone
  <2>4. QED
    BY <2>2, <2>3
<1>6. ASSUME NEW c \in Callers, NEW i \in ForkIds, CreateFork(c, i)
      PROVE  FilesInv' /\ DeletedIsGone'
  <2> DEFINE x == <<call[c].dir, i>>
             f == NewFile(<<>>)
  <2>1. /\ file' = [file EXCEPT ![x] = f] /\ now' = now + 1
        /\ UNCHANGED <<projects, agents, deleted>>
        /\ \A d \in Dirs : <<d, i>> \notin deleted
    BY <1>6 DEF CreateFork, Tick
  <2>2. now + 1 \in Nat
    BY DEF FilesInv
  <2>3. GoodFile(f)
    BY NewFileGood
  <2> HIDE DEF f
  <2>4. x \notin deleted /\ now' \in Nat /\ projects' \subseteq Dirs
    BY <2>1, <2>2 DEF FilesInv
  <2>5. QED
    BY <2>1, <2>3, <2>4, WriteKeeps
<1>7. ASSUME NEW c \in Callers, FillFork(c) PROVE FilesInv' /\ DeletedIsGone'
  <2> DEFINE x == <<call[c].dir, call[c].id>>
             f == Rewritten(file[x], call[c].text)
  <2>1. UNCHANGED <<projects, agents, deleted>> /\ now' = now + 1
    BY <1>7 DEF FillFork, Tick
  <2>2. x \in Dirs \X Ids
    BY <1>7, FoundCall DEF FillFork
  <2>3. file' = [file EXCEPT ![x] = f]
    BY <1>7, <2>2 DEF FillFork, FilesInv
  <2>4. GoodFile(f) /\ (file[x] = NoFile => f = NoFile)
    BY <2>2, RewrittenGood DEF FilesInv
  <2>5. x \in deleted => file[x] = NoFile
    BY DEF DeletedIsGone
  <2> HIDE DEF f
  <2>6. now' \in Nat /\ projects' \subseteq Dirs
    BY <2>1 DEF FilesInv
  <2>7. QED
    BY <2>1, <2>3, <2>4, <2>5, <2>6, WriteKeeps
<1>8. ASSUME NEW c \in Callers, Search(c) \/ ReadSource(c) \/ Crash(c)
      PROVE  FilesInv' /\ DeletedIsGone'
  BY <1>8 DEF Search, ReadSource, Crash, Disk, Rest, FilesInv, DeletedIsGone
<1>9. ASSUME NEW c \in Callers, NEW op, NEW where, NEW s, NEW line,
             Begin(c, op, where, s, line)
      PROVE  FilesInv' /\ DeletedIsGone'
  BY <1>9 DEF Begin, FilesInv, DeletedIsGone
<1>10. CASE UNCHANGED vars
  BY <1>10 DEF vars, FilesInv, DeletedIsGone
<1>11. QED
  BY <1>1, <1>2, <1>3, <1>4, <1>5, <1>6, <1>7, <1>8, <1>9, <1>10 DEF Next

-----------------------------------------------------------------------------
(* What a step does to the calls *)

LEMMA HeldGrows ==
    ASSUME NEW S, NEW T, S \subseteq T, NEW k \in Held(S) PROVE k \in Held(T)
BY DEF Held

\* A call somebody met is as good as before.
LEMMA MetGood ==
    ASSUME NEW k, k # Idle => GoodCall(k), NEW ids
    PROVE  Met(k, ids) # Idle => GoodCall(Met(k, ids))
<1>1. CASE k # Idle /\ k.id \in ids
  <2>1. PICK S : k \in Held(S)
    BY <1>1 DEF GoodCall
  <2> DEFINE T == S \cup {FALSE}
             m == [k EXCEPT !.alone = FALSE]
  <2>2. k \in Held(T)
    BY <2>1, HeldGrows
  <2>3. FALSE \in T
    OBVIOUS
  <2> HIDE DEF T
  <2>4. m \in Held(T) /\ m.at = k.at /\ m.dir = k.dir /\ m.ino = k.ino
    BY <2>2, <2>3 DEF Held
  <2>5. Met(k, ids) = m
    BY <1>1 DEF Met
  <2> HIDE DEF m
  <2>6. QED
    BY <1>1, <2>4, <2>5 DEF GoodCall
<1>2. CASE ~ (k # Idle /\ k.id \in ids)
  BY <1>2 DEF Met
<1>3. QED
  BY <1>1, <1>2

\* One call changes.
LEMMA CallChanges ==
    ASSUME CallsInv, NEW c \in Callers, NEW k, call' = [call EXCEPT ![c] = k],
           k # Idle => GoodCall(k)
    PROVE  CallsInv'
<1>1. \A b \in Callers : call'[b] = IF b = c THEN k ELSE call[b]
  BY DEF CallsInv
<1>2. call' = [b \in Callers |-> call'[b]]
  BY DEF CallsInv
<1>3. \A b \in Callers : call'[b] # Idle => GoodCall(call'[b])
  BY <1>1 DEF CallsInv
<1>4. QED
  BY <1>2, <1>3 DEF CallsInv, GoodCall, Held

LEMMA CallsStep ==
    ASSUME IInv, [Next]_vars PROVE CallsInv'
<1>1. CallsInv /\ FilesInv
  BY DEF IInv
<1>2. ASSUME NEW d \in Dirs, NEW s \in Sessions, NEW lines \in Batches, CliWrites(d, s, lines)
      PROVE  CallsInv'
  <2>1. PICK ids : call' = [c \in Callers |-> Met(call[c], ids)]
    BY <1>2 DEF CliWrites
  <2>2. \A c \in Callers : call'[c] # Idle => GoodCall(call'[c])
    BY <1>1, <2>1, MetGood DEF CallsInv
  <2>3. QED
    BY <2>1, <2>2 DEF CallsInv, GoodCall, Held
<1>3. ASSUME NEW c \in Callers, RemoveFile(c) PROVE CallsInv'
  <2> DEFINE x == <<call[c].dir, call[c].id>>
             own == IF file[x] = NoFile THEN Idle ELSE [call[c] EXCEPT !.at = "agents"]
             ids == {call[c].id}
  <2>1. call' = [k \in Callers |-> IF k = c THEN own ELSE Met(call[k], ids)]
    BY <1>3 DEF RemoveFile
  <2>2. own # Idle => GoodCall(own)
    <3>1. SUFFICES ASSUME file[x] # NoFile PROVE GoodCall([call[c] EXCEPT !.at = "agents"])
      OBVIOUS
    <3>2. GoodCall(call[c]) /\ call[c].at # "search"
      BY <1>1, <1>3 DEF RemoveFile, At, CallsInv
    <3>3. PICK S : call[c] \in Held(S)
      BY <3>2 DEF GoodCall
    <3> DEFINE T == S \cup {"agents"}
               m == [call[c] EXCEPT !.at = "agents"]
    <3>4. call[c] \in Held(T)
      BY <3>3, HeldGrows
    <3>5. "agents" \in T
      OBVIOUS
    <3> HIDE DEF T
    <3>6. m \in Held(T) /\ m.dir = call[c].dir /\ m.ino = call[c].ino
      BY <3>4, <3>5 DEF Held
    <3> HIDE DEF m
    <3>7. GoodCall(m)
      BY <3>2, <3>6 DEF GoodCall
    <3>8. QED
      BY <3>7 DEF m
  <2> HIDE DEF own, ids
  <2>3. \A k \in Callers : call'[k] # Idle => GoodCall(call'[k])
    BY <1>1, <2>1, <2>2, MetGood DEF CallsInv
  <2>4. QED
    BY <2>1, <2>3 DEF CallsInv, GoodCall, Held
<1>4. ASSUME NEW c \in Callers, NEW op, NEW where, NEW s \in Ids, NEW line,
             Begin(c, op, where, s, line)
      PROVE  CallsInv'
  <2> DEFINE k == [op |-> op, at |-> "search", where |-> where, id |-> s, line |-> line,
                   left |-> Places(where), dir |-> NoDir, ino |-> 0, text |-> <<>>,
                   alone |-> TRUE]
             S == {op, "search", where, line, Places(where), NoDir, 0, <<>>, TRUE}
  <2>1. call' = [call EXCEPT ![c] = k]
    BY <1>4 DEF Begin
  <2>2. k \in Held(S) /\ k.at = "search"
    BY DEF Held
  <2> HIDE DEF k, S
  <2>3. GoodCall(k)
    BY <2>2 DEF GoodCall
  <2>4. QED
    BY <1>1, <2>1, <2>3, CallChanges
<1>5. ASSUME NEW c \in Callers, Search(c) PROVE CallsInv'
  <2> DEFINE place == Min(call[c].left)
             d == DirAt(call[c].where, place)
             s == call[c].id
             found == [call[c] EXCEPT !.at = "found", !.dir = d, !.ino = file[<<d, s>>].ino]
             next == [call[c] EXCEPT !.left = call[c].left \ {place}]
  <2>1. GoodCall(call[c]) /\ call[c].at = "search"
    BY <1>1, <1>5 DEF Search, At, CallsInv
  <2>2. PICK S : call[c] \in Held(S)
    BY <2>1 DEF GoodCall
  <2>3. s \in Ids
    BY <2>2 DEF Held
  <2>4. CASE call[c].left = {}
    <3>1. call' = [call EXCEPT ![c] = Idle]
      BY <1>5, <2>4 DEF Search, Ends
    <3>2. QED
      BY <1>1, <3>1, CallChanges
  <2>5. CASE call[c].left # {} /\ IsHere(d, s)
    <3> DEFINE n == file[<<d, s>>].ino
               T == S \cup {"found", d, n}
    <3>1. call' = [call EXCEPT ![c] = found]
      BY <1>5, <2>5 DEF Search
    <3>2. d \in Dirs /\ n # 0
      BY <1>1, <2>3, <2>5, HereHasIno DEF DirAt
    <3>3. call[c] \in Held(T)
      BY <2>2, HeldGrows
    <3>4. {"found", d, n} \subseteq T
      OBVIOUS
    <3> HIDE DEF T, d, n, s
    <3>5. found \in Held(T) /\ found.dir = d /\ found.ino = n
      BY <3>3, <3>4 DEF Held, n
    <3> HIDE DEF found
    <3>6. GoodCall(found)
      BY <3>2, <3>5 DEF GoodCall
    <3>7. QED
      BY <1>1, <3>1, <3>6, CallChanges
  <2>6. CASE call[c].left # {} /\ ~IsHere(d, s)
    <3> DEFINE T == S \cup {call[c].left \ {place}}
    <3>1. call' = [call EXCEPT ![c] = next]
      BY <1>5, <2>6 DEF Search
    <3>2. call[c] \in Held(T)
      BY <2>2, HeldGrows
    <3>3. call[c].left \ {place} \in T
      OBVIOUS
    <3> HIDE DEF T, place
    <3>4. next \in Held(T) /\ next.at = call[c].at
      BY <3>2, <3>3 DEF Held
    <3> HIDE DEF next
    <3>5. GoodCall(next)
      BY <2>1, <3>4 DEF GoodCall
    <3>6. QED
      BY <1>1, <3>1, <3>5, CallChanges
  <2>7. QED
    BY <2>4, <2>5, <2>6
<1>6. ASSUME NEW c \in Callers, call' = [call EXCEPT ![c] = Idle] PROVE CallsInv'
  BY <1>1, <1>6, CallChanges
<1>7. ASSUME NEW c \in Callers, ReadSource(c) PROVE CallsInv'
  <2> DEFINE f == file[<<call[c].dir, call[c].id>>]
             text == ForkLines(f.lines)
             k == [call[c] EXCEPT !.at = "create", !.text = text]
  <2>1. call' = [call EXCEPT ![c] = Idle]
        \/ call' = [call EXCEPT ![c].at = "create", ![c].text = text]
    BY <1>7 DEF ReadSource, Ends
  <2>2. GoodCall(call[c]) /\ call[c].at # "search"
    BY <1>1, <1>7 DEF ReadSource, At, CallsInv
  <2> HIDE DEF text
  <2>3. [call EXCEPT ![c].at = "create", ![c].text = text] = [call EXCEPT ![c] = k]
    BY <1>1 DEF CallsInv
  <2>4. PICK S : call[c] \in Held(S)
    BY <2>2 DEF GoodCall
  <2> DEFINE T == S \cup {"create", text}
  <2>5. call[c] \in Held(T) /\ {"create", text} \subseteq T
    BY <2>4, HeldGrows
  <2> HIDE DEF T
  <2>6. k \in Held(T) /\ k.dir = call[c].dir /\ k.ino = call[c].ino
    BY <2>5 DEF Held
  <2> HIDE DEF k
  <2>7. GoodCall(k)
    BY <2>2, <2>6 DEF GoodCall
  <2>8. QED
    BY <1>1, <1>6, <2>1, <2>3, <2>7, CallChanges
<1>8. ASSUME NEW c \in Callers, NEW f \in ForkIds, CreateFork(c, f) PROVE CallsInv'
  <2> DEFINE k == [call[c] EXCEPT !.at = "fill", !.id = f, !.alone = TRUE]
  <2>1. call' = [call EXCEPT ![c].at = "fill", ![c].id = f, ![c].alone = TRUE]
    BY <1>8 DEF CreateFork
  <2>2. GoodCall(call[c]) /\ call[c].at # "search" /\ f \in Ids
    BY <1>1, <1>8 DEF CreateFork, At, CallsInv, Ids
  <2>3. [call EXCEPT ![c].at = "fill", ![c].id = f, ![c].alone = TRUE] = [call EXCEPT ![c] = k]
    BY <1>1 DEF CallsInv
  <2>4. PICK S : call[c] \in Held(S)
    BY <2>2 DEF GoodCall
  <2> DEFINE T == S \cup {"fill", TRUE}
  <2>5. call[c] \in Held(T) /\ {"fill", TRUE} \subseteq T
    BY <2>4, HeldGrows
  <2> HIDE DEF T
  <2>6. k \in Held(T) /\ k.dir = call[c].dir /\ k.ino = call[c].ino
    BY <2>2, <2>5 DEF Held
  <2> HIDE DEF k
  <2>7. GoodCall(k)
    BY <2>2, <2>6 DEF GoodCall
  <2>8. QED
    BY <1>1, <2>1, <2>3, <2>7, CallChanges
<1>9. ASSUME NEW c \in Callers,
             \/ AppendLine(c) \/ FillFork(c) \/ Crash(c)
             \/ \E ok \in BOOLEAN : RemoveAgents(c, ok)
      PROVE  CallsInv'
  BY <1>6, <1>9 DEF AppendLine, FillFork, Crash, RemoveAgents, Ends
<1>10. CASE \/ \E d \in Dirs, s \in Sessions, a \in Agents : CliRunsAgent(d, s, a)
            \/ UNCHANGED vars
  BY <1>1, <1>10 DEF CliRunsAgent, vars, CallsInv, GoodCall, Held
<1>11. QED
  BY <1>2, <1>3, <1>4, <1>5, <1>7, <1>8, <1>9, <1>10 DEF Next

LEMMA IInvInductive == Spec => []IInv
<1>1. Init => IInv
  BY DEF Init, IInv, FilesInv, CallsInv, DeletedIsGone, GoodFile
<1>2. IInv /\ [Next]_vars => IInv'
  BY FilesStep, CallsStep DEF IInv
<1>3. QED
  BY <1>1, <1>2, PTL DEF Spec

\* A session that was deleted with its subagents stays away until the CLI writes it
\* again: neither a rename or a tag that opened the file before, nor a fork, nor
\* another deletion brings any of it back.
THEOREM DeletedStaysGone == Spec => []DeletedIsGone
<1>1. IInv => DeletedIsGone
  BY DEF IInv
<1>2. QED
  BY <1>1, IInvInductive, PTL

-----------------------------------------------------------------------------
(* What is written is what is shown: the invariant *)

IsSeq(l) == \E S : l \in Seq(S)
IsLine(line) == line = IF IsType(line, "tag") THEN Tag(line.tag) ELSE Title(line.customTitle)

\* Lines of a file, of which the last is the one to be shown.
EndsIn(ls, line) == IsSeq(ls) /\ ls # <<>> /\ Last(ls) = line /\ IsLine(line)

FileOf(k) == file[<<k.dir, k.id>>]

\* A lookup finds the session in d; a fork is in one directory, if it is found at all.
Found(where, s, d) == s \in ForkIds \/ Find(where, s) = d

\* While a call is alone with its session, none of the places it has tried has it.
Seeks(k) ==
    k.at = "search" /\ k.alone =>
        /\ k.left \subseteq Places(k.where)
        /\ \A n \in Places(k.where) \ k.left :
            /\ \A m \in k.left : n < m
            /\ k.id \in ForkIds \/ ~IsHere(DirAt(k.where, n), k.id)

\* The file a rename or a tag has open is not empty, and while the call is alone it is
\* the one a lookup finds.
Opened(k) ==
    k.op = "append" =>
        /\ k.line \in Lines
        /\ k.at = "found" =>
            /\ k.ino \in Nat /\ k.ino <= now
            /\ FileOf(k).ino = k.ino => FileOf(k).lines # <<>>
            /\ k.alone => FileOf(k).ino = k.ino /\ Found(k.where, k.id, k.dir)

\* A fork has the lines it will write, and while it is alone its file is there.
Copies(k) ==
    /\ k.at \in {"create", "fill"} => EndsIn(k.text, Last(k.text))
    /\ k.at = "fill" => k.id \in ForkIds /\ (k.alone => FileOf(k) # NoFile)

CallOK(k) == Seeks(k) /\ Opened(k) /\ Copies(k)

\* The clock has not been before a file was made or written.
FileOK(f, t) ==
    f # NoFile => /\ f.ino \in Nat /\ f.ino <= t /\ f.mtime \in Nat /\ f.mtime <= t
                  /\ IsSeq(f.lines)

ForkOnce ==
    \A i \in ForkIds : \A d, e \in Dirs :
        file[<<d, i>>] # NoFile /\ file[<<e, i>>] # NoFile => d = e

\* The file that was written last is the newest of its session.
Newest(w) ==
    \A d \in Dirs :
        d # w.dir /\ file[<<d, w.id>>] # NoFile => file[<<d, w.id>>].mtime < FileOf(w).mtime

WrittenOK(w) ==
    /\ w.dir \in Dirs /\ w.id \in Ids
    /\ FileOf(w) # NoFile /\ EndsIn(FileOf(w).lines, w.line)
    /\ Found(w.where, w.id, w.dir) /\ Newest(w)

AllFilesOK == \A x \in Dirs \X Ids : FileOK(file[x], now)

-----------------------------------------------------------------------------
(* What a transcript shows of its last line *)

\* Of the values in order the first that is there, and of the first ones if the first is.
LEMMA FirstOfAll ==
    ASSUME NEW values, IsSeq(values), values # <<>>, values[1] # Absent
    PROVE  FirstPresent(values) = values[1]
<1> DEFINE there == {i \in DOMAIN values : values[i] # Absent}
<1>1. PICK S : values \in Seq(S)
  BY DEF IsSeq
<1>2. Len(values) \in Nat /\ DOMAIN values = 1..Len(values) /\ Len(values) > 0
  BY <1>1, LenProperties, EmptySeq
<1>3. 1 \in there /\ \A j \in there : 1 <= j
  BY <1>2
<1>4. \A i \in there : (\A j \in there : i <= j) => i = 1
  BY <1>2, <1>3
<1>5. (CHOOSE i \in there : \A j \in there : i <= j) = 1
  <2> HIDE DEF there
  <2> QED
    BY <1>3, <1>4
<1> QED
  BY <1>3, <1>5 DEF FirstPresent

\* The tail ends as the transcript does.
LEMMA TailEnds ==
    ASSUME NEW es, IsSeq(es), es # <<>>
    PROVE  IsSeq(Tail64(es)) /\ Tail64(es) # <<>> /\ Last(Tail64(es)) = Last(es)
<1> DEFINE n == Len(es)
           from == IF n < Window THEN 1 ELSE n - Window + 1
           t == Tail64(es)
<1>1. PICK S : es \in Seq(S)
  BY DEF IsSeq
<1>2. n \in Nat /\ DOMAIN es = 1..n /\ n > 0 /\ \A i \in 1..n : es[i] \in S
  BY <1>1, LenProperties, EmptySeq, ElementOfSeq
<1>3. from \in 1..n
  BY <1>2, WindowAssumption
<1>4. /\ t \in Seq(S) /\ Len(t) = n - from + 1 /\ \A i \in 1..n - from + 1 : t[i] = es[from + i - 1]
  <2>1. t = SubSeq(es, from, n)
    BY DEF Tail64
  <2>2. \A i \in from..n : es[i] \in S
    BY <1>2, <1>3
  <2> HIDE DEF from, t
  <2> QED
    BY <1>2, <1>3, <2>1, <2>2, SubSeqProperties
<1> HIDE DEF from, t
<1>5. Len(t) \in 1..n /\ from + Len(t) - 1 = n /\ Len(t) > 0 /\ t[Len(t)] = es[n]
  BY <1>2, <1>3, <1>4
<1>6. t # <<>>
  BY <1>4, <1>5, EmptySeq
<1> QED
  BY <1>4, <1>5, <1>6 DEF Last, IsSeq, t

\* A title line has one title in its text.
LEMMA TitleInText ==
    ASSUME NEW t, t # Absent
    PROVE  LastIn(Title(t), "customTitle") = t
<1> DEFINE e == Title(t)
           v == [i \in 1..3 |-> Get(Objects(e)[4 - i], "customTitle")]
<1>1. DOMAIN e = {"type", "customTitle"} /\ e["customTitle"] = t
  BY DEF Title
<1> HIDE DEF e
<1>2. Nested(e, "before") = <<>> /\ Nested(e, "after") = <<>>
  BY <1>1 DEF Nested
<1>3. Objects(e)[1] = <<>> /\ Objects(e)[2] = e /\ Objects(e)[3] = <<>>
  BY <1>2 DEF Objects
<1>4. DOMAIN <<>> = {}
  OBVIOUS
<1>5. Get(<<>>, "customTitle") = Absent /\ Get(e, "customTitle") = t
  BY <1>1, <1>4 DEF Get
<1>6. /\ \A i \in 1..3 : i = 1 \/ i = 2 \/ i = 3
      /\ 1 \in 1..3 /\ 2 \in 1..3 /\ 3 \in 1..3 /\ 4 - 1 = 3 /\ 4 - 2 = 2 /\ 4 - 3 = 1
  OBVIOUS
<1>7. DOMAIN v = 1..3 /\ v[1] = Absent /\ v[2] = t /\ v[3] = Absent
  BY <1>3, <1>5, <1>6
<1>8. LastIn(e, "customTitle") = FirstPresent(v)
  BY DEF LastIn
<1> HIDE DEF v
<1> DEFINE there == {i \in DOMAIN v : v[i] # Absent}
<1>9. \A i : i \in there <=> i = 2
  BY <1>6, <1>7
<1>10. FirstPresent(v) = IF there = {} THEN Absent
                         ELSE v[CHOOSE i \in there : \A j \in there : i <= j]
  BY DEF FirstPresent
<1>11. there # {} /\ (CHOOSE i \in there : \A j \in there : i <= j) = 2
  <2> HIDE DEF there
  <2>1. 2 \in there /\ \A j \in there : 2 <= j
    BY <1>9
  <2> QED
    BY <1>9, <2>1
<1> QED
  BY <1>7, <1>8, <1>10, <1>11 DEF e

\* A list shows a title it ends in.
LEMMA LastShows ==
    ASSUME NEW es, NEW line, EndsIn(es, line), NEW s, NEW m, NEW p,
           LiteInfo(s, es, m, p) # NoInfo
    PROVE  Shows(LiteInfo(s, es, m, p), line)
<1> DEFINE tail == Tail64(es)
           head == Head64(es)
           n == Len(tail)
           info == LiteInfo(s, es, m, p)
<1>1. IsSeq(tail) /\ tail # <<>> /\ tail[n] = line
  BY TailEnds DEF EndsIn, Last
<1>2. PICK S : tail \in Seq(S)
  BY <1>1 DEF IsSeq
<1> HIDE DEF tail, head
<1>3. n \in Nat /\ DOMAIN tail = 1..n /\ n > 0 /\ n \in 1..n
  BY <1>1, <1>2, LenProperties, EmptySeq
<1>4. info.custom_title = FirstNonEmpty(TitleOf(head, tail))
  BY DEF LiteInfo, tail, head
<1> HIDE DEF info
<1>5. CASE ~IsType(line, "tag") /\ NonEmpty(line.customTitle) # Absent
  <2> DEFINE t == line.customTitle
             rev == Reverse(tail)
             got == [i \in DOMAIN rev |-> LastIn(rev[i], "customTitle")]
             titles == TitleOf(head, tail)
             shown == [i \in DOMAIN titles |-> NonEmpty(titles[i])]
  <2>1. LastIn(line, "customTitle") = t /\ t # Absent /\ NonEmpty(t) = t
    <3>1. line = Title(t) /\ t # Absent /\ NonEmpty(t) = t
      BY <1>5 DEF EndsIn, IsLine, NonEmpty
    <3> HIDE DEF t
    <3> QED
      BY <3>1, TitleInText
  <2>2. rev = [i \in 1..n |-> tail[n - i + 1]]
    BY <1>2 DEF Reverse
  <2>3. DOMAIN rev = 1..n /\ rev[1] = line
    BY <1>1, <1>3, <2>2
  <2> HIDE DEF rev
  <2>4. IsSeq(got) /\ got # <<>> /\ got[1] = t
    <3> DEFINE S1 == {got[i] : i \in 1..n}
    <3>1. got \in Seq(S1) /\ Len(got) = n
      BY <1>3, <2>3
    <3>2. got # <<>>
      BY <1>3, <3>1
    <3>3. got[1] = t
      BY <1>3, <2>1, <2>3
    <3> HIDE DEF S1, got
    <3> QED
      BY <3>1, <3>2, <3>3 DEF IsSeq
  <2>5. LastOf(tail, "customTitle") = t
    <3>1. LastOf(tail, "customTitle") = FirstPresent(got)
      BY DEF LastOf, rev
    <3> HIDE DEF got
    <3> QED
      BY <2>1, <2>4, <3>1, FirstOfAll
  <2>6. titles[1] = t /\ DOMAIN titles = 1..4
    BY <2>5 DEF TitleOf
  <2> HIDE DEF titles
  <2>7. IsSeq(shown) /\ shown # <<>> /\ shown[1] = t
    <3> DEFINE S2 == {shown[i] : i \in 1..4}
    <3>1. shown \in Seq(S2) /\ Len(shown) = 4
      BY <2>6
    <3>2. shown # <<>>
      BY <3>1
    <3>3. shown[1] = t
      BY <2>1, <2>6
    <3> HIDE DEF S2, shown
    <3> QED
      BY <3>1, <3>2, <3>3 DEF IsSeq
  <2>8. FirstNonEmpty(titles) = t
    <3>1. FirstNonEmpty(titles) = FirstPresent(shown)
      BY DEF FirstNonEmpty
    <3> HIDE DEF shown
    <3> QED
      BY <2>1, <2>7, <3>1, FirstOfAll
  <2> QED
    BY <1>4, <1>5, <2>8 DEF Shows, info, titles
<1> QED
  BY <1>5 DEF Shows

-----------------------------------------------------------------------------
(* Lookups *)

LEMMA PlacesAreNat ==
    ASSUME NEW where PROVE Places(where) \subseteq Nat
<1>1. ReadDir \in Seq(Dirs) /\ Worktrees \in Seq(ToSet(Worktrees))
  BY FilesAssumption
<1> DEFINE S == {Main} \cup ToSet(Worktrees)
<1>2. <<Main>> \in Seq(S) /\ Worktrees \in Seq(S)
  <2>1. <<Main>> \in Seq({Main})
    OBVIOUS
  <2> QED
    BY <1>1, <2>1, SeqMonotonic
<1>3. <<Main>> \o Worktrees \in Seq(S)
  <2> HIDE DEF S
  <2> QED
    BY <1>2, ConcatProperties
<1> HIDE DEF S
<1>4. DOMAIN Order(where) \subseteq Nat
  BY <1>1, <1>3 DEF Order
<1> QED
  BY <1>4 DEF Places

\* The first place that has the session is the one a lookup answers from.
LEMMA FindIsFirst ==
    ASSUME NEW where, NEW s, NEW n \in Places(where), IsHere(DirAt(where, n), s),
           \A m \in Places(where) : m < n => ~IsHere(DirAt(where, m), s)
    PROVE  Find(where, s) = DirAt(where, n)
<1> DEFINE there == {k \in Places(where) : IsHere(DirAt(where, k), s)}
<1>1. there \subseteq Nat /\ n \in there /\ \A m \in there : n <= m
  BY PlacesAreNat
<1>2. Find(where, s) = IF there = {} THEN NoDir ELSE DirAt(where, Min(there))
  BY DEF Find
<1> HIDE DEF there
<1>3. Min(there) \in there /\ \A m \in there : Min(there) <= m
  BY <1>1 DEF Min
<1>4. Min(there) = n
  <2> DEFINE min == Min(there)
  <2>1. min \in Nat /\ n \in Nat /\ min <= n /\ n <= min
    BY <1>1, <1>3
  <2> HIDE DEF min
  <2>2. min = n
    BY <2>1
  <2> QED
    BY <2>2 DEF min
<1> QED
  BY <1>1, <1>2, <1>4

\* A lookup answers from a directory that is there and has the session.
LEMMA FindFinds ==
    ASSUME FilesInv, NEW where, NEW s, Find(where, s) # NoDir
    PROVE  Find(where, s) \in projects /\ IsHere(Find(where, s), s)
<1> DEFINE there == {k \in Places(where) : IsHere(DirAt(where, k), s)}
<1>1. there # {} /\ Find(where, s) = DirAt(where, Min(there))
  BY DEF Find
<1>2. there \in SUBSET Nat
  BY PlacesAreNat
<1>3. Min(there) \in there
  <2> HIDE DEF there
  <2> QED
    BY <1>1, <1>2, LeastExists DEF Min
<1>4. IsHere(Find(where, s), s)
  BY <1>1, <1>3
<1> QED
  BY <1>1, <1>4, FoundIsThere DEF DirAt

SameHere(s) == \A d \in Dirs : IsHere(d, s)' <=> IsHere(d, s)

LEMMA DirAtKept ==
    ASSUME projects' = projects, NEW where
    PROVE  Places(where)' = Places(where) /\ \A k : DirAt(where, k)' = DirAt(where, k)
<1>1. \A p : FindProjectDir(p)' = FindProjectDir(p)
  BY DEF FindProjectDir, SelectInSeq
<1> QED
  BY <1>1 DEF Places, DirAt, Order

\* A lookup finds what it found, if the directories are the same and the session is
\* where it was.
LEMMA FindKept ==
    ASSUME FilesInv, projects' = projects, NEW where, NEW s, SameHere(s)
    PROVE  Find(where, s)' = Find(where, s)
<1>1. Places(where)' = Places(where) /\ \A k : DirAt(where, k)' = DirAt(where, k)
  BY DirAtKept
<1>2. \A k : IsHere(DirAt(where, k), s)' <=> IsHere(DirAt(where, k), s)
  <2> TAKE k
  <2>1. DirAt(where, k) = NoDir \/ DirAt(where, k) \in Dirs
    BY FoundIsThere DEF DirAt, FilesInv
  <2>2. CASE DirAt(where, k) = NoDir
    BY <1>1, <2>2 DEF IsHere
  <2>3. CASE DirAt(where, k) \in Dirs
    BY <1>1, <2>3 DEF SameHere, IsHere
  <2> QED
    BY <2>1, <2>2, <2>3
<1> QED
  BY <1>1, <1>2 DEF Find

-----------------------------------------------------------------------------
(* Files *)

\* The file f is written again, and is g: the same file, and no emptier.
Kept(f, g) == f # NoFile /\ g # NoFile /\ g.ino = f.ino /\ (f.lines # <<>> => g.lines # <<>>)

IsNoFile(f) == f = NoFile
LEMMA HasFields ==
    ASSUME NEW f, NEW n \in Nat \ {0}, NEW ls, NEW t, f = [ino |-> n, lines |-> ls, mtime |-> t]
    PROVE  ~IsNoFile(f) /\ f.ino = n /\ f.lines = ls /\ f.mtime = t
<1>1. f.ino = n /\ f.lines = ls /\ f.mtime = t
  OBVIOUS
<1>2. NoFile.ino = 0
  BY DEF NoFile
<1> QED
  BY <1>1, <1>2 DEF IsNoFile

LEMMA RewrittenFields ==
    ASSUME NEW f, f # NoFile, GoodFile(f), NEW ls
    PROVE  LET g == Rewritten(f, ls)
           IN  g # NoFile /\ g.ino = f.ino /\ g.lines = ls /\ g.mtime = now + 1
<1>1. PICK n \in Nat \ {0} : \E l, m : f = [ino |-> n, lines |-> l, mtime |-> m]
  BY DEF GoodFile
<1>2. PICK l, m : f = [ino |-> n, lines |-> l, mtime |-> m]
  BY <1>1
<1> DEFINE t == now + 1
           g == Rewritten(f, ls)
           h == [f EXCEPT !.lines = ls]
<1>3. h = [ino |-> n, lines |-> ls, mtime |-> m]
  BY <1>2
<1>4. [h EXCEPT !.mtime = t] = [ino |-> n, lines |-> ls, mtime |-> t]
  <2> HIDE DEF h, t
  <2> QED
    BY <1>3
<1>5. g = [ino |-> n, lines |-> ls, mtime |-> t]
  BY <1>4 DEF Rewritten
<1>6. f.ino = n
  BY <1>2
<1> HIDE DEF t, g
<1>7. ~IsNoFile(g) /\ g.ino = n /\ g.lines = ls /\ g.mtime = t
  BY <1>5, HasFields
<1> QED
  BY <1>6, <1>7 DEF IsNoFile, t, g

LEMMA NewFileFields ==
    ASSUME FilesInv, NEW ls
    PROVE  LET g == NewFile(ls)
           IN  g # NoFile /\ g.ino = now + 1 /\ g.lines = ls /\ g.mtime = now + 1
<1> DEFINE t == now + 1
           g == NewFile(ls)
<1>1. t \in Nat \ {0}
  BY DEF FilesInv
<1>2. g = [ino |-> t, lines |-> ls, mtime |-> t]
  BY DEF NewFile
<1> HIDE DEF t, g
<1>3. ~IsNoFile(g) /\ g.ino = t /\ g.lines = ls /\ g.mtime = t
  BY <1>1, <1>2, HasFields
<1> QED
  BY <1>3 DEF IsNoFile, t, g

LEMMA SeqsJoin ==
    ASSUME NEW a, NEW b, IsSeq(a), IsSeq(b) PROVE IsSeq(a \o b)
<1>1. PICK S, T : a \in Seq(S) /\ b \in Seq(T)
  BY DEF IsSeq
<1> DEFINE U == S \cup T
<1>2. S \subseteq U /\ T \subseteq U
  OBVIOUS
<1> HIDE DEF U
<1>3. a \in Seq(U) /\ b \in Seq(U)
  BY <1>1, <1>2, SeqMonotonic
<1>4. a \o b \in Seq(U)
  BY <1>3, ConcatProperties
<1> QED
  BY <1>4 DEF IsSeq

\* Lines with one more, which is the last.
LEMMA SeqGrows ==
    ASSUME NEW a, NEW line, IsSeq(a)
    PROVE  IsSeq(Append(a, line)) /\ Append(a, line) # <<>> /\ Last(Append(a, line)) = line
<1>1. PICK S : a \in Seq(S)
  BY DEF IsSeq
<1> DEFINE U == S \cup {line}
           b == Append(a, line)
<1>2. a \in Seq(U) /\ line \in U
  BY <1>1, SeqMonotonic
<1> HIDE DEF U
<1>3. b \in Seq(U) /\ Len(b) = Len(a) + 1 /\ b[Len(a) + 1] = line
  BY <1>2, AppendProperties
<1>4. Len(a) \in Nat
  BY <1>1, LenProperties
<1> HIDE DEF b
<1>5. b # <<>>
  BY <1>3, <1>4
<1>6. IsSeq(b) /\ Last(b) = line
  BY <1>3 DEF IsSeq, Last
<1> QED
  BY <1>5, <1>6 DEF b

\* A write to one file: the others are those they were.
LEMMA FilesKept ==
    ASSUME FilesInv, AllFilesOK, NEW x \in Dirs \X Ids, NEW f, file' = [file EXCEPT ![x] = f],
           now' \in Nat, now <= now', FileOK(f, now')
    PROVE  AllFilesOK'
<1>1. \A y \in Dirs \X Ids : file'[y] = IF y = x THEN f ELSE file[y]
  BY DEF FilesInv
<1>2. ASSUME NEW g, FileOK(g, now) PROVE FileOK(g, now')
  <2> SUFFICES ASSUME g # NoFile PROVE FileOK(g, now')
    BY DEF FileOK
  <2>1. g.ino \in Nat /\ g.ino <= now /\ g.mtime \in Nat /\ g.mtime <= now /\ IsSeq(g.lines)
    BY <1>2 DEF FileOK
  <2>2. now \in Nat
    BY DEF FilesInv
  <2>3. g.ino <= now' /\ g.mtime <= now'
    BY <2>1, <2>2
  <2> QED
    BY <2>1, <2>3 DEF FileOK
<1>3. \A y \in Dirs \X Ids : FileOK(file'[y], now')
  <2> TAKE y \in Dirs \X Ids
  <2>1. CASE y = x
    BY <1>1, <2>1
  <2>2. CASE y # x
    <3>1. FileOK(file[y], now) /\ file'[y] = file[y]
      BY <1>1, <2>2 DEF AllFilesOK
    <3> QED
      BY <1>2, <3>1
  <2> QED
    BY <2>1, <2>2
<1> QED
  BY <1>3 DEF AllFilesOK, FileOK, IsSeq

-----------------------------------------------------------------------------
(* What a step leaves alone *)

\* The file in the place of f is now g, for somebody who is alone with it or not.
Unharmed(f, g, alone) ==
    \/ g = f
    \/ Kept(f, g)
    \/ ~alone /\ (g = NoFile \/ g.ino > now)

\* The step does not harm a call of another process, which may have to look elsewhere
\* only if it is not alone any more.
Undisturbed(k) ==
    /\ k.at # "search" => Unharmed(FileOf(k), file'[<<k.dir, k.id>>], k.alone)
    /\ k.alone => projects' = projects /\ (k.id \in ForkIds \/ SameHere(k.id))

\* What a call knows of where its session is stays true.
LEMMA SeeksKept ==
    ASSUME FilesInv, NEW k, Seeks(k), Undisturbed(k) PROVE Seeks(k)'
<1> SUFFICES ASSUME k.at = "search", k.alone
             PROVE  /\ k.left \subseteq Places(k.where)'
                    /\ \A n \in Places(k.where)' \ k.left :
                        /\ \A m \in k.left : n < m
                        /\ k.id \in ForkIds \/ ~IsHere(DirAt(k.where, n), k.id)'
  BY DEF Seeks
<1> DEFINE w == k.where
<1>1. projects' = projects /\ (k.id \in ForkIds \/ SameHere(k.id))
  BY DEF Undisturbed
<1>2. Places(w)' = Places(w) /\ \A n : DirAt(w, n)' = DirAt(w, n)
  BY <1>1, DirAtKept
<1>3. k.id \in ForkIds \/ \A n : IsHere(DirAt(w, n), k.id)' <=> IsHere(DirAt(w, n), k.id)
  <2> SUFFICES ASSUME SameHere(k.id), NEW n
               PROVE  IsHere(DirAt(w, n), k.id)' <=> IsHere(DirAt(w, n), k.id)
    BY <1>1
  <2>1. DirAt(w, n) = NoDir \/ DirAt(w, n) \in Dirs
    BY FoundIsThere DEF DirAt, FilesInv
  <2>2. CASE DirAt(w, n) = NoDir
    BY <1>2, <2>2 DEF IsHere
  <2>3. CASE DirAt(w, n) \in Dirs
    BY <1>2, <2>3 DEF SameHere, IsHere
  <2> QED
    BY <2>1, <2>2, <2>3
<1> QED
  BY <1>2, <1>3 DEF Seeks

LEMMA CallKept ==
    ASSUME FilesInv, now' \in Nat, now <= now', NEW k, GoodCall(k), CallOK(k), Undisturbed(k)
    PROVE  CallOK(k)'
<1>1. Seeks(k)'
  BY SeeksKept DEF CallOK
<1>2. Opened(k)'
  <2> DEFINE f == FileOf(k)
             g == file'[<<k.dir, k.id>>]
  <2> SUFFICES ASSUME k.op = "append", k.at = "found"
               PROVE  /\ k.line \in Lines /\ k.ino \in Nat /\ k.ino <= now'
                      /\ g.ino = k.ino => g.lines # <<>>
                      /\ k.alone => g.ino = k.ino /\ Found(k.where, k.id, k.dir)'
    BY DEF CallOK, Opened, FileOf
  <2>1. /\ k.line \in Lines /\ k.ino \in Nat /\ k.ino <= now
        /\ f.ino = k.ino => f.lines # <<>>
        /\ k.alone => f.ino = k.ino /\ Found(k.where, k.id, k.dir)
    BY DEF CallOK, Opened
  <2>2. k.ino # 0 /\ now \in Nat /\ NoFile.ino = 0
    BY DEF GoodCall, FilesInv, NoFile
  <2>3. Unharmed(f, g, k.alone)
    BY DEF Undisturbed
  <2> HIDE DEF f, g
  <2>4. k.ino <= now'
    BY <2>1, <2>2
  <2>5. g.ino = k.ino => g.lines # <<>>
    BY <2>1, <2>2, <2>3 DEF Unharmed, Kept
  <2>6. k.alone => g.ino = k.ino
    BY <2>1, <2>3 DEF Unharmed, Kept
  <2>7. k.alone => Found(k.where, k.id, k.dir)'
    <3>1. CASE k.id \in ForkIds
      BY <3>1 DEF Found
    <3>2. CASE k.alone /\ k.id \notin ForkIds
      <4>1. projects' = projects /\ SameHere(k.id)
        BY <3>2 DEF Undisturbed
      <4>2. Find(k.where, k.id)' = Find(k.where, k.id)
        BY <4>1, FindKept
      <4> QED
        BY <2>1, <3>2, <4>2 DEF Found
    <3> QED
      BY <3>1, <3>2
  <2> QED
    BY <2>1, <2>4, <2>5, <2>6, <2>7
<1>3. Copies(k)'
  BY DEF CallOK, Copies, Undisturbed, Unharmed, Kept, FileOf, EndsIn, IsSeq, IsLine
<1> QED
  BY <1>1, <1>2, <1>3 DEF CallOK

\* A call somebody met knows less.
LEMMA MetOK ==
    ASSUME NEW k, k # Idle, GoodCall(k), CallOK(k), NEW ids
    PROVE  /\ Met(k, ids) # Idle /\ GoodCall(Met(k, ids)) /\ CallOK(Met(k, ids))
           /\ Met(k, ids).id = k.id /\ (k.id \in ids => ~Met(k, ids).alone)
<1>1. CASE k.id \notin ids
  BY <1>1 DEF Met
<1>2. CASE k.id \in ids
  <2> DEFINE m == [k EXCEPT !.alone = FALSE]
  <2>1. Met(k, ids) = m
    BY <1>2 DEF Met
  <2>2. PICK S : k \in Held(S)
    BY DEF GoodCall
  <2>3. /\ m.op = k.op /\ m.at = k.at /\ m.where = k.where /\ m.id = k.id /\ m.line = k.line
        /\ m.left = k.left /\ m.dir = k.dir /\ m.ino = k.ino /\ m.text = k.text
        /\ m.alone = FALSE
    BY <2>2 DEF Held
  <2>4. m # Idle
    <3>1. "alone" \in DOMAIN m /\ "alone" \notin DOMAIN Idle
      BY <2>2 DEF Held, Idle
    <3> QED
      BY <3>1
  <2> HIDE DEF m
  <2>5. m # Idle => GoodCall(m)
    BY <2>1, MetGood
  <2>6. CallOK(m)
    BY <2>3 DEF CallOK, Seeks, Opened, Copies, FileOf
  <2> QED
    BY <2>1, <2>3, <2>4, <2>5, <2>6
<1> QED
  BY <1>1, <1>2

\* The last write is still what is shown, if its session is left alone.
LEMMA WrittenKept ==
    ASSUME FilesInv, NEW w, WrittenOK(w), projects' = projects,
           \A d \in Dirs : file'[<<d, w.id>>] = file[<<d, w.id>>]
    PROVE  WrittenOK(w)'
<1>1. w.dir \in Dirs
  BY DEF WrittenOK
<1>2. SameHere(w.id)
  BY DEF SameHere, IsHere
<1>3. Find(w.where, w.id)' = Find(w.where, w.id)
  BY <1>2, FindKept
<1>4. FileOf(w)' = FileOf(w)
  BY <1>1 DEF FileOf
<1>5. Newest(w)'
  BY <1>4 DEF WrittenOK, Newest
<1> QED
  BY <1>3, <1>4, <1>5 DEF WrittenOK, Found, EndsIn, IsSeq, IsLine

\* A write to one file, and whom it may harm.
LEMMA WriteHarms ==
    ASSUME FilesInv, NEW d \in Dirs, NEW s \in Ids, NEW f,
           file' = [file EXCEPT ![<<d, s>>] = f],
           NEW k, GoodCall(k), k.alone => projects' = projects,
           k.id = s =>
             \/ f = file[<<d, s>>]
             \/ Kept(file[<<d, s>>], f) /\ (s \in ForkIds \/ file[<<d, s>>].lines # <<>>)
             \/ ~k.alone /\ (Kept(file[<<d, s>>], f) \/ f = NoFile \/ f.ino > now)
    PROVE  Undisturbed(k)
<1> DEFINE x == <<d, s>>
<1>1. \A y \in Dirs \X Ids : file'[y] = IF y = x THEN f ELSE file[y]
  BY DEF FilesInv
<1>2. k.id \in Ids
  BY DEF GoodCall, Held
<1>3. ASSUME k.at # "search" PROVE Unharmed(FileOf(k), file'[<<k.dir, k.id>>], k.alone)
  <2>1. <<k.dir, k.id>> \in Dirs \X Ids
    BY <1>2, <1>3 DEF GoodCall
  <2>2. CASE <<k.dir, k.id>> = x
    <3>1. k.id = s /\ file'[<<k.dir, k.id>>] = f /\ FileOf(k) = file[<<d, s>>]
      BY <1>1, <2>1, <2>2 DEF FileOf
    <3> QED
      BY <3>1 DEF Unharmed
  <2>3. CASE <<k.dir, k.id>> # x
    BY <1>1, <2>1, <2>3 DEF Unharmed, FileOf
  <2> QED
    BY <2>2, <2>3
<1>4. ASSUME k.alone PROVE k.id \in ForkIds \/ SameHere(k.id)
  <2>1. CASE k.id # s
    <3>1. \A e \in Dirs : file'[<<e, k.id>>] = file[<<e, k.id>>]
      BY <1>1, <1>2, <2>1
    <3> QED
      BY <3>1 DEF SameHere, IsHere
  <2>2. CASE k.id = s /\ s \notin ForkIds
    <3>1. IsHere(d, s)' <=> IsHere(d, s)
      BY <1>1, <1>4, <2>2 DEF IsHere, Kept
    <3>2. \A e \in Dirs : e # d => file'[<<e, s>>] = file[<<e, s>>]
      BY <1>1
    <3> QED
      BY <2>2, <3>1, <3>2 DEF SameHere, IsHere
  <2> QED
    BY <2>1, <2>2
<1> QED
  BY <1>3, <1>4 DEF Undisturbed

-----------------------------------------------------------------------------
(* What a step does to what is shown *)

CallsOK == \A c \in Callers : call[c] # Idle => CallOK(call[c])
LastOK == written # Idle => WrittenOK(written)
ShownInv == AllFilesOK /\ ForkOnce /\ CallsOK /\ LastOK

\* A call the step does not take, met by it or not.
LEMMA OtherCallOK ==
    ASSUME IInv, CallsOK, now' \in Nat, now <= now', NEW b \in Callers, call[b] # Idle,
           NEW ids, call'[b] = Met(call[b], ids),
           \A k : k # Idle /\ GoodCall(k) /\ CallOK(k) /\ k.id = call[b].id
                    /\ (k.id \in ids => ~k.alone) => Undisturbed(k)
    PROVE  CallOK(call[b])'
<1>1. PICK k : k = Met(call[b], ids)
  OBVIOUS
<1>2. PICK o : o = call[b]
  OBVIOUS
<1>3. GoodCall(o) /\ CallOK(o) /\ o # Idle
  BY <1>2 DEF IInv, CallsInv, CallsOK
<1>4. k # Idle /\ GoodCall(k) /\ CallOK(k) /\ k.id = o.id /\ (o.id \in ids => ~k.alone)
  BY <1>1, <1>2, <1>3, MetOK
<1>5. Undisturbed(k)
  BY <1>2, <1>4
<1>6. CallOK(k)'
  BY <1>4, <1>5, CallKept DEF IInv
<1>7. k = call'[b]
  BY <1>1
<1> QED
  BY <1>6, <1>7

\* Nobody is met by a step that takes one call and no file.
LEMMA CallAloneOK ==
    ASSUME IInv, CallsInv', ShownInv, NEW c \in Callers, NEW k, call' = [call EXCEPT ![c] = k],
           UNCHANGED <<projects, file, now, written>>, k # Idle => CallOK(k)
    PROVE  ShownInv'
<1>1. AllFilesOK' /\ ForkOnce'
  BY DEF ShownInv, AllFilesOK, FileOK, IsSeq, ForkOnce
<1>2. ASSUME NEW b \in Callers, call'[b] # Idle PROVE CallOK(call[b])'
  <2>1. \A j : Undisturbed(j)
    BY DEF Undisturbed, Unharmed, FileOf, SameHere, IsHere
  <2>2. now' \in Nat /\ now <= now'
    BY DEF IInv, FilesInv
  <2>3. CASE b # c
    <3>1. call'[b] = call[b]
      BY <2>3 DEF IInv, CallsInv
    <3>2. call'[b] = Met(call[b], {})
      BY <3>1 DEF Met
    <3> QED
      BY <1>2, <2>1, <2>2, <3>1, <3>2, OtherCallOK DEF ShownInv
  <2>4. CASE b = c
    <3>1. call'[b] = k
      BY <2>4 DEF IInv, CallsInv
    <3>2. GoodCall(k)
      BY <1>2, <3>1, <2>4 DEF CallsInv, GoodCall, Held
    <3>3. CallOK(k)'
      BY <1>2, <2>1, <2>2, <3>1, <3>2, CallKept DEF IInv
    <3> QED
      BY <3>1, <3>3
  <2> QED
    BY <2>3, <2>4
<1>3. ASSUME written' # Idle PROVE WrittenOK(written)'
  <2>1. PICK w : w = written
    OBVIOUS
  <2>2. WrittenOK(w)'
    BY <1>3, <2>1, WrittenKept DEF ShownInv, LastOK, IInv
  <2> QED
    BY <2>1, <2>2
<1> QED
  BY <1>1, <1>2, <1>3 DEF ShownInv, CallsOK, LastOK

\* A step that writes one file.
LEMMA CliShows ==
    ASSUME IInv, ShownInv, NEW d \in Dirs, NEW s \in Sessions, NEW lines \in Batches,
           CliWrites(d, s, lines)
    PROVE  ShownInv'
<1> DEFINE x == <<d, s>>
           f == IF file[x] = NoFile
                  THEN NewFile(lines) ELSE Rewritten(file[x], file[x].lines \o lines)
           ids == IF d \in projects THEN {s} ELSE Ids
<1>1. s \in Ids /\ s \notin ForkIds /\ x \in Dirs \X Ids
  BY FilesAssumption DEF Ids
<1>2. /\ file' = [file EXCEPT ![x] = f] /\ now' = now + 1 /\ projects' = projects \cup {d}
      /\ call' = [c \in Callers |-> Met(call[c], ids)]
      /\ written' = IF written # Idle /\ written.id \in ids THEN Idle ELSE written
  BY <1>1 DEF CliWrites, Tick, Forget
<1>3. now \in Nat /\ now' \in Nat /\ now <= now' /\ GoodFile(file[x]) /\ FileOK(file[x], now)
  BY <1>1, <1>2 DEF IInv, FilesInv, ShownInv, AllFilesOK
<1>4. IsSeq(lines)
  BY FilesAssumption DEF IsSeq
<1>5. /\ f # NoFile /\ FileOK(f, now')
      /\ Kept(file[x], f) \/ f.ino > now
  <2>1. CASE file[x] = NoFile
    <3>1. f = NewFile(lines)
      BY <2>1
    <3>2. f # NoFile /\ f.ino = now + 1 /\ f.lines = lines /\ f.mtime = now + 1
      BY <3>1, NewFileFields DEF IInv
    <3> HIDE DEF f
    <3> QED
      BY <1>2, <1>3, <1>4, <3>2 DEF FileOK
  <2>2. CASE file[x] # NoFile
    <3> DEFINE ls == file[x].lines \o lines
    <3>1. f = Rewritten(file[x], ls)
      BY <2>2
    <3>2. IsSeq(ls) /\ file[x].ino \in Nat /\ file[x].ino <= now
      BY <1>3, <1>4, <2>2, SeqsJoin DEF FileOK
    <3>3. file[x].lines # <<>> => ls # <<>>
      <4>1. PICK S, T : file[x].lines \in Seq(S) /\ lines \in Seq(T)
        BY <1>3, <1>4, <2>2 DEF FileOK, IsSeq
      <4> QED
        BY <4>1
    <3> HIDE DEF ls
    <3>4. f # NoFile /\ f.ino = file[x].ino /\ f.lines = ls /\ f.mtime = now + 1
      BY <1>3, <2>2, <3>1, RewrittenFields
    <3> HIDE DEF f
    <3> QED
      BY <1>2, <1>3, <2>2, <3>2, <3>3, <3>4 DEF FileOK, Kept
  <2> QED
    BY <2>1, <2>2
<1> HIDE DEF f, x
<1>6. AllFilesOK'
  BY <1>1, <1>2, <1>3, <1>5, FilesKept DEF IInv, ShownInv
<1>7. ForkOnce'
  <2>1. \A y \in Dirs \X Ids : y # x => file'[y] = file[y]
    BY <1>2 DEF IInv, FilesInv
  <2>2. \A i \in ForkIds : \A e \in Dirs : file'[<<e, i>>] = file[<<e, i>>]
    BY <1>1, <2>1 DEF Ids, x
  <2> QED
    BY <2>2 DEF ForkOnce, ShownInv
<1>8. CallsOK'
  <2> SUFFICES ASSUME NEW b \in Callers, call'[b] # Idle PROVE CallOK(call[b])'
    BY DEF CallsOK
  <2>1. call'[b] = Met(call[b], ids) /\ call[b] # Idle
    BY <1>2 DEF Met
  <2>2. ASSUME NEW k, k # Idle, GoodCall(k), CallOK(k), k.id = call[b].id, k.id \in ids => ~k.alone
        PROVE  Undisturbed(k)
    <3>1. k.id \in Ids
      BY <2>2 DEF GoodCall, Held
    <3>2. k.alone => projects' = projects
      BY <1>2, <2>2, <3>1
    <3>3. k.id = s => ~k.alone
      BY <1>1, <2>2
    <3> QED
      BY <1>1, <1>2, <1>5, <2>2, <3>2, <3>3, WriteHarms DEF IInv, x
  <2> QED
    BY <1>3, <2>1, <2>2, OtherCallOK DEF ShownInv
<1>9. LastOK'
  <2> SUFFICES ASSUME written' # Idle PROVE WrittenOK(written)'
    BY DEF LastOK
  <2>1. PICK w : w = written'
    OBVIOUS
  <2>2. w = written /\ w # Idle /\ w.id \notin ids
    BY <1>2, <2>1
  <2>3. WrittenOK(w) /\ w.id \in Ids
    BY <2>2 DEF ShownInv, LastOK, WrittenOK
  <2>4. projects' = projects /\ w.id # s
    BY <1>2, <2>2, <2>3
  <2>5. \A e \in Dirs : file'[<<e, w.id>>] = file[<<e, w.id>>]
    BY <1>2, <2>3, <2>4 DEF IInv, FilesInv, x
  <2>6. WrittenOK(w)'
    BY <2>3, <2>4, <2>5, WrittenKept DEF IInv
  <2> QED
    BY <2>1, <2>6
<1> QED
  BY <1>6, <1>7, <1>8, <1>9 DEF ShownInv

LEMMA NothingShows ==
    ASSUME IInv, ShownInv, UNCHANGED <<projects, file, now, call, written>> PROVE ShownInv'
<1>1. AllFilesOK' /\ ForkOnce'
  BY DEF ShownInv, AllFilesOK, FileOK, IsSeq, ForkOnce
<1>2. ASSUME NEW b \in Callers, call'[b] # Idle PROVE CallOK(call[b])'
  <2>1. \A j : Undisturbed(j)
    BY DEF Undisturbed, Unharmed, FileOf, SameHere, IsHere
  <2>2. now' \in Nat /\ now <= now'
    BY DEF IInv, FilesInv
  <2>3. call'[b] = Met(call[b], {})
    BY DEF Met
  <2> QED
    BY <1>2, <2>1, <2>2, <2>3, OtherCallOK DEF ShownInv
<1>3. ASSUME written' # Idle PROVE WrittenOK(written)'
  <2>1. PICK w : w = written
    OBVIOUS
  <2>2. WrittenOK(w)'
    BY <1>3, <2>1, WrittenKept DEF ShownInv, LastOK, IInv
  <2> QED
    BY <2>1, <2>2
<1> QED
  BY <1>1, <1>2, <1>3 DEF ShownInv, CallsOK, LastOK

\* A call begins with all its places before it.
LEMMA BeginShows ==
    ASSUME IInv, CallsInv', ShownInv, NEW c \in Callers, NEW op, NEW where, NEW s, NEW line,
           op = "append" => line \in Lines, Begin(c, op, where, s, line)
    PROVE  ShownInv'
<1> DEFINE k == [op |-> op, at |-> "search", where |-> where, id |-> s, line |-> line,
                 left |-> Places(where), dir |-> NoDir, ino |-> 0, text |-> <<>>,
                 alone |-> TRUE]
<1>1. call' = [call EXCEPT ![c] = k] /\ UNCHANGED <<projects, file, now, written>>
  BY DEF Begin
<1>2. k.at = "search" /\ k.left = Places(where) /\ k.where = where /\ k.op = op /\ k.line = line
  OBVIOUS
<1> HIDE DEF k
<1>3. CallOK(k)
  BY <1>2 DEF CallOK, Seeks, Opened, Copies
<1> QED
  BY <1>1, <1>3, CallAloneOK

\* The search goes through the places in order, so what it finds is what a lookup finds.
LEMMA SearchShows ==
    ASSUME IInv, CallsInv', ShownInv, NEW c \in Callers, Search(c)
    PROVE  ShownInv'
<1> DEFINE k == call[c]
           n == Min(k.left)
           d == DirAt(k.where, n)
           s == k.id
           x == <<d, s>>
           found == [k EXCEPT !.at = "found", !.dir = d, !.ino = file[x].ino]
           next == [k EXCEPT !.left = k.left \ {n}]
<1>1. k # Idle /\ k.at = "search" /\ GoodCall(k) /\ CallOK(k)
  BY DEF Search, At, IInv, CallsInv, ShownInv, CallsOK
<1>2. PICK S : k \in Held(S)
  BY <1>1 DEF GoodCall
<1>3. UNCHANGED <<projects, file, now, written>> /\ s \in Ids
  BY <1>2 DEF Search, Disk, Rest, Held
<1>4. ASSUME k.alone, k.left # {}
      PROVE  /\ n \in k.left /\ k.left \subseteq Places(k.where)
             /\ \A m \in k.left : n <= m
             /\ \A m \in Places(k.where) \ k.left :
                    /\ \A j \in k.left : m < j
                    /\ s \in ForkIds \/ ~IsHere(DirAt(k.where, m), s)
  <2>1. k.left \in SUBSET Nat
    BY <1>1, <1>4, PlacesAreNat DEF CallOK, Seeks
  <2>2. n \in k.left /\ \A m \in k.left : n <= m
    BY <1>4, <2>1, LeastExists DEF Min
  <2> QED
    BY <1>1, <1>4, <2>2 DEF CallOK, Seeks
<1>5. CASE k.left = {}
  <2>1. call' = [call EXCEPT ![c] = Idle]
    BY <1>5 DEF Search, Ends
  <2> QED
    BY <1>3, <2>1, CallAloneOK
<1>6. CASE k.left # {} /\ IsHere(d, s)
  <2>1. call' = [call EXCEPT ![c] = found]
    BY <1>6 DEF Search
  <2>2. d \in Dirs
    BY <1>3, <1>6, HereHasIno DEF DirAt, IInv
  <2>3. /\ file[x].ino \in Nat /\ file[x].ino <= now /\ file[x].lines # <<>>
    BY <1>3, <1>6, <2>2 DEF ShownInv, AllFilesOK, FileOK, IsHere
  <2>4. /\ found.op = k.op /\ found.at = "found" /\ found.where = k.where /\ found.id = s
        /\ found.line = k.line /\ found.dir = d /\ found.ino = file[x].ino
        /\ found.alone = k.alone
    BY <1>2 DEF Held
  <2>5. k.alone => Found(k.where, s, d)
    <3> SUFFICES ASSUME k.alone, s \notin ForkIds PROVE Find(k.where, s) = d
      BY DEF Found
    <3>1. \A m \in Places(k.where) : m < n => ~IsHere(DirAt(k.where, m), s)
      <4> SUFFICES ASSUME NEW m \in Places(k.where), m < n, m \in k.left PROVE FALSE
        BY <1>4, <1>6
      <4>1. n <= m /\ n \in Nat /\ m \in Nat
        BY <1>4, <1>6, PlacesAreNat
      <4> HIDE DEF n
      <4> QED
        BY <4>1
    <3>2. n \in Places(k.where)
      BY <1>4, <1>6
    <3> HIDE DEF n
    <3> QED
      BY <1>6, <3>1, <3>2, FindIsFirst
  <2> HIDE DEF found
  <2>6. CallOK(found)
    <3>1. Opened(found)
      <4>1. FileOf(found) = file[x]
        BY <2>4 DEF FileOf
      <4>2. k.op = "append" => k.line \in Lines
        BY <1>1 DEF CallOK, Opened
      <4> QED
        BY <2>3, <2>4, <2>5, <4>1, <4>2 DEF Opened
    <3> QED
      BY <2>4, <3>1 DEF CallOK, Seeks, Copies
  <2> QED
    BY <1>3, <2>1, <2>6, CallAloneOK
<1>7. CASE k.left # {} /\ ~IsHere(d, s)
  <2>1. call' = [call EXCEPT ![c] = next]
    BY <1>7 DEF Search
  <2>2. /\ next.op = k.op /\ next.at = "search" /\ next.where = k.where /\ next.id = s
        /\ next.line = k.line /\ next.left = k.left \ {n} /\ next.alone = k.alone
    BY <1>1, <1>2 DEF Held
  <2> HIDE DEF next
  <2>3. Seeks(next)
    <3> SUFFICES ASSUME k.alone
                 PROVE  /\ k.left \ {n} \subseteq Places(k.where)
                        /\ \A m \in Places(k.where) \ (k.left \ {n}) :
                            /\ \A j \in k.left \ {n} : m < j
                            /\ s \in ForkIds \/ ~IsHere(DirAt(k.where, m), s)
      BY <2>2 DEF Seeks
    <3>1. ASSUME NEW j \in k.left \ {n} PROVE n < j
      <4>1. n <= j /\ n # j /\ n \in Nat /\ j \in Nat
        BY <1>4, <1>7, PlacesAreNat
      <4> HIDE DEF n
      <4> QED
        BY <4>1
    <3>2. /\ k.left \subseteq Places(k.where)
          /\ \A m \in Places(k.where) \ k.left :
                 /\ \A j \in k.left : m < j
                 /\ s \in ForkIds \/ ~IsHere(DirAt(k.where, m), s)
      BY <1>4, <1>7
    <3>3. ~IsHere(DirAt(k.where, n), s)
      BY <1>7
    <3> HIDE DEF n
    <3> QED
      BY <3>1, <3>2, <3>3
  <2>4. CallOK(next)
    BY <1>1, <2>2, <2>3 DEF CallOK, Opened, Copies
  <2> QED
    BY <1>3, <2>1, <2>4, CallAloneOK
<1> QED
  BY <1>5, <1>6, <1>7

LEMMA ThoseAreSeq ==
    ASSUME NEW es, IsSeq(es), NEW S \in SUBSET DOMAIN es PROVE IsSeq(Those(es, S))
<1>1. PICK T : es \in Seq(T)
  BY DEF IsSeq
<1>2. Len(es) \in Nat /\ DOMAIN es = 1..Len(es)
  BY <1>1
<1>3. Cardinality(S) \in Nat
  <2>1. IsFiniteSet(1..Len(es))
    BY <1>2, FS_Interval
  <2>2. S \subseteq 1..Len(es)
    BY <1>2
  <2>3. IsFiniteSet(S)
    BY <2>1, <2>2, FS_Subset
  <2> QED
    BY <2>3, FS_CardinalityType
<1> DEFINE n == Cardinality(S)
           path == InOrder(S, [i \in S |-> i])
           l == Those(es, S)
           U == {l[i] : i \in 1..n}
<1>4. DOMAIN path = 1..n
  BY DEF InOrder
<1>5. l = [i \in 1..n |-> es[path[i]]]
  BY <1>4 DEF Those, EntriesAt
<1> HIDE DEF n, path
<1>6. l \in Seq(U)
  BY <1>3, <1>5 DEF n
<1> HIDE DEF l, U
<1> QED
  BY <1>6 DEF IsSeq, l

\* A fork ends in its title.
LEMMA ReadShows ==
    ASSUME IInv, CallsInv', ShownInv, NEW c \in Callers, ReadSource(c)
    PROVE  ShownInv'
<1> DEFINE k == call[c]
           f == FileOf(k)
           text == ForkLines(f.lines)
           next == [k EXCEPT !.at = "create", !.text = text]
<1>1. k # Idle /\ k.op = "fork" /\ k.at = "found" /\ GoodCall(k) /\ CallOK(k)
  BY DEF ReadSource, At, IInv, CallsInv, ShownInv, CallsOK
<1>2. PICK S : k \in Held(S)
  BY <1>1 DEF GoodCall
<1>3. UNCHANGED <<projects, file, now, written>> /\ <<k.dir, k.id>> \in Dirs \X Ids
  BY <1>1, <1>2 DEF ReadSource, Disk, Rest, Held, GoodCall
<1>4. CASE f = NoFile \/ Forkable(f.lines) = <<>>
  <2>1. call' = [call EXCEPT ![c] = Idle]
    BY <1>4 DEF ReadSource, Ends, FileOf
  <2> QED
    BY <1>3, <2>1, CallAloneOK
<1>5. CASE f # NoFile /\ Forkable(f.lines) # <<>>
  <2>1. call' = [call EXCEPT ![c].at = "create", ![c].text = text]
    BY <1>5 DEF ReadSource, FileOf
  <2>2. EndsIn(text, Last(text))
    <3> DEFINE ls == Forkable(f.lines)
               title == Title(ForkTitle(f.lines))
    <3>1. IsSeq(ls)
      <4>1. IsSeq(f.lines)
        BY <1>3, <1>5 DEF ShownInv, AllFilesOK, FileOK, FileOf
      <4> QED
        BY <4>1, ThoseAreSeq DEF Forkable
    <3>2. text = Append(ls, title)
      BY DEF ForkLines
    <3>3. IsLine(title)
      BY DEF IsLine, Title, IsType, Get
    <3> HIDE DEF ls, title, text
    <3> QED
      BY <3>1, <3>2, <3>3, SeqGrows DEF EndsIn
  <2> HIDE DEF text
  <2>3. [call EXCEPT ![c].at = "create", ![c].text = text] = [call EXCEPT ![c] = next]
    BY DEF IInv, CallsInv
  <2>4. next.op = "fork" /\ next.at = "create" /\ next.text = text
    BY <1>1, <1>2 DEF Held
  <2> HIDE DEF next
  <2>5. CallOK(next)
    BY <2>2, <2>4 DEF CallOK, Seeks, Opened, Copies
  <2> QED
    BY <1>3, <2>1, <2>3, <2>5, CallAloneOK
<1> QED
  BY <1>4, <1>5

\* The step of a call that writes its own file, or makes one nobody is about.
Writes(c, k, d, s, f, ids) ==
    /\ file' = [file EXCEPT ![<<d, s>>] = f]
    /\ projects' = projects /\ now' \in Nat /\ now <= now' /\ FileOK(f, now')
    /\ call' = [b \in Callers |-> IF b = c THEN k ELSE Met(call[b], ids)]
    /\ \/ f = file[<<d, s>>]
       \/ Kept(file[<<d, s>>], f) /\ (s \in ForkIds \/ file[<<d, s>>].lines # <<>>)
       \/ f = NoFile /\ ids = {s}
       \/ \A b \in Callers : call[b] # Idle => call[b].id # s
    /\ \/ s \notin ForkIds
       \/ f # NoFile => file[<<d, s>>] # NoFile
       \/ \A e \in Dirs : file[<<e, s>>] = NoFile

LEMMA WriterShows ==
    ASSUME IInv, CallsInv', ShownInv, NEW c \in Callers, NEW k, NEW d \in Dirs, NEW s \in Ids,
           NEW f, NEW ids, Writes(c, k, d, s, f, ids), k # Idle => CallOK(k)', LastOK'
    PROVE  ShownInv'
<1> USE DEF Writes
<1> DEFINE x == <<d, s>>
<1>1. \A y \in Dirs \X Ids : file'[y] = IF y = x THEN f ELSE file[y]
  BY DEF IInv, FilesInv
<1>2. AllFilesOK'
  BY FilesKept DEF IInv, ShownInv
<1>3. ForkOnce'
  <2> SUFFICES ASSUME NEW i \in ForkIds, NEW e \in Dirs, NEW g \in Dirs,
                      file'[<<e, i>>] # NoFile, file'[<<g, i>>] # NoFile
               PROVE  e = g
    BY DEF ForkOnce
  <2>1. i \in Ids
    BY DEF Ids
  <2>2. CASE i # s
    <3>1. file'[<<e, i>>] = file[<<e, i>>] /\ file'[<<g, i>>] = file[<<g, i>>]
      BY <1>1, <2>1, <2>2
    <3> QED
      BY <3>1 DEF ForkOnce, ShownInv
  <2>3. CASE i = s
    <3>1. \A a \in Dirs : a # d => file'[<<a, s>>] = file[<<a, s>>]
      BY <1>1
    <3>2. file'[<<d, s>>] = f
      BY <1>1
    <3>3. CASE f # NoFile => file[<<d, s>>] # NoFile
      <4>1. file[<<e, s>>] # NoFile /\ file[<<g, s>>] # NoFile
        BY <2>3, <3>1, <3>2, <3>3
      <4> QED
        BY <2>3, <4>1 DEF ForkOnce, ShownInv
    <3>4. CASE \A a \in Dirs : file[<<a, s>>] = NoFile
      BY <2>3, <3>1, <3>4
    <3> QED
      BY <2>3, <3>3, <3>4
  <2> QED
    BY <2>2, <2>3
<1>4. CallsOK'
  <2> SUFFICES ASSUME NEW b \in Callers, call'[b] # Idle PROVE CallOK(call[b])'
    BY DEF CallsOK
  <2>1. CASE b = c
    <3>1. call'[b] = k
      BY <2>1
    <3> QED
      BY <3>1
  <2>2. CASE b # c
    <3>1. call'[b] = Met(call[b], ids) /\ call[b] # Idle
      BY <2>2 DEF Met
    <3>2. ASSUME NEW j, j # Idle, GoodCall(j), CallOK(j), j.id = call[b].id,
                 j.id \in ids => ~j.alone
          PROVE  Undisturbed(j)
      <4>1. j.id = s =>
             \/ f = file[<<d, s>>]
             \/ Kept(file[<<d, s>>], f) /\ (s \in ForkIds \/ file[<<d, s>>].lines # <<>>)
             \/ ~j.alone /\ (Kept(file[<<d, s>>], f) \/ f = NoFile \/ f.ino > now)
        BY <3>1, <3>2
      <4> QED
        BY <3>2, <4>1, WriteHarms DEF IInv
    <3> QED
      BY <3>1, <3>2, OtherCallOK DEF ShownInv
  <2> QED
    BY <2>1, <2>2
<1> QED
  BY <1>2, <1>3, <1>4 DEF ShownInv

\* What a call alone with its session wrote is the newest of its session.
LEMMA WroteOK ==
    ASSUME IInv, ShownInv, NEW w, w.dir \in Dirs, w.id \in Ids, NEW f,
           file' = [file EXCEPT ![<<w.dir, w.id>>] = f], projects' = projects,
           f # NoFile, f.mtime = now + 1, EndsIn(f.lines, w.line),
           Found(w.where, w.id, w.dir),
           w.id \in ForkIds \/ (file[<<w.dir, w.id>>] # NoFile
                                /\ file[<<w.dir, w.id>>].lines # <<>>)
    PROVE  WrittenOK(w)'
<1> DEFINE x == <<w.dir, w.id>>
<1>1. \A y \in Dirs \X Ids : file'[y] = IF y = x THEN f ELSE file[y]
  BY DEF IInv, FilesInv
<1>2. FileOf(w)' = f
  BY <1>1 DEF FileOf
<1>3. Newest(w)'
  <2> SUFFICES ASSUME NEW d \in Dirs, d # w.dir, file'[<<d, w.id>>] # NoFile
               PROVE  file'[<<d, w.id>>].mtime < f.mtime
    BY <1>2 DEF Newest
  <2>1. file'[<<d, w.id>>] = file[<<d, w.id>>]
    BY <1>1
  <2>2. file[<<d, w.id>>].mtime \in Nat /\ file[<<d, w.id>>].mtime <= now /\ now \in Nat
    BY <2>1 DEF ShownInv, AllFilesOK, FileOK, IInv, FilesInv
  <2> QED
    BY <2>1, <2>2
<1>4. Found(w.where, w.id, w.dir)'
  <2>1. CASE w.id \in ForkIds
    BY <2>1 DEF Found
  <2>2. CASE w.id \notin ForkIds
    <3>1. IsHere(w.dir, w.id)' <=> IsHere(w.dir, w.id)
      <4>1. f.lines # <<>>
        BY DEF EndsIn
      <4> QED
        BY <1>1, <2>2, <4>1 DEF IsHere
    <3>2. \A d \in Dirs : d # w.dir => file'[<<d, w.id>>] = file[<<d, w.id>>]
      BY <1>1
    <3>3. SameHere(w.id)
      BY <3>1, <3>2 DEF SameHere, IsHere
    <3> QED
      BY <3>3, FindKept DEF Found, IInv
  <2> QED
    BY <2>1, <2>2
<1> QED
  BY <1>2, <1>3, <1>4 DEF WrittenOK, EndsIn, IsSeq, IsLine

\* What a call leaves behind it when it is done.
LEMMA DoneFields ==
    ASSUME NEW k, GoodCall(k), NEW line
    PROVE  LET w == [k EXCEPT !.line = line, !.at = "done"]
           IN  w.dir = k.dir /\ w.id = k.id /\ w.where = k.where /\ w.line = line
<1>1. PICK S : k \in Held(S)
  BY DEF GoodCall
<1> QED
  BY <1>1 DEF Held

\* A rename or a tag writes to the file it opened, if it is there by that name.
LEMMA AppendShows ==
    ASSUME IInv, CallsInv', ShownInv, NEW c \in Callers, AppendLine(c)
    PROVE  ShownInv'
<1> DEFINE k == call[c]
           x == <<k.dir, k.id>>
           ls == Append(file[x].lines, k.line)
           g == Rewritten(file[x], ls)
           f == IF file[x].ino # k.ino THEN file[x] ELSE g
           w == [k EXCEPT !.line = k.line, !.at = "done"]
<1>1. k # Idle /\ k.op = "append" /\ k.at = "found" /\ GoodCall(k) /\ CallOK(k)
  BY DEF AppendLine, At, IInv, CallsInv, ShownInv, CallsOK
<1>2. k.dir \in Dirs /\ k.id \in Ids /\ k.ino # 0
  BY <1>1 DEF GoodCall, Held
<1>3. /\ file' = [file EXCEPT ![x] = f] /\ now' = now + 1 /\ projects' = projects
      /\ call' = [call EXCEPT ![c] = Idle]
      /\ written' = IF k.alone THEN w ELSE Idle
  BY <1>2 DEF AppendLine, Tick, Ends, Shown, IInv, FilesInv
<1>4. now \in Nat /\ now' \in Nat /\ now <= now' /\ GoodFile(file[x]) /\ FileOK(file[x], now)
  BY <1>2, <1>3 DEF IInv, FilesInv, ShownInv, AllFilesOK
<1>5. /\ k.line \in Lines
      /\ file[x].ino = k.ino => file[x].lines # <<>>
      /\ k.alone => file[x].ino = k.ino /\ Found(k.where, k.id, k.dir)
  BY <1>1 DEF CallOK, Opened, FileOf
<1>6. file[x].ino = k.ino =>
        /\ file[x] # NoFile /\ f # NoFile /\ FileOK(f, now') /\ f.mtime = now + 1
        /\ Kept(file[x], f) /\ EndsIn(f.lines, k.line)
  <2> SUFFICES ASSUME file[x].ino = k.ino
               PROVE  /\ file[x] # NoFile /\ f # NoFile /\ FileOK(f, now') /\ f.mtime = now + 1
                      /\ Kept(file[x], f) /\ EndsIn(f.lines, k.line)
    OBVIOUS
  <2>1. file[x] # NoFile /\ f = g
    BY <1>2 DEF NoFile
  <2>2. IsSeq(file[x].lines) /\ file[x].ino \in Nat /\ file[x].ino <= now
    BY <1>4, <2>1 DEF FileOK
  <2>3. IsLine(k.line)
    BY <1>5, FilesAssumption DEF IsLine
  <2>4. IsSeq(ls) /\ ls # <<>> /\ Last(ls) = k.line
    BY <2>2, SeqGrows
  <2> HIDE DEF ls
  <2>5. g # NoFile /\ g.ino = file[x].ino /\ g.lines = ls /\ g.mtime = now + 1
    BY <1>4, <2>1, RewrittenFields
  <2> HIDE DEF f, g
  <2> QED
    BY <1>3, <1>4, <2>1, <2>2, <2>3, <2>4, <2>5 DEF FileOK, Kept, EndsIn
<1>7. file[x].ino # k.ino => f = file[x] /\ FileOK(f, now')
  <2> SUFFICES ASSUME file[x].ino # k.ino PROVE FileOK(file[x], now')
    OBVIOUS
  <2> QED
    BY <1>3, <1>4 DEF FileOK
<1> HIDE DEF f
<1>8. LastOK'
  <2> SUFFICES ASSUME written' # Idle PROVE WrittenOK(written)'
    BY DEF LastOK
  <2>1. k.alone /\ written' = w
    BY <1>3
  <2>2. w.dir = k.dir /\ w.id = k.id /\ w.where = k.where /\ w.line = k.line
    BY <1>1, DoneFields
  <2>3. PICK v : v = w
    OBVIOUS
  <2> HIDE DEF w
  <2>4. WrittenOK(v)'
    <3>1. /\ v.dir \in Dirs /\ v.id \in Ids /\ file' = [file EXCEPT ![<<v.dir, v.id>>] = f]
          /\ f # NoFile /\ f.mtime = now + 1 /\ EndsIn(f.lines, v.line)
          /\ Found(v.where, v.id, v.dir)
          /\ file[<<v.dir, v.id>>] # NoFile /\ file[<<v.dir, v.id>>].lines # <<>>
      BY <1>2, <1>3, <1>5, <1>6, <2>1, <2>2, <2>3
    <3> QED
      BY <1>3, <3>1, WroteOK
  <2> QED
    BY <2>1, <2>3, <2>4
<1>9. call' = [b \in Callers |-> IF b = c THEN Idle ELSE Met(call[b], {})]
  BY <1>3 DEF IInv, CallsInv, Met
<1>10. /\ FileOK(f, now')
       /\ f = file[x] \/ (Kept(file[x], f) /\ file[x].lines # <<>>)
       /\ k.id \notin ForkIds \/ (f # NoFile => file[x] # NoFile)
  BY <1>5, <1>6, <1>7
<1>11. PICK d, s, h : d = k.dir /\ s = k.id /\ h = f
  OBVIOUS
<1>12. Writes(c, Idle, d, s, h, {})
  BY <1>3, <1>4, <1>9, <1>10, <1>11 DEF Writes
<1> QED
  BY <1>2, <1>8, <1>11, <1>12, WriterShows

\* A deletion meets every call about its session.
LEMMA RemoveShows ==
    ASSUME IInv, CallsInv', ShownInv, NEW c \in Callers, RemoveFile(c)
    PROVE  ShownInv'
<1> DEFINE k == call[c]
           x == <<k.dir, k.id>>
           own == IF file[x] = NoFile THEN Idle ELSE [k EXCEPT !.at = "agents"]
           ids == {k.id}
<1>1. k # Idle /\ k.op = "delete" /\ k.at = "found" /\ GoodCall(k) /\ CallOK(k)
  BY DEF RemoveFile, At, IInv, CallsInv, ShownInv, CallsOK
<1>2. PICK S : k \in Held(S)
  BY <1>1 DEF GoodCall
<1>3. k.dir \in Dirs /\ k.id \in Ids
  BY <1>1, <1>2 DEF GoodCall, Held
<1>4. /\ file' = [file EXCEPT ![x] = NoFile] /\ now' = now /\ projects' = projects
      /\ call' = [b \in Callers |-> IF b = c THEN own ELSE Met(call[b], ids)]
      /\ written' = IF written # Idle /\ written.id \in ids THEN Idle ELSE written
  BY DEF RemoveFile, Forget
<1>5. PICK d, s, o, ns : d = k.dir /\ s = k.id /\ o = own /\ ns = {s}
  OBVIOUS
<1>6. LastOK'
  <2> SUFFICES ASSUME written' # Idle PROVE WrittenOK(written)'
    BY DEF LastOK
  <2>1. PICK w : w = written'
    OBVIOUS
  <2>2. w = written /\ w # Idle /\ w.id # k.id
    BY <1>4, <2>1
  <2>3. WrittenOK(w) /\ w.id \in Ids
    BY <2>2 DEF ShownInv, LastOK, WrittenOK
  <2>4. \A e \in Dirs : file'[<<e, w.id>>] = file[<<e, w.id>>]
    BY <1>4, <2>2, <2>3 DEF IInv, FilesInv
  <2>5. WrittenOK(w)'
    BY <1>4, <2>3, <2>4, WrittenKept DEF IInv
  <2> QED
    BY <2>1, <2>5
<1>7. o # Idle => CallOK(o)'
  <2>1. o # Idle => o.op = "delete" /\ o.at = "agents"
    BY <1>1, <1>2, <1>5 DEF Held
  <2> QED
    BY <2>1 DEF CallOK, Seeks, Opened, Copies
<1>8. Writes(c, o, d, s, NoFile, ns)
  <2>1. FileOK(NoFile, now') /\ now' \in Nat /\ now <= now'
    BY <1>4 DEF FileOK, IInv, FilesInv
  <2>2. call' = [b \in Callers |-> IF b = c THEN o ELSE Met(call[b], ns)]
    BY <1>4, <1>5
  <2>3. file' = [file EXCEPT ![<<d, s>>] = NoFile] /\ projects' = projects
    BY <1>4, <1>5
  <2> QED
    BY <1>5, <2>1, <2>2, <2>3 DEF Writes
<1> QED
  BY <1>3, <1>5, <1>6, <1>7, <1>8, WriterShows

\* A fork is made in one place, under an id nobody has.
LEMMA CreateShows ==
    ASSUME IInv, CallsInv', ShownInv, NEW c \in Callers, NEW i \in ForkIds, CreateFork(c, i)
    PROVE  ShownInv'
<1> DEFINE k == call[c]
           f == NewFile(<<>>)
           next == [k EXCEPT !.at = "fill", !.id = i, !.alone = TRUE]
<1>1. k # Idle /\ k.op = "fork" /\ k.at = "create" /\ GoodCall(k) /\ CallOK(k)
  BY DEF CreateFork, At, IInv, CallsInv, ShownInv, CallsOK
<1>2. PICK S : k \in Held(S)
  BY <1>1 DEF GoodCall
<1>3. k.dir \in Dirs /\ i \in Ids
  BY <1>1 DEF GoodCall, Ids
<1>4. /\ file' = [file EXCEPT ![<<k.dir, i>>] = f] /\ now' = now + 1 /\ projects' = projects
      /\ call' = [call EXCEPT ![c].at = "fill", ![c].id = i, ![c].alone = TRUE]
      /\ written' = written
      /\ \A e \in Dirs : file[<<e, i>>] = NoFile
      /\ \A b \in Callers : call[b] # Idle => call[b].id # i
  BY DEF CreateFork, Tick
<1>5. call' = [b \in Callers |-> IF b = c THEN next ELSE Met(call[b], {})]
  BY <1>4 DEF IInv, CallsInv, Met
<1>6. f # NoFile /\ f.ino = now + 1 /\ f.lines = <<>> /\ f.mtime = now + 1
  BY NewFileFields DEF IInv
<1>7. now \in Nat /\ now' \in Nat /\ now <= now'
  BY <1>4 DEF IInv, FilesInv
<1> HIDE DEF f
<1>8. FileOK(f, now')
  <2>1. <<>> \in Seq({})
    OBVIOUS
  <2>2. IsSeq(<<>>)
    BY <2>1 DEF IsSeq
  <2> QED
    BY <1>4, <1>6, <1>7, <2>2 DEF FileOK
<1>9. PICK d, o, h : d = k.dir /\ o = next /\ h = f
  OBVIOUS
<1>10. CallOK(o)'
  <2>1. o.op = "fork" /\ o.at = "fill" /\ o.id = i /\ o.dir = d /\ o.text = k.text
    BY <1>1, <1>2, <1>9 DEF Held
  <2>2. EndsIn(o.text, Last(o.text))
    BY <1>1, <2>1 DEF CallOK, Copies
  <2>3. FileOf(o)' # NoFile
    <3>1. file'[<<d, i>>] = f
      BY <1>3, <1>4, <1>9 DEF IInv, FilesInv
    <3> QED
      BY <1>6, <2>1, <3>1 DEF FileOf
  <2> QED
    BY <2>1, <2>2, <2>3 DEF CallOK, Seeks, Opened, Copies, EndsIn, IsSeq, IsLine
<1>11. LastOK'
  <2> SUFFICES ASSUME written # Idle PROVE WrittenOK(written)'
    BY <1>4 DEF LastOK
  <2>1. PICK w : w = written
    OBVIOUS
  <2>2. WrittenOK(w) /\ w.id \in Ids
    BY <2>1 DEF ShownInv, LastOK, WrittenOK
  <2>3. w.id # i
    BY <1>4, <2>2 DEF WrittenOK, FileOf
  <2>4. \A e \in Dirs : file'[<<e, w.id>>] = file[<<e, w.id>>]
    BY <1>4, <2>2, <2>3 DEF IInv, FilesInv
  <2>5. WrittenOK(w)'
    BY <1>4, <2>2, <2>4, WrittenKept DEF IInv
  <2> QED
    BY <1>4, <2>1, <2>5
<1>12. Writes(c, o, d, i, h, {})
  <2> HIDE DEF next
  <2> QED
    BY <1>4, <1>5, <1>7, <1>8, <1>9 DEF Writes
<1> QED
  BY <1>3, <1>9, <1>10, <1>11, <1>12, WriterShows

\* A fork is filled where it was made, unless it has been deleted.
LEMMA FillShows ==
    ASSUME IInv, CallsInv', ShownInv, NEW c \in Callers, FillFork(c)
    PROVE  ShownInv'
<1> DEFINE k == call[c]
           x == <<k.dir, k.id>>
           f == Rewritten(file[x], k.text)
           w == [k EXCEPT !.line = Last(k.text), !.at = "done"]
<1>1. k # Idle /\ k.op = "fork" /\ k.at = "fill" /\ GoodCall(k) /\ CallOK(k)
  BY DEF FillFork, At, IInv, CallsInv, ShownInv, CallsOK
<1>2. k.dir \in Dirs /\ k.id \in Ids /\ k.id \in ForkIds
  BY <1>1 DEF GoodCall, Held, CallOK, Copies
<1>3. /\ file' = [file EXCEPT ![x] = f] /\ now' = now + 1 /\ projects' = projects
      /\ call' = [call EXCEPT ![c] = Idle]
      /\ written' = IF k.alone THEN w ELSE Idle
  BY <1>2 DEF FillFork, Tick, Ends, Shown, IInv, FilesInv
<1>4. now \in Nat /\ now' \in Nat /\ now <= now' /\ GoodFile(file[x]) /\ FileOK(file[x], now)
  BY <1>2, <1>3 DEF IInv, FilesInv, ShownInv, AllFilesOK
<1>5. /\ EndsIn(k.text, Last(k.text))
      /\ k.alone => file[x] # NoFile
  BY <1>1 DEF CallOK, Copies, FileOf
<1>6. file[x] # NoFile =>
        f # NoFile /\ FileOK(f, now') /\ f.mtime = now + 1 /\ Kept(file[x], f) /\ f.lines = k.text
  <2> SUFFICES ASSUME file[x] # NoFile
               PROVE  f # NoFile /\ FileOK(f, now') /\ f.mtime = now + 1 /\ Kept(file[x], f)
                      /\ f.lines = k.text
    OBVIOUS
  <2>1. f # NoFile /\ f.ino = file[x].ino /\ f.lines = k.text /\ f.mtime = now + 1
    BY <1>4, RewrittenFields
  <2>2. file[x].ino \in Nat /\ file[x].ino <= now
    BY <1>4 DEF FileOK
  <2> HIDE DEF f
  <2> QED
    BY <1>3, <1>4, <1>5, <2>1, <2>2 DEF FileOK, Kept, EndsIn
<1>7. file[x] = NoFile => f = file[x] /\ FileOK(f, now')
  <2>1. file[x] = NoFile => f = NoFile
    BY <1>4, RewrittenGood
  <2> HIDE DEF f
  <2> QED
    BY <2>1 DEF FileOK
<1> HIDE DEF f
<1>8. LastOK'
  <2> SUFFICES ASSUME written' # Idle PROVE WrittenOK(written)'
    BY DEF LastOK
  <2>1. k.alone /\ written' = w
    BY <1>3
  <2>2. w.dir = k.dir /\ w.id = k.id /\ w.where = k.where /\ w.line = Last(k.text)
    BY <1>1, DoneFields
  <2>3. PICK v : v = w
    OBVIOUS
  <2> HIDE DEF w
  <2>4. WrittenOK(v)'
    <3>1. /\ v.dir \in Dirs /\ v.id \in ForkIds /\ v.id \in Ids
          /\ file' = [file EXCEPT ![<<v.dir, v.id>>] = f]
          /\ f # NoFile /\ f.mtime = now + 1 /\ EndsIn(f.lines, v.line)
      BY <1>2, <1>3, <1>5, <1>6, <2>1, <2>2, <2>3
    <3>2. Found(v.where, v.id, v.dir)
      BY <3>1 DEF Found
    <3> QED
      BY <1>3, <3>1, <3>2, WroteOK
  <2> QED
    BY <2>1, <2>3, <2>4
<1>9. call' = [b \in Callers |-> IF b = c THEN Idle ELSE Met(call[b], {})]
  BY <1>3 DEF IInv, CallsInv, Met
<1>10. FileOK(f, now')
  BY <1>6, <1>7
<1>11. f # NoFile => file[x] # NoFile
  BY <1>7
<1>12. PICK d, s, h : d = k.dir /\ s = k.id /\ h = f
  OBVIOUS
<1>13. Writes(c, Idle, d, s, h, {})
  BY <1>2, <1>3, <1>4, <1>6, <1>7, <1>9, <1>10, <1>11, <1>12 DEF Writes
<1> QED
  BY <1>2, <1>8, <1>12, <1>13, WriterShows

LEMMA ShownStep ==
    ASSUME IInv, IInv', ShownInv, [Next]_vars PROVE ShownInv'
<1>1. CallsInv'
  BY DEF IInv
<1>2. ASSUME NEW d \in Dirs, NEW s \in Sessions, NEW lines \in Batches, CliWrites(d, s, lines)
      PROVE  ShownInv'
  BY <1>2, CliShows
<1>3. ASSUME NEW d \in Dirs, NEW s \in Sessions, NEW a \in Agents, CliRunsAgent(d, s, a)
      PROVE  ShownInv'
  BY <1>3, NothingShows DEF CliRunsAgent
<1>4. ASSUME NEW c \in Callers, NEW where, NEW s, NEW line \in Lines,
             Begin(c, "append", where, s, line)
      PROVE  ShownInv'
  BY <1>1, <1>4, BeginShows
<1>5. ASSUME NEW c \in Callers, NEW where, NEW s, NEW op \in {"delete", "fork"},
             Begin(c, op, where, s, <<>>)
      PROVE  ShownInv'
  BY <1>1, <1>5, BeginShows
<1>6. ASSUME NEW c \in Callers, Search(c) PROVE ShownInv'
  BY <1>1, <1>6, SearchShows
<1>7. ASSUME NEW c \in Callers, AppendLine(c) PROVE ShownInv'
  BY <1>1, <1>7, AppendShows
<1>8. ASSUME NEW c \in Callers, RemoveFile(c) PROVE ShownInv'
  BY <1>1, <1>8, RemoveShows
<1>9. ASSUME NEW c \in Callers, NEW ok \in BOOLEAN, RemoveAgents(c, ok) PROVE ShownInv'
  <2>1. call' = [call EXCEPT ![c] = Idle] /\ UNCHANGED <<projects, file, now, written>>
    BY <1>9 DEF RemoveAgents, Ends
  <2> QED
    BY <1>1, <2>1, CallAloneOK
<1>10. ASSUME NEW c \in Callers, ReadSource(c) PROVE ShownInv'
  BY <1>1, <1>10, ReadShows
<1>11. ASSUME NEW c \in Callers, FillFork(c) PROVE ShownInv'
  BY <1>1, <1>11, FillShows
<1>12. ASSUME NEW c \in Callers, Crash(c) PROVE ShownInv'
  <2>1. call' = [call EXCEPT ![c] = Idle] /\ UNCHANGED <<projects, file, now, written>>
    BY <1>12 DEF Crash, Ends, Disk, Rest
  <2> QED
    BY <1>1, <2>1, CallAloneOK
<1>13. ASSUME NEW c \in Callers, NEW f \in ForkIds, CreateFork(c, f) PROVE ShownInv'
  BY <1>1, <1>13, CreateShows
<1>14. CASE UNCHANGED vars
  BY <1>14, NothingShows DEF vars
<1> QED
  BY <1>2, <1>3, <1>4, <1>5, <1>6, <1>7, <1>8, <1>9, <1>10, <1>11, <1>12, <1>13, <1>14
  DEF Next

-----------------------------------------------------------------------------
(* From the invariant to what a lookup and a listing show *)

LEMMA ShownInductive == Spec => []ShownInv
<1>1. Init => ShownInv
  <2> SUFFICES ASSUME Init PROVE ShownInv
    OBVIOUS
  <2>1. \A x \in Dirs \X Ids : file[x] = NoFile
    BY DEF Init
  <2>2. AllFilesOK
    BY <2>1 DEF AllFilesOK, FileOK
  <2>3. ForkOnce
    BY <2>1 DEF ForkOnce, Ids
  <2>4. CallsOK /\ LastOK
    BY DEF Init, CallsOK, LastOK
  <2> QED
    BY <2>2, <2>3, <2>4 DEF ShownInv
<1>2. IInv /\ IInv' /\ ShownInv /\ [Next]_vars => ShownInv'
  BY ShownStep
<1> QED
  BY <1>1, <1>2, IInvInductive, PTL DEF Spec

\* A row is about the transcript it was made from.
LEMMA RowOf ==
    ASSUME NEW d, NEW r, NEW i \in Ids, r \in SessionsIn(d), r.session = i
    PROVE  IsHere(d, i) /\ r = Info(d, i) /\ r.last_modified = file[<<d, i>>].mtime
<1>1. PICK s \in Ids : IsHere(d, s) /\ r = Info(d, s) /\ r # NoInfo
  BY DEF SessionsIn
<1>2. r.session = s /\ r.last_modified = file[<<d, s>>].mtime
  BY <1>1 DEF Info, LiteInfo
<1> QED
  BY <1>1, <1>2

\* What is shown by a lookup is the file that was written last, and by a listing too:
\* of the copies of its session it is the newest.
LEMMA WrittenIsShown ==
    ASSUME IInv, ShownInv PROVE WritesAreShown
<1> DEFINE w == written
           info == SessionInfo(w.where, w.id)
           rows == {r \in ListSessions(w.where) : r.session = w.id}
           listed == w.dir \in ListedDirs(w.where)
           named == \/ w.dir = Main
                    \/ Len(Worktrees) > 1 /\ w.dir \in ToSet(Worktrees)
<1> SUFFICES ASSUME w # Idle, info # NoInfo
             PROVE  /\ Shows(info, w.line)
                    /\ listed => rows # {} /\ \A r \in rows : Shows(r, w.line)
                    /\ named => listed
  BY DEF WritesAreShown
<1>1. /\ w.dir \in Dirs /\ w.id \in Ids /\ FileOf(w) # NoFile /\ EndsIn(FileOf(w).lines, w.line)
      /\ Found(w.where, w.id, w.dir) /\ Newest(w)
  BY DEF ShownInv, LastOK, WrittenOK
<1>2. Find(w.where, w.id) # NoDir
  BY DEF SessionInfo
<1>3. Find(w.where, w.id) \in projects /\ IsHere(Find(w.where, w.id), w.id)
  BY <1>2, FindFinds DEF IInv
<1>4. Find(w.where, w.id) = w.dir
  BY <1>1, <1>3 DEF Found, ShownInv, ForkOnce, FileOf, IsHere, IInv, FilesInv
<1>5. info = Info(w.dir, w.id)
  BY <1>2, <1>4 DEF SessionInfo
<1>6. Shows(info, w.line)
  <2>1. info = LiteInfo(w.id, FileOf(w).lines, FileOf(w).mtime, "project")
    BY <1>5 DEF Info, FileOf
  <2>2. PICK l, m, i, es : l = w.line /\ m = FileOf(w).mtime /\ i = w.id /\ es = FileOf(w).lines
    OBVIOUS
  <2>3. EndsIn(es, l) /\ LiteInfo(i, es, m, "project") # NoInfo
    BY <1>1, <2>1, <2>2
  <2>4. Shows(LiteInfo(i, es, m, "project"), l)
    BY <2>3, LastShows
  <2> QED
    BY <2>1, <2>2, <2>4
<1>7. info.session = w.id /\ info.last_modified = FileOf(w).mtime
  BY <1>5 DEF Info, LiteInfo, FileOf
<1> DEFINE all == UNION {SessionsIn(d) : d \in ListedDirs(w.where)}
<1>8. ASSUME NEW r \in all, r.session = w.id
      PROVE  /\ r.last_modified \in Nat
             /\ r = info \/ r.last_modified < info.last_modified
  <2>1. PICK d \in ListedDirs(w.where) : r \in SessionsIn(d)
    OBVIOUS
  <2>2. d \in Dirs
    BY DEF ListedDirs, IInv, FilesInv
  <2>3. IsHere(d, w.id) /\ r = Info(d, w.id) /\ r.last_modified = file[<<d, w.id>>].mtime
    BY <1>1, <1>8, <2>1, RowOf
  <2>4. r.last_modified \in Nat
    BY <1>1, <2>2, <2>3 DEF ShownInv, AllFilesOK, FileOK, IsHere
  <2>5. CASE d = w.dir
    BY <1>5, <2>3, <2>4, <2>5
  <2>6. CASE d # w.dir
    <3>1. file[<<d, w.id>>].mtime < FileOf(w).mtime
      BY <1>1, <2>2, <2>3, <2>6 DEF Newest, IsHere
    <3> QED
      BY <1>7, <2>3, <2>4, <3>1
  <2> QED
    BY <2>5, <2>6
<1>9. listed => info \in all
  <2>1. info \in SessionsIn(w.dir)
    BY <1>1, <1>3, <1>4, <1>5 DEF SessionsIn
  <2> QED
    BY <2>1
<1>10. rows = {r \in all : /\ r.session = w.id
                           /\ \A q \in all : q.session = w.id
                                => q.last_modified <= r.last_modified}
  BY DEF ListSessions, Deduplicated
<1> HIDE DEF all, info, rows
<1>11. info.last_modified \in Nat
  BY <1>1, <1>7 DEF ShownInv, AllFilesOK, FileOK, FileOf
<1>12. ASSUME listed PROVE info \in rows
  <2>1. \A q \in all : q.session = w.id => q.last_modified <= info.last_modified
    BY <1>8, <1>11
  <2> QED
    BY <1>7, <1>9, <1>10, <1>12, <2>1
<1>13. ASSUME listed, NEW r \in rows PROVE r = info
  <2>1. r \in all /\ r.session = w.id /\ info.last_modified <= r.last_modified
    BY <1>7, <1>9, <1>10, <1>13
  <2>2. r.last_modified \in Nat /\ (r = info \/ r.last_modified < info.last_modified)
    BY <1>8, <2>1
  <2> QED
    BY <1>11, <2>1, <2>2
<1>14. named => listed
  <2> SUFFICES ASSUME named, w.where # "anywhere" PROVE listed
    BY <1>3, <1>4 DEF ListedDirs
  <2>1. w.dir \in projects
    BY <1>3, <1>4
  <2>2. w.dir = Main => w.dir = FindProjectDir(Main)
    BY <2>1 DEF FindProjectDir
  <2>3. IsOf(w.dir, w.dir)
    BY DEF IsOf
  <2> QED
    BY <2>1, <2>2, <2>3 DEF ListedDirs
<1> QED
  BY <1>6, <1>12, <1>13, <1>14

\* The title that a rename or a fork that nobody met has written is what a lookup made in
\* the same way answers, and what a listing shows, out of all the copies of the session
\* in the directories it reads: rename_session, tag_session and fork_session search the
\* places get_session_info searches, in its order, and of two copies
\* deduplicate_by_session_id keeps the one that was written later.
THEOREM WritesShow == Spec => []WritesAreShown
<1>1. IInv /\ ShownInv => WritesAreShown
  BY WrittenIsShown
<1> QED
  BY <1>1, IInvInductive, ShownInductive, PTL
=============================================================================
