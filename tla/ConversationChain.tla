-------------------------- MODULE ConversationChain --------------------------
(***************************************************************************)
(* The conversation of a transcript (sessions/filesystem.rs).              *)
(*                                                                         *)
(* A transcript is a tree: every entry names its parent.  Rewinding,       *)
(* sidechains and parallel tool calls make it fork.  The conversation is   *)
(* the walk from the newest leaf of the main chain to its root, into which *)
(* the calls and results of parallel turns that the walk missed are put    *)
(* back.                                                                   *)
(*                                                                         *)
(* The state is the transcript itself, to which the CLI appends.  Nothing  *)
(* else changes; what the code computes from it is a set of operators.     *)
(***************************************************************************)
EXTENDS Naturals, Sequences, FiniteSets, SequencesExt, Ordered

CONSTANTS
    Shape,          \* what an entry may be, next to its uuid, parent and source
    MaxEntries,     \* bound on the length of a transcript
    MaxReach        \* bound on how many entries back a parent is

None == 0           \* an id that is absent, or empty, which the code reads alike

\* An entry after the filters of parse_transcript_entries and
\* filter_transcript_entries: of a transcript type and with a uuid.  Uuids and
\* timestamps count the entries in the order of writing.  writer stands for
\* isSidechain with agentId.
TypeOfShape == [
    type : {"user", "assistant", "progress"},
    mid : Nat,                  \* message.id of an assistant entry
    calls : SUBSET Nat,         \* ids of its tool_use blocks
    answers : SUBSET Nat,       \* tool_use_ids of its tool_result blocks
    sourced : BOOLEAN,          \* carries sourceToolAssistantUUID
    writer : {"main", "side"},
    meta : BOOLEAN,             \* isMeta
    team : BOOLEAN]             \* has a teamName

ASSUME ChainAssumption == Shape \subseteq TypeOfShape /\ MaxEntries \in Nat /\ MaxReach \in Nat

VARIABLE entries
vars == <<entries>>

-----------------------------------------------------------------------------
(* The tree *)

Uuids(es) == {es[k].uuid : k \in DOMAIN es}

\* by_uuid: of entries with one uuid the last counts.
ByUuid(es, u) == SelectLastInSeq(es, LAMBDA e : e.uuid = u)

Up(es, i) == IF es[i].parent = None THEN None ELSE ByUuid(es, es[i].parent)

\* The walk from entry i along parentUuid, until a root or a uuid seen before.
Walk(es, i) ==
    LET path[k \in 0..Len(es)] ==
          IF k = 0 THEN <<i>>
          ELSE LET p == path[k - 1]
                   j == Up(es, Last(p))
               IN  IF j = None \/ es[j].uuid \in Uuids(EntriesAt(es, p)) THEN p ELSE Append(p, j)
    IN path[Len(es)]

Talks(e) == e.type \in {"user", "assistant"}

Terminals(es) == {i \in DOMAIN es : \A j \in DOMAIN es : es[j].parent # es[i].uuid}

\* From each terminal back to the nearest user or assistant entry.
Leaves(es) ==
    LET leaf(t) == LET walk == Walk(es, t)
                       talking == {k \in DOMAIN walk : Talks(es[walk[k]])}
                   IN  IF talking = {} THEN None ELSE walk[Min(talking)]
    IN  {leaf(t) : t \in Terminals(es)} \ {None}

OnMainChain(e) == e.writer = "main" /\ ~e.team /\ ~e.meta

\* pick_best: the candidate whose uuid was written last.  (Candidates with one uuid are
\* one entry that was written twice.)
PickBest(es, candidates) ==
    LET place(i) == ByUuid(es, es[i].uuid)
    IN  CHOOSE i \in candidates : \A j \in candidates : place(j) <= place(i)

\* Of the main chain if there is any.
PickMain(es, leaves) ==
    LET main == {i \in leaves : OnMainChain(es[i])}
    IN  IF leaves = {} THEN None ELSE PickBest(es, IF main = {} THEN leaves ELSE main)
Leaf(es) == PickMain(es, Leaves(es))

WalkTo(es, leaf) == IF leaf = None THEN <<>> ELSE EntriesAt(es, Reverse(Walk(es, leaf)))

\* The walk of build_conversation_chain, root first.
MainWalk(es) == WalkTo(es, Leaf(es))

-----------------------------------------------------------------------------
(* recover_orphaned_parallel_tool_results *)

\* Entries deduplicated by uuid: first-seen order, last-seen value.
Unique(es) ==
    LET first == Those(es, {i \in DOMAIN es : \A j \in 1..i - 1 : es[j].uuid # es[i].uuid})
    IN  [k \in DOMAIN first |-> es[ByUuid(es, first[k].uuid)]]

Response(e) == IF e.type = "assistant" THEN e.mid ELSE None

\* The entry that made a call; none if two responses claim its id.
Owner(us, c) ==
    LET callers == {i \in DOMAIN us : Response(us[i]) # None /\ c \in us[i].calls}
    IN  IF callers # {} /\ \A i, j \in callers : us[i].mid = us[j].mid
          THEN Max(callers) ELSE None

IsToolResult(e) == e.type = "user" /\ e.parent # None /\ e.answers # {}

\* MUTANT of BelongsTo: results are looked up under their parent only.
BelongsToParent(us, r, a) == us[r].parent = us[a].uuid

\* results_by_assistant: r may belong to the entry a.
BelongsTo(us, r, a) ==
    \/ us[r].parent = us[a].uuid
    \/ /\ us[r].writer = us[a].writer
       /\ \/ us[r].source = us[a].uuid
          \/ \E c \in us[r].answers : Owner(us, c) = a

Group(us, mid) == {i \in DOMAIN us : Response(us[i]) = mid}

\* The results that may belong to a response and are not in the conversation yet.
Results(us, group, seen) ==
    {r \in DOMAIN us : /\ IsToolResult(us[r]) /\ us[r].uuid \notin seen
                       /\ \E a \in group : BelongsTo(us, r, a)}

IsOwn(us, group, r) == \E a \in group : us[r].parent = us[a].uuid

\* A stray is taken if it answers a call of the group that nobody answered yet,
\* nor another stray before it.
AnswersOpen(us, group, r, answered) ==
    \E c \in us[r].answers \ answered : Owner(us, c) \in group
TakeStrays(us, group, strays, onChain) ==
    LET answered[n \in 0..Len(us)] ==
          IF n = 0 THEN onChain
          ELSE answered[n - 1] \cup
               (IF n \in strays /\ AnswersOpen(us, group, n, answered[n - 1])
                  THEN us[n].answers ELSE {})
    IN  {r \in strays : AnswersOpen(us, group, r, answered[r - 1])}

\* All whose parent is of the response, then strays.
Settled(us, chain, group, results) ==
    LET own == {r \in results : IsOwn(us, group, r)}
        onChain == UNION {chain[k].answers : k \in DOMAIN chain}
        byOwn == UNION {us[r].answers : r \in own}
    IN  own \cup TakeStrays(us, group, results \ own, onChain \cup byOwn)

\* No two entries have the same timestamp.
ByTime(us, S) == EntriesAt(us, InOrder(S, [i \in S |-> us[i].ts]))

\* MUTANT of Missed: results are put back without a look at what is there.
MissedOrNot(us, chain, seen, mid) ==
    LET group == Group(us, mid)
    IN  ByTime(us, {i \in group : us[i].uuid \notin seen})
          \o ByTime(us, {r \in DOMAIN us : /\ IsToolResult(us[r])
                                         /\ \E a \in group : BelongsTo(us, r, a)})

\* MUTANT of Missed: only results are put back.
MissedResults(us, chain, seen, mid) == ByTime(us, Results(us, Group(us, mid), seen))

\* What the walk missed of the response mid: its blocks, then results.
Missed(us, chain, seen, mid) ==
    LET group == Group(us, mid)
    IN  ByTime(us, {i \in group : us[i].uuid \notin seen})
          \o ByTime(us, Settled(us, chain, group, Results(us, group, seen)))

\* One response after the other, in chain order: what is in the conversation by then.
IsFirstOf(chain, k) ==
    /\ Response(chain[k]) # None
    /\ \A j \in 1..k - 1 : Response(chain[j]) # Response(chain[k])
IsLastOf(chain, k) ==
    /\ Response(chain[k]) # None
    /\ \A j \in k + 1..Len(chain) : Response(chain[j]) # Response(chain[k])
Recovered(us, chain) ==
    LET seen[k \in 0..Len(chain)] ==
          IF k = 0 THEN Uuids(chain)
          ELSE seen[k - 1] \cup
               (IF IsFirstOf(chain, k)
                  THEN Uuids(Missed(us, chain, seen[k - 1], Response(chain[k]))) ELSE {})
        first == {k \in DOMAIN chain : IsFirstOf(chain, k)}
    IN  [m \in {Response(chain[k]) : k \in first} |->
            LET k == CHOOSE i \in first : Response(chain[i]) = m
            IN  Missed(us, chain, seen[k - 1], m)]

\* What was recovered of a response follows its last entry on the chain.
InsertInto(chain, inserts) ==
    FlattenSeq([k \in DOMAIN chain |->
        <<chain[k]>> \o (IF IsLastOf(chain, k) THEN inserts[Response(chain[k])] ELSE <<>>)])

RecoverOrphans(es, chain) == InsertInto(chain, Recovered(Unique(es), chain))

BuildConversationChain(es) == RecoverOrphans(es, MainWalk(es))

-----------------------------------------------------------------------------
(* Messages *)

IsVisible(e) == Talks(e) /\ OnMainChain(e)

\* page: a limit of 0, or none, is no limit.
Page(items, limit, offset) ==
    LET rest == SubSeq(items, offset + 1, Len(items))
    IN  IF limit = 0 \/ limit > Len(rest) THEN rest ELSE SubSeq(rest, 1, limit)

SessionMessages(es, limit, offset) ==
    Page(SelectSeq(BuildConversationChain(es), IsVisible), limit, offset)

\* A subagent's transcript is linear: its last message is the leaf.
SubagentChain(es) == WalkTo(es, SelectLastInSeq(es, Talks))

SubagentMessages(es, limit, offset) ==
    Page(SelectSeq(SubagentChain(es), Talks), limit, offset)

-----------------------------------------------------------------------------
(* The CLI writes *)

\* A new entry below any entry of its writer, which forks the tree, or below none,
\* as after a compaction and at the start of a sidechain.  A result answers calls of
\* one response; it hangs from the entry of its own calls or, when a hook or an
\* attachment came between, from that.
Write(s, parent) ==
    LET n == Len(entries)
        assistants == {i \in DOMAIN entries : entries[i].type = "assistant"}
        callsOf(m) == UNION {entries[i].calls : i \in Group(entries, m)}
    IN
    /\ n < MaxEntries
    /\ IF parent = None THEN s.type = "user" \/ n = 0 ELSE n - parent < MaxReach
    /\ \A i \in DOMAIN entries : entries[i].uuid = parent =>
            /\ entries[i].writer = s.writer
            /\ i \in assistants => s.answers \subseteq entries[i].calls
    /\ (s.sourced => assistants # {})
    /\ s.answers # {} =>
         \E m \in {entries[i].mid : i \in assistants} \ {None} : s.answers \subseteq callsOf(m)
    /\ s.writer = "main" /\ parent # None =>
         LET up == Walk(entries, ByUuid(entries, parent))
         IN  s.answers \subseteq UNION {entries[up[k]].calls : k \in DOMAIN up}
    /\ entries' = Append(entries,
          [uuid |-> n + 1, ts |-> n + 1, parent |-> parent, type |-> s.type, mid |-> s.mid,
           calls |-> s.calls, answers |-> s.answers, writer |-> s.writer,
           meta |-> s.meta, team |-> s.team,
           source |-> IF s.sourced THEN entries[Max(assistants)].uuid ELSE None])

\* A batch once more: its append failed after it was stored and was tried again,
\* or a session was imported twice.
WriteAgain(k) ==
    /\ Len(entries) + k <= MaxEntries
    /\ entries' = entries \o SubSeq(entries, Len(entries) - k + 1, Len(entries))

Init == entries = <<>>

Next ==
    \/ \E s \in Shape : \E p \in Uuids(entries) \cup {None} : Write(s, p)
    \/ \E k \in DOMAIN entries : WriteAgain(k)

Spec == Init /\ [][Next]_vars

-----------------------------------------------------------------------------
(* Properties *)

\* Recovery only inserts: the walk's entries are all there, in their order, and
\* no uuid appears twice, although a result may be found under its parent, its
\* source and its call, by two responses (recover_orphaned_parallel_tool_results).
OnlyInserts(walked, conversation) ==
    /\ \A k \in DOMAIN walked : walked[k] \in ToSet(conversation)
    /\ \A i, j \in DOMAIN walked : \A p, q \in DOMAIN conversation :
        i < j /\ conversation[p] = walked[i] /\ conversation[q] = walked[j] => p < q
    /\ \A p, q \in DOMAIN conversation : conversation[p].uuid = conversation[q].uuid => p = q

\* "every result follows its call": of what was put back, no result precedes an
\* entry whose call it answers.
RecoveredFollowCalls(us, walked, conversation) ==
    \A k \in DOMAIN conversation :
        IsToolResult(conversation[k]) /\ conversation[k] \notin ToSet(walked) =>
            \A j \in k + 1..Len(conversation) :
                \A c \in conversation[k].answers :
                    Owner(us, c) # None => us[Owner(us, c)] # conversation[j]

\* What recover_orphaned_parallel_tool_results does to the walk: it inserts, and
\* in an order a conversation can have.
Fits(us, walked, conversation) ==
    OnlyInserts(walked, conversation) /\ RecoveredFollowCalls(us, walked, conversation)
RecoveryFits == Fits(Unique(entries), MainWalk(entries), BuildConversationChain(entries))

\* A response is returned whole: if one of its content blocks is in the
\* conversation, then so are the others and the results that hang from any of
\* them, also when the transcript forked between them.
Whole(returned) ==
    \A i, j \in DOMAIN entries :
        (/\ Response(entries[i]) # None
         /\ \E e \in returned : Response(e) = Response(entries[i])
         /\ \/ Response(entries[j]) = Response(entries[i])
            \/ IsToolResult(entries[j]) /\ entries[j].parent = entries[i].uuid)
        => \E e \in returned : e.uuid = entries[j].uuid
ResponseIsWhole == Whole(ToSet(BuildConversationChain(entries)))

\* Who asks the model to go on needs an answer to every call.  A call of the
\* conversation that was answered somewhere in the transcript, by the same
\* writer and under an id that one response claims, is answered in the conversation.
Answered(us, returned) ==
    \A o \in DOMAIN us : \A c \in us[o].calls :
        (/\ Owner(us, c) = o /\ us[o] \in returned
         /\ \E r \in ToSet(us) : IsToolResult(r) /\ c \in r.answers /\ r.writer = us[o].writer)
        => \E e \in returned : c \in e.answers
AnsweredCallsStayAnswered == Answered(Unique(entries), ToSet(BuildConversationChain(entries)))
=============================================================================
