---------------------------- MODULE ForkTranscript ----------------------------
(***************************************************************************)
(* fork_session and fork_session_via_store (sessions/mutations.rs): a copy *)
(* of a transcript in a session of its own, with fresh uuids, without      *)
(* sidechains and progress entries, cut at a message if one is named.      *)
(***************************************************************************)
EXTENDS ConversationChain

\* uuid_mapping: a fresh uuid for every entry that is kept, progress included.
Fresh(u) == MaxEntries + u

\* The title and content-replacement entries at the end of a fork are of no
\* transcript type; the chain never sees them.
Forkable(es) == Those(es, {i \in DOMAIN es : es[i].writer = "main"})

\* MUTANT of CutAt: the message itself is cut off.
CutBefore(es, upTo) ==
    IF upTo = None THEN es
    ELSE SubSeq(es, 1, SelectInSeq(es, LAMBDA e : e.uuid = upTo) - 1)

\* up_to_message_id cuts behind the first entry with that uuid.
CutAt(es, upTo) ==
    IF upTo = None THEN es ELSE SubSeq(es, 1, SelectInSeq(es, LAMBDA e : e.uuid = upTo))

\* The nearest ancestor that is written: the walk past progress entries, or
\* none where it leaves the kept entries.
WrittenParent(kept, e) ==
    LET i == IF e.parent = None THEN None ELSE ByUuid(kept, e.parent)
        walk == IF i = None THEN <<>> ELSE EntriesAt(kept, Walk(kept, i))
        written == {k \in DOMAIN walk : walk[k].type # "progress"}
    IN  IF written = {} THEN None ELSE Fresh(walk[Min(written)].uuid)

\* One entry of the fork; only the last gets a new timestamp.
Forked(kept, written, k) ==
    LET e == written[k] IN
    [e EXCEPT !.uuid = Fresh(e.uuid), !.parent = WrittenParent(kept, e),
              !.source = None, !.team = FALSE,
              !.ts = IF k = Len(written) THEN Fresh(MaxEntries) ELSE e.ts]

ForkError(es, upTo) ==
    \/ Forkable(es) = <<>>
    \/ upTo # None /\ upTo \notin Uuids(Forkable(es))
    \/ \A e \in ToSet(CutAt(Forkable(es), upTo)) : e.type = "progress"

Fork(es, upTo) ==
    LET kept == CutAt(Forkable(es), upTo)
        written == Those(kept, {i \in DOMAIN kept : kept[i].type # "progress"})
    IN  [k \in DOMAIN written |-> Forked(kept, written, k)]

-----------------------------------------------------------------------------
(* Properties *)

\* forkedFrom: the message a forked message was copied from.
Origins(messages) == [k \in DOMAIN messages |-> messages[k].uuid - MaxEntries]
Ids(messages) == [k \in DOMAIN messages |-> messages[k].uuid]

Messages(es) == SessionMessages(es, None, 0)

\* Every call id is claimed by one response, and no writer answers it twice.
CallsAreUnique(us) ==
    /\ \A i \in DOMAIN us : \A c \in us[i].calls : Owner(us, c) # None
    /\ \A i, j \in DOMAIN us :
        i # j /\ us[i].writer = us[j].writer => us[i].answers \cap us[j].answers = {}

\* A fork has the conversation of its source: the same messages in the same order,
\* although parents were rewired past progress entries, sidechains left out and
\* the links that placed stray results stripped.  Where ids are not unique a
\* result that the source cannot place, or leaves out as a second answer, may
\* appear in the fork, where its parent is its call.
ForkKeepsConversation ==
    ~ForkError(entries, None) /\ CallsAreUnique(Unique(entries)) =>
        Origins(Messages(Fork(entries, None))) = Ids(Messages(entries))

\* A fork cut at a message of the main chain goes on from that message, whatever
\* branch the source went on with.
ForkEndsAtMessage ==
    \A u \in Uuids(Forkable(entries)) :
        LET m == entries[ByUuid(entries, u)]
            walk == Origins(MainWalk(Fork(entries, u)))
        IN  IsVisible(m) => walk # <<>> /\ Last(walk) = u

\* A fork tells the conversation of its source, the whole of it or up to a message
\* (fork_session, mutations.rs).
ForkIsFaithful == ForkKeepsConversation /\ ForkEndsAtMessage
=============================================================================
