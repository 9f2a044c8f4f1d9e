----------------------------- MODULE StoreQueries -----------------------------
(***************************************************************************)
(* The store-backed queries (sessions/store_queries.rs) and mutations      *)
(* (sessions/mutations.rs).  list_sessions_from_store takes several calls  *)
(* of the store; its pieces are operators here, its steps are actions of   *)
(* StoreCalls.  The queries that take one call are operators altogether.   *)
(***************************************************************************)
EXTENDS SessionStore

\* The members of a set in the order of a relation that is total on it.
InOrder(S, before) ==
    [i \in 1..Cardinality(S) |->
        CHOOSE x \in S : Cardinality({y \in S : <<y, x>> \in before}) = i - 1]

\* Newest first.  The store hands out no mtime twice.
Newest(slots) == InOrder(slots, {p \in slots \X slots : p[1].mtime > p[2].mtime})

\* The places of a sequence that are kept, from the first on.
Ascending(places) == InOrder(places, {p \in places \X places : p[1] < p[2]})

\* apply_sort_limit_offset; a limit of 0, or none, is no limit.
PageOf(sorted, limit, offset) ==
    LET rest == SubSeq(sorted, offset + 1, Len(sorted))
    IN  IF limit = 0 \/ limit > Len(rest) THEN rest ELSE SubSeq(rest, 1, limit)

\* MUTANT of IsFresh: a summary older than the transcript is shown.
IsListed(sum, listing) == \E l \in listing : l.session_id = sum.session_id

\* A summary counts if the listing has its session, and not with a later mtime.
IsFresh(sum, listing) ==
    \E l \in listing : l.session_id = sum.session_id /\ sum.mtime >= l.mtime

Waiting == [session |-> "(waiting)"]
Gap(l) == [mtime |-> l.mtime, session_id |-> l.session_id, info |-> Waiting]

\* build_summary_slots.  A slot without a row waits for a load; a summary that
\* shows nothing takes no slot.
Slots(summaries, listing, enumerates, project) ==
    LET fresh == {s \in summaries : enumerates => IsFresh(s, listing)}
        shown == {[mtime |-> s.mtime, session_id |-> s.session_id,
                   info |-> SummaryToInfo(s.session_id, s, project)] : s \in fresh}
        gaps == {Gap(l) : l \in {m \in listing :
                                    \A s \in fresh : s.session_id # m.session_id}}
    IN  {r \in shown : r.info # NoInfo} \cup gaps

\* derive_infos_via_load, one session: a load that fails shows as an empty row.
EmptyRow(s, mtime) == [session |-> s, summary |-> "", last_modified |-> mtime]
LoadedInfo(s, loaded, mtime, project) ==
    IF HasEntries(loaded) THEN LiteInfo(s, loaded, mtime, project) ELSE NoInfo

\* get_session_info_from_store: the mtime is the last entry's timestamp, else now.
MtimeFromTail(es, now) ==
    IF "timestamp" \in DOMAIN Last(es) THEN Last(es).timestamp ELSE now
SessionInfo(st, project, s) ==
    LET loaded == Load(st, MainKey(project, s))
    IN  IF HasEntries(loaded)
          THEN LiteInfo(s, loaded, MtimeFromTail(loaded, st.last_mtime), project)
          ELSE NoInfo

\* list_subagents_from_store.
IsAgentPath(subpath) == Len(subpath) >= 2 /\ subpath[1] = "subagents"
Subagents(st, project, s) ==
    {Last(p) : p \in {q \in ListSubkeys(st, project, s) : IsAgentPath(q)}}

NoMeta == [k \in {Absent} |-> TRUE]

\* split_agent_metadata: the last metadata entry, and the transcript without any.
IsMetadata(e) == IsType(e, "agent_metadata")
Metadata(es) ==
    LET metas == {i \in DOMAIN es : IsMetadata(es[i])}
    IN  IF metas = {} THEN NoMeta ELSE es[Max(metas)]
Transcript(es) ==
    LET kept[n \in 0..Len(es)] ==
            IF n = 0 THEN <<>>
            ELSE IF IsMetadata(es[n]) THEN kept[n - 1] ELSE Append(kept[n - 1], es[n])
    IN  kept[Len(es)]
=============================================================================
