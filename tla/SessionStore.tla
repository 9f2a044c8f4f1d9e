----------------------------- MODULE SessionStore -----------------------------
(***************************************************************************)
(* InMemorySessionStore (sessions/store.rs) as a value, its keys           *)
(* (sessions/key.rs), and what conformance.rs demands of every store.      *)
(*                                                                         *)
(* One mutex guards the state, so every call is one step: an operator from *)
(* a state of the store to the next, or to what the call returns.          *)
(***************************************************************************)
EXTENDS TranscriptInfo

\* storage_key joins the parts of a key with '/'; no part contains one, so a key
\* is the sequence <<project_key, session_id, part of subpath, ...>>.
MainKey(project, session) == <<project, session>>
SubKey(project, session, subpath) == <<project, session>> \o subpath
IsMain(k) == Len(k) = 2

\* Keys k.. that storage_key prefixes with this key and a '/'.
Under(k, j) == IsStrictPrefix(k, j)

Parts(path) == {path[i] : i \in DOMAIN path}

\* validate_subpath: no part climbs, and there is one.
ValidSubpath(subpath) == subpath # <<>> /\ ".." \notin Parts(subpath)

\* is_safe_subpath is stricter by "." (links to elsewhere are not modelled).
SafeSubpath(subpath) == ValidSubpath(subpath) /\ "." \notin Parts(subpath)

\* file_path_to_session_key, of a path below the projects directory without the
\* .jsonl: a file directly under the session's directory has no key.
NoKey == <<>>
FilePathToSessionKey(path) ==
    IF Len(path) = 2 THEN path
    ELSE IF Len(path) >= 4 /\ ValidSubpath(SubSeq(path, 3, Len(path))) THEN path
    ELSE NoKey

EmptyStore == [data |-> <<>>, mtimes |-> <<>>, summaries |-> <<>>, last_mtime |-> 0]

Summary(st, k) == IF k \in DOMAIN st.summaries THEN st.summaries[k] ELSE NoSummary
Stored(st, k) == IF k \in DOMAIN st.data THEN st.data[k] ELSE <<>>

\* next_mtime: the wall clock, or one more than the last if that is not later.
NextMtime(st) == st.last_mtime + 1

\* MUTANT of AppendTo: the summary is folded from the last batch alone.
AppendAndRefold(st, k, batch) ==
    LET now == NextMtime(st) IN
    [data |-> Put(st.data, k, Stored(st, k) \o batch),
     mtimes |-> Put(st.mtimes, k, now),
     summaries |-> IF ~IsMain(k) THEN st.summaries
                   ELSE Put(st.summaries, k, [mtime |-> now,
                                              data |-> FoldSummary(NoSummary, batch).data]),
     last_mtime |-> now]

\* append: the entries, their write time and, of a main transcript, the summary.
AppendTo(st, k, batch) ==
    LET now == NextMtime(st) IN
    [data |-> Put(st.data, k, Stored(st, k) \o batch),
     mtimes |-> Put(st.mtimes, k, now),
     summaries |-> IF ~IsMain(k) THEN st.summaries
                   ELSE Put(st.summaries, k,
                            [mtime |-> now, data |-> FoldSummary(Summary(st, k), batch).data]),
     last_mtime |-> now]

\* load: callers treat a key that is not there and one without entries alike.
Load(st, k) == Stored(st, k)
HasEntries(loaded) == loaded # <<>>

ListSessions(st, project) ==
    {[session_id |-> k[2], mtime |-> st.mtimes[k]] :
        k \in {j \in DOMAIN st.data : IsMain(j) /\ j[1] = project}}

ListSessionSummaries(st, project) ==
    {[session_id |-> k[2], mtime |-> st.summaries[k].mtime, data |-> st.summaries[k].data] :
        k \in {j \in DOMAIN st.summaries : j[1] = project}}

ListSubkeys(st, project, session) ==
    {SubSeq(k, 3, Len(k)) : k \in {j \in DOMAIN st.data : Under(MainKey(project, session), j)}}

\* MUTANT of DeleteKey: the subkeys of a session stay.
DeleteOne(st, k) ==
    [st EXCEPT !.data = Without(@, k), !.mtimes = Without(@, k), !.summaries = Without(@, k)]

\* delete: of a main transcript with all keys under it.
DeleteKey(st, k) ==
    LET gone == {k} \cup IF IsMain(k) THEN {j \in DOMAIN st.data : Under(k, j)} ELSE {}
        keep(f) == [j \in DOMAIN f \ gone |-> f[j]]
    IN  [data |-> keep(st.data), mtimes |-> keep(st.mtimes),
         summaries |-> keep(st.summaries), last_mtime |-> st.last_mtime]

-----------------------------------------------------------------------------
(* conformance.rs: the contracts, which the code tests on an empty store,   *)
(* demanded of a store in any state.                                         *)

\* append/load round trip in call order; other keys see nothing of it
\* (contracts 1, 2, 7, 8, 9: order, isolation of projects and subpaths).
Appended(st, after, k, batch) ==
    /\ Load(after, k) = Stored(st, k) \o batch
    /\ \A j \in DOMAIN st.data \ {k} : j \in DOMAIN after.data /\ Load(after, j) = Load(st, j)
    /\ \A j \in DOMAIN after.summaries \ {k} : Summary(after, j) = Summary(st, j)
    /\ IsMain(k) =>
        /\ [session_id |-> k[2], mtime |-> after.mtimes[k]] \in ListSessions(after, k[1])
        /\ \A t \in ListSessions(st, k[1]) : after.mtimes[k] > t.mtime
        /\ \A s \in ListSessionSummaries(after, k[1]) :
            s.session_id = k[2] => s.mtime >= after.mtimes[k]
AppendContract(st, k, batch) == Appended(st, AppendTo(st, k, batch), k, batch)

\* delete clears the session from every listing, takes the subkeys of a main
\* transcript along and leaves every other key alone.
Deleted(st, after, k) ==
    /\ k \notin DOMAIN after.data
    /\ IsMain(k) =>
        /\ ListSubkeys(after, k[1], k[2]) = {}
        /\ \A s \in ListSessions(after, k[1]) \cup ListSessionSummaries(after, k[1]) :
            s.session_id # k[2]
    /\ \A j \in DOMAIN st.data :
        j # k /\ ~(IsMain(k) /\ Under(k, j)) =>
            j \in DOMAIN after.data /\ Load(after, j) = Load(st, j)
DeleteContract(st, k) == Deleted(st, DeleteKey(st, k), k)

\* No listing shows a subpath as a session, nor a session as its own subkey.
ListingContract(st, k) ==
    /\ \A s \in ListSessions(st, k[1]) : MainKey(k[1], s.session_id) \in DOMAIN st.data
    /\ \A p \in ListSubkeys(st, k[1], k[2]) :
        p # <<>> /\ SubKey(k[1], k[2], p) \in DOMAIN st.data
=============================================================================
