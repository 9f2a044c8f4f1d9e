---------------------------- MODULE TranscriptInfo ----------------------------
(***************************************************************************)
(* What a listing shows of a session, derived in two ways: from a summary  *)
(* that a store folds batch by batch (sessions/summary.rs), and from the   *)
(* head and the tail of the transcript (the lite parse of                  *)
(* sessions/filesystem.rs).                                                *)
(*                                                                         *)
(* An entry is the JSON object it is in the code: a function on the keys   *)
(* it has.  Values are abstract.  Every timestamp of an entry parses.  A   *)
(* text of a user message is a record [kind, says]: "command" has a        *)
(* command name, "skipped" is generated by the CLI, "prompt" is what the   *)
(* user wrote.                                                             *)
(*                                                                         *)
(* The fold reads an entry by its keys.  The lite parse reads the text of  *)
(* its line, which also has what is nested in the entry.  The fields       *)
(* "before" and "after" stand for that: the keys looked for that stand in  *)
(* the text before and behind those of the entry itself, with the value    *)
(* that comes first or last; a timestamp of 0 does not parse.  Lines are   *)
(* compact JSON.  Their keys are sorted, except for a line the CLI wrote   *)
(* itself, which has "typeFirst"; a store keeps no order of keys.          *)
(***************************************************************************)
EXTENDS Naturals, Sequences, SequencesExt, FiniteSets, TLC

CONSTANT
    Window          \* entries in the head and in the tail that a lite read sees (64 KiB)

ASSUME WindowAssumption == Window \in Nat \ {0}

Absent == "(absent)"        \* a key an object has not
NoInfo == [session |-> Absent]  \* the session is not listed

Get(o, k) == IF k \in DOMAIN o THEN o[k] ELSE Absent
IsSet(o, k) == k \in DOMAIN o /\ o[k] = TRUE
IsType(e, t) == Get(e, "type") = t

Put(o, k, v) == [j \in DOMAIN o \cup {k} |-> IF j = k THEN v ELSE o[j]]
PutOnce(o, k, v) == IF k \in DOMAIN o THEN o ELSE Put(o, k, v)
Without(o, k) == [j \in DOMAIN o \ {k} |-> o[j]]

\* The first value that is there, and the first that is not empty either.
FirstPresent(values) ==
    LET there == {i \in DOMAIN values : values[i] # Absent}
    IN  IF there = {} THEN Absent ELSE values[CHOOSE i \in there : \A j \in there : i <= j]
NonEmpty(v) == IF v = "" THEN Absent ELSE v
FirstNonEmpty(values) == FirstPresent([i \in DOMAIN values |-> NonEmpty(values[i])])

\* The texts of an entry that may be the first prompt.
Asked(e) ==
    IF IsType(e, "user") /\ ~IsSet(e, "isMeta") /\ ~IsSet(e, "isCompactSummary")
         /\ ~IsSet(e, "toolResult") /\ "texts" \in DOMAIN e
      THEN e.texts ELSE <<>>

Says(texts, kind) ==
    FirstPresent([i \in DOMAIN texts |->
                    IF texts[i].kind = kind THEN texts[i].says ELSE Absent])

\* What a rename and a tag append; a tag of "" clears.
Title(t) == [type |-> "custom-title", customTitle |-> t]
Tag(t) == [type |-> "tag", tag |-> t]

-----------------------------------------------------------------------------
(* The fold *)

LastWins == [customTitle |-> "custom_title", aiTitle |-> "ai_title",
             lastPrompt |-> "last_prompt", summary |-> "summary_hint",
             gitBranch |-> "git_branch"]

\* MUTANT of FoldFirstPrompt: nothing locks, the last prompt stays.
FoldFirstPromptLast(d, e) ==
    LET prompt == Says(Asked(e), "prompt")
        command == Says(Asked(e), "command")
        d1 == IF command = Absent THEN d ELSE PutOnce(d, "command_fallback", command)
    IN  IF prompt = Absent THEN d1
        ELSE Put(Put(d1, "first_prompt", prompt), "first_prompt_locked", TRUE)

\* The first prompt locks; a command seen before is the fallback.
FoldFirstPrompt(d, e) ==
    LET prompt == Says(Asked(e), "prompt")
        command == Says(Asked(e), "command")
        d1 == IF command = Absent THEN d ELSE PutOnce(d, "command_fallback", command)
    IN  IF IsSet(d, "first_prompt_locked") THEN d
        ELSE IF prompt = Absent THEN d1
        ELSE Put(Put(d1, "first_prompt", prompt), "first_prompt_locked", TRUE)

FoldTag(d, e) ==
    IF ~IsType(e, "tag") THEN d
    ELSE IF NonEmpty(Get(e, "tag")) = Absent THEN Without(d, "tag")
    ELSE Put(d, "tag", e.tag)

FoldEntry(d, e) ==
    LET once == PutOnce(d, "is_sidechain", IsSet(e, "isSidechain"))
        dated == IF "timestamp" \in DOMAIN e THEN PutOnce(once, "created_at", e.timestamp)
                 ELSE once
        placed == IF NonEmpty(Get(e, "cwd")) = Absent THEN dated
                  ELSE PutOnce(dated, "cwd", e.cwd)
        prompted == FoldFirstPrompt(placed, e)
        there == {f \in DOMAIN LastWins : Get(e, f) # Absent}
        last == {LastWins[f] : f \in there}
        named == [k \in DOMAIN prompted \cup last |->
                    IF k \in last THEN e[CHOOSE f \in there : LastWins[f] = k] ELSE prompted[k]]
    IN  FoldTag(named, e)

NoSummary == [mtime |-> 0, data |-> <<>>]

\* fold_session_summary: mtime is the adapter's to stamp.
FoldSummary(prev, batch) ==
    LET data[n \in 0..Len(batch)] ==
            IF n = 0 THEN prev.data ELSE FoldEntry(data[n - 1], batch[n])
    IN  [mtime |-> prev.mtime, data |-> data[Len(batch)]]

\* summary_entry_to_sdk_info.
SummaryToInfo(s, sum, project) ==
    LET d == sum.data
        prompt == NonEmpty(IF IsSet(d, "first_prompt_locked") THEN Get(d, "first_prompt")
                           ELSE Get(d, "command_fallback"))
        title == NonEmpty(FirstPresent(<<Get(d, "custom_title"), Get(d, "ai_title")>>))
        summary == NonEmpty(FirstPresent(<<title, Get(d, "last_prompt"),
                                           Get(d, "summary_hint"), prompt>>))
    IN  IF IsSet(d, "is_sidechain") \/ summary = Absent THEN NoInfo
        ELSE [session |-> s, summary |-> summary, custom_title |-> title,
              first_prompt |-> prompt, git_branch |-> NonEmpty(Get(d, "git_branch")),
              cwd |-> FirstNonEmpty(<<Get(d, "cwd"), project>>),
              tag |-> NonEmpty(Get(d, "tag")),
              created_at |-> IF "created_at" \in DOMAIN d THEN d.created_at ELSE 0,
              last_modified |-> sum.mtime]

-----------------------------------------------------------------------------
(* The lite parse *)

Head64(es) == SubSeq(es, 1, IF Len(es) < Window THEN Len(es) ELSE Window)
Tail64(es) == SubSeq(es, IF Len(es) < Window THEN 1 ELSE Len(es) - Window + 1, Len(es))

\* The text of a line: what comes before the entry's own keys, these, and what comes after.
Nested(e, part) == IF part \in DOMAIN e THEN e[part] ELSE <<>>
Objects(e) == <<Nested(e, "before"), e, Nested(e, "after")>>
FirstIn(e, k) == FirstPresent([i \in 1..3 |-> Get(Objects(e)[i], k)])
LastIn(e, k) == FirstPresent([i \in 1..3 |-> Get(Objects(e)[4 - i], k)])
IsInText(e, k) == \E i \in 1..3 : IsSet(Objects(e)[i], k)

FirstOf(es, k) == FirstPresent([i \in DOMAIN es |-> FirstIn(es[i], k)])
LastOf(es, k) ==
    LET back == Reverse(es) IN FirstPresent([i \in DOMAIN back |-> LastIn(back[i], k)])

\* extract_first_prompt_from_head: what rules a message out is looked for in its text.
AskedInText(e) ==
    IF \E k \in {"isMeta", "isCompactSummary", "toolResult"} : IsInText(e, k)
      THEN <<>> ELSE Asked(e)
FirstPrompt(head) ==
    LET first(kind) == FirstPresent([i \in DOMAIN head |-> Says(AskedInText(head[i]), kind)])
    IN  FirstPresent(<<first("prompt"), first("command")>>)

\* MUTANT of TitleOf: the head comes before the tail.
TitleOfHeadFirst(head, tail) ==
    <<LastOf(head, "customTitle"), LastOf(tail, "customTitle"),
      LastOf(head, "aiTitle"), LastOf(tail, "aiTitle")>>

\* Where a title is looked for: the user's before the one that was made up.
TitleOf(head, tail) ==
    <<LastOf(tail, "customTitle"), LastOf(head, "customTitle"),
      LastOf(tail, "aiTitle"), LastOf(head, "aiTitle")>>

\* A line begins with its type if the CLI put it there, or if no key sorts before it.
BeginsWithType(e) == IsSet(e, "typeFirst") \/ DOMAIN e \subseteq {"type", "uuid"}

\* The last line of the tail that begins as a tag counts, also when it clears the tag.
TagOf(tail) ==
    LET tags == {i \in DOMAIN tail : IsType(tail[i], "tag") /\ BeginsWithType(tail[i])}
    IN  IF tags = {} THEN Absent ELSE NonEmpty(LastIn(tail[Max(tags)], "tag"))

\* The first timestamp in the text of the head.
FirstTimestamp(head) ==
    LET dated(e) == {i \in 1..3 : "timestamp" \in DOMAIN Objects(e)[i]}
        lines == {i \in DOMAIN head : dated(head[i]) # {}}
        first == head[Min(lines)]
    IN  IF lines = {} THEN 0 ELSE Objects(first)[Min(dated(first))].timestamp

\* parse_session_info_from_lite, of a transcript with entries.
LiteInfo(s, es, mtime, project) ==
    LET head == Head64(es)
        tail == Tail64(es)
        title == FirstNonEmpty(TitleOf(head, tail))
        prompt == NonEmpty(FirstPrompt(head))
        summary == FirstNonEmpty(<<title, LastOf(tail, "lastPrompt"),
                                   LastOf(tail, "summary"), prompt>>)
    IN  IF IsInText(es[1], "isSidechain") \/ summary = Absent THEN NoInfo
        ELSE [session |-> s, summary |-> summary, custom_title |-> title,
              first_prompt |-> prompt,
              git_branch |-> FirstNonEmpty(<<LastOf(tail, "gitBranch"),
                                             FirstOf(head, "gitBranch")>>),
              cwd |-> FirstNonEmpty(<<FirstOf(head, "cwd"), project>>),
              tag |-> TagOf(tail), created_at |-> FirstTimestamp(head),
              last_modified |-> mtime]
=============================================================================
