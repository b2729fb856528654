-------------------------------- MODULE Memory --------------------------------
(***************************************************************************)
(* The memory tiers (crates/oracle-automate-memory/src/lib.rs): working    *)
(* memory, a ring of turns per session, and episodic memory, a list of     *)
(* entries with an index of tags.  The list and the index have locks of    *)
(* their own, so that recording and looking up are two steps each.         *)
(*                                                                         *)
(* Operators named Bad... are mutants, plausible bugs of the definition    *)
(* that follows them, and no part of the specification.                    *)
(***************************************************************************)
EXTENDS Integers, Sequences, Functions, SequencesExt

CONSTANTS
  Recorders,    \* threads that record an episode each
  RingCap,      \* entries of a working session (64 in the code)
  Limit         \* the limit of a lookup (8 in assemble)

ASSUME MemoryAssumption == RingCap \in Nat /\ Limit \in Nat

VARIABLES
  working,      \* session -> its entries, the oldest first
  entries,      \* the episodes, in the order they were pushed
  byTag,        \* tag -> indices of entries, in the order they were indexed
  recorder,     \* recorder -> its episode, its step and the index it got
  lookup        \* the lookup in progress, and what it found

episodic == <<entries, byTag, recorder, lookup>>
memory == <<working, episodic>>

Tags == {"gl", "ap"}
Anyone == "anyone"      \* no tenant: of an entry, public; of a lookup, no filter
NoLookup == [step |-> "idle", tag |-> "gl", tenant |-> Anyone, indices |-> <<>>,
             recorded |-> {}, found |-> <<>>]

Recorder(step, e) == [step |-> step, index |-> 0, episode |-> e]
Resting == Recorder("resting", [tags |-> {}, tenant |-> Anyone])   \* nothing to record

\* with_capacity: at least one entry.
Capacity == IF RingCap > 1 THEN RingCap ELSE 1

MemoryInit(episodes) ==
  /\ working = [s \in {} |-> <<>>]
  /\ entries = <<>>
  /\ byTag = [t \in Tags |-> <<>>]
  /\ recorder \in [Recorders -> {Recorder("idle", e) : e \in episodes} \cup {Resting}]
  /\ lookup \in {NoLookup, [NoLookup EXCEPT !.step = "resting"]}

-----------------------------------------------------------------------------
(* Working memory.                                                         *)

SessionOf(s) == IF s \in DOMAIN working THEN working[s] ELSE <<>>

\* A full ring loses its oldest entry.
BadPushed(ring, e) == IF Len(ring) = Capacity THEN Append(Front(ring), e) ELSE Append(ring, e)
Pushed(ring, e) == Append(IF Len(ring) = Capacity THEN Tail(ring) ELSE ring, e)

Appended(s, e) ==
  [k \in DOMAIN working \cup {s} |-> IF k = s THEN Pushed(SessionOf(s), e) ELSE working[k]]

\* recent(): the newest first.
Recent(s, limit) ==
  LET ring == Reverse(SessionOf(s))
  IN  SubSeq(ring, 1, IF Len(ring) < limit THEN Len(ring) ELSE limit)

-----------------------------------------------------------------------------
(* Episodic memory.                                                        *)

\* record(), under the lock of the list: the index is the entry's own.
PushEntry(r) ==
  /\ recorder[r].step = "idle"
  /\ entries' = Append(entries, [by |-> r, tenant |-> recorder[r].episode.tenant])
  /\ recorder' = [recorder EXCEPT ![r].step = "pushed", ![r].index = Len(entries) + 1]
  /\ UNCHANGED <<working, byTag, lookup>>

\* The mutant takes the length again, after the lock of the list was released.
BadIndexOf(r) == Len(entries)
IndexOf(r) == recorder[r].index

\* record(), under the lock of the index.  The tags of an episode are different
\* ones: record() takes a list, and one that names a tag twice would index the
\* entry twice, to be found twice.
IndexEntry(r) ==
  /\ recorder[r].step = "pushed"
  /\ byTag' = [t \in Tags |-> IF t \in recorder[r].episode.tags
                              THEN Append(byTag[t], IndexOf(r)) ELSE byTag[t]]
  /\ recorder' = [recorder EXCEPT ![r].step = "done"]
  /\ UNCHANGED <<working, entries, lookup>>

\* by_tag(), under the lock of the index: the indices are cloned.
ReadIndex(tag, tenant) ==
  /\ lookup.step = "idle"
  /\ lookup' = [step |-> "reading", tag |-> tag, tenant |-> tenant, indices |-> byTag[tag],
                recorded |-> {r \in Recorders : recorder[r].step = "done"}, found |-> <<>>]
  /\ UNCHANGED <<working, entries, byTag, recorder>>

MayRead(tenant, e) == tenant = Anyone \/ e.tenant \in {tenant, Anyone}

\* The newest entries of the tag that the tenant may read, the oldest first:
\* what the n newest indices give, for every n.
Taken(indices, tenant) ==
  LET newest[n \in 0..Len(indices)] ==
        IF n = 0 THEN <<>>
        ELSE LET i == indices[Len(indices) - n + 1]
             IN  IF i \in DOMAIN entries /\ MayRead(tenant, entries[i]) /\ Len(newest[n - 1]) < Limit
                 THEN <<entries[i]>> \o newest[n - 1] ELSE newest[n - 1]
  IN  newest

Selected == Taken(lookup.indices, lookup.tenant)[Len(lookup.indices)]

ReadEntries ==
  /\ lookup.step = "reading"
  /\ lookup' = [lookup EXCEPT !.step = "done", !.found = Selected]
  /\ UNCHANGED <<working, entries, byTag, recorder>>

EpisodicStep ==
  \/ \E r \in Recorders : PushEntry(r) \/ IndexEntry(r)
  \/ \E tag \in Tags, tenant \in {"T1", Anyone} : ReadIndex(tag, tenant)
  \/ ReadEntries

-----------------------------------------------------------------------------

\* A lookup by tag returns every episode that was recorded under the tag
\* before it began and that its tenant may read, unless the limit cut it,
\* each once, and none of another tenant or another tag, though recorders
\* run between the two locks of record() and of by_tag(); for episodes whose
\* tags are different ones.
EpisodesAreFound ==
  lookup.step = "done" =>
    LET Tagged(r) == lookup.tag \in recorder[r].episode.tags
        found     == {e.by : e \in Range(lookup.found)}
    IN  /\ Len(lookup.found) <= Limit
        /\ \A i, j \in DOMAIN lookup.found : i # j => lookup.found[i] # lookup.found[j]
        /\ \A e \in Range(lookup.found) : MayRead(lookup.tenant, e) /\ Tagged(e.by)
        /\ \A r \in lookup.recorded :
             Tagged(r) /\ MayRead(lookup.tenant, recorder[r].episode) /\ Len(lookup.found) < Limit
               => r \in found
=============================================================================
