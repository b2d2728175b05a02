------------------------------ MODULE LfMapRem ------------------------------
(***************************************************************************)
(* The lock-free table whose removes work on the map alone                 *)
(* (src/clht_lf_only_map_rem.c).  Its puts and searches are those of       *)
(* src/clht_lf.c, so of LfBucket, with a fourth state of a slot: a remove  *)
(* first marks the slot REMOV, which keeps its version and its visibility, *)
(* then looks at the key again, and frees the slot or takes the mark back. *)
(***************************************************************************)
EXTENDS Integers, FiniteSets

CONSTANTS Threads, Keys, NoKey, Entries, VersionMod, MaxPuts, DistinctVals

VARIABLES word, key, val, call, pc, snap, slot, idx, cur, puts, ret, seen,
          met    \* history: a remove came to a slot that another had marked

B == INSTANCE LfBucket

REMOV == "removing"
Visible == {B!VALID, REMOV}   \* map[i] >= MAP_VALID

shared == <<word, key, val>>
locals == <<snap, slot, idx, cur>>
vars == <<shared, call, pc, locals, puts, ret, seen, met>>
Marking == {"rem_check", "rem_take", "rem_free", "rem_undo"}
Labels == (B!Labels \ {"rem_cas"}) \cup Marking
            \cup {"rem_map", "rem_again", "rem_mark"}
MapState == B!MapState \cup {REMOV}

Init == B!Init /\ met = [t \in Threads |-> FALSE]

TypeOK ==
  /\ word.version \in 0 .. VersionMod - 1
  /\ word.map \in [B!Slots -> MapState]
  /\ \A t \in Threads : snap[t].map \in [B!Slots -> MapState]
  /\ pc \in [Threads -> Labels]
  /\ val \in [B!Slots -> B!Vals \cup {B!NoVal}]
  /\ met \in [Threads -> BOOLEAN]

Entry(k) == {i \in B!Slots : word.map[i] \in Visible /\ key[i] = k}
Store == [k \in Keys |-> IF Entry(k) = {} THEN B!NoVal
                         ELSE val[CHOOSE i \in Entry(k) : TRUE]]

(* clht_size: a slot that is being removed counts no more.                 *)
Size == Cardinality({i \in B!Slots : key[i] # NoKey /\ word.map[i] = B!VALID})

Observe ==
  seen' = [t \in Threads |-> IF call'[t] = B!Idle THEN {}
                             ELSE seen[t] \cup {Store'[call'[t].key]}]

-----------------------------------------------------------------------------
(* clht_get, clht_put and clht_bucket_search, as in clht_lf.c but for the  *)
(* test of the map.                                                        *)

Get(t) == B!Get(t) /\ UNCHANGED met
Put(t) == B!Put(t) /\ UNCHANGED met
ReadSnapshot(t) == B!ReadSnapshot(t) /\ UNCHANGED met

SearchVal(t) == B!SearchVal(t) /\ UNCHANGED met

(* Mutant of SearchMap: an entry being removed is passed over.             *)
SearchMapValid(t) == B!SearchMap(t) /\ UNCHANGED met
SearchMap(t) ==
  /\ B!At(t, "search_map")
  /\ IF word.map[idx[t]] \in Visible THEN B!Continue(t, "search_key")
                                     ELSE B!SearchNext(t)
  /\ UNCHANGED <<shared, puts, met>>

SearchKey(t) == B!SearchKey(t) /\ UNCHANGED met
SearchAgain(t) == B!SearchAgain(t) /\ UNCHANGED met

Claim(t) == B!Claim(t) /\ UNCHANGED met
WriteVal(t) == B!WriteVal(t) /\ UNCHANGED met
WriteKey(t) == B!WriteKey(t) /\ UNCHANGED met
Commit(t) == B!Commit(t) /\ UNCHANGED met
Release(t) == B!Release(t) /\ UNCHANGED met

-----------------------------------------------------------------------------
(* clht_remove.                                                            *)

Remove(t) ==
  /\ B!At(t, "idle")
  /\ \E k \in Keys :
       call' = [call EXCEPT ![t] = [op |-> "remove", key |-> k, val |-> B!NoVal]]
  /\ B!Goto(t, "rem_val")
  /\ met' = [met EXCEPT ![t] = FALSE]
  /\ ret' = [ret EXCEPT ![t] = 0]
  /\ UNCHANGED <<shared, locals, puts>>

RemoveNext(t) ==
  IF idx[t] = Entries
  THEN B!Return(t, 0)
  ELSE /\ idx' = [idx EXCEPT ![t] = idx[t] + 1]
       /\ B!Goto(t, "rem_val")
       /\ UNCHANGED <<call, ret, snap, slot, cur>>

RemoveVal(t) ==
  /\ B!At(t, "rem_val")
  /\ cur' = [cur EXCEPT ![t] = val[idx[t]]]
  /\ B!Goto(t, "rem_map")
  /\ UNCHANGED <<shared, call, snap, slot, idx, puts, ret, met>>

(* The answer of t will not say that it came to a mark.                    *)
Meets(t) == met' = [met EXCEPT ![t] = @ \/ word.map[idx[t]] = REMOV]

RemoveMap(t) ==
  /\ B!At(t, "rem_map")
  /\ IF word.map[idx[t]] = B!VALID THEN B!Continue(t, "rem_key")
                                   ELSE RemoveNext(t)
  /\ Meets(t)
  /\ UNCHANGED <<shared, puts>>

RemoveKey(t) ==
  /\ B!At(t, "rem_key")
  /\ IF key[idx[t]] = call[t].key THEN B!Continue(t, "rem_again")
                                  ELSE RemoveNext(t)
  /\ UNCHANGED <<shared, puts, met>>

RemoveAgain(t) ==
  /\ B!At(t, "rem_again")
  /\ IF val[idx[t]] = cur[t] THEN B!Continue(t, "rem_mark")
                             ELSE RemoveNext(t)
  /\ UNCHANGED <<shared, puts, met>>

SetMapByte(i, m) == word' = [word EXCEPT !.map[i] = m]

(* Mutant of RemoveMark: a plain store in place of the compare-and-swap.   *)
RemoveMarkStores(t) ==
  /\ B!At(t, "rem_mark")
  /\ SetMapByte(idx[t], REMOV) /\ B!Continue(t, "rem_check")
  /\ UNCHANGED <<key, val, puts, met>>
RemoveMark(t) ==
  /\ B!At(t, "rem_mark")
  /\ IF word.map[idx[t]] = B!VALID
     THEN SetMapByte(idx[t], REMOV) /\ B!Continue(t, "rem_check")
     ELSE B!Return(t, 0) /\ UNCHANGED word
  /\ Meets(t)
  /\ UNCHANGED <<key, val, puts>>

(* The slot may have been removed and filled again before the mark.        *)
RemoveCheck(t) ==
  /\ B!At(t, "rem_check")
  /\ B!Continue(t, IF key[idx[t]] = call[t].key THEN "rem_take" ELSE "rem_undo")
  /\ UNCHANGED <<shared, puts, met>>

RemoveTake(t) ==
  /\ B!At(t, "rem_take")
  /\ cur' = [cur EXCEPT ![t] = val[idx[t]]]
  /\ B!Goto(t, "rem_free")
  /\ UNCHANGED <<shared, call, snap, slot, idx, puts, ret, met>>

RemoveFree(t) ==
  /\ B!At(t, "rem_free")
  /\ SetMapByte(idx[t], B!INVLD) /\ B!Return(t, cur[t])
  /\ UNCHANGED <<key, val, puts, met>>

RemoveUndo(t) ==
  /\ B!At(t, "rem_undo")
  /\ SetMapByte(idx[t], B!VALID) /\ B!Return(t, 0)
  /\ UNCHANGED <<key, val, puts, met>>

Work(t) ==
  \/ ReadSnapshot(t)
  \/ SearchVal(t) \/ SearchMap(t) \/ SearchKey(t) \/ SearchAgain(t)
  \/ Claim(t) \/ WriteVal(t) \/ WriteKey(t) \/ Commit(t) \/ Release(t)
  \/ RemoveVal(t) \/ RemoveMap(t) \/ RemoveKey(t) \/ RemoveAgain(t)
  \/ RemoveMark(t) \/ RemoveCheck(t) \/ RemoveTake(t) \/ RemoveFree(t)
  \/ RemoveUndo(t)

Next ==
  /\ \E t \in Threads : Get(t) \/ Put(t) \/ Remove(t) \/ Work(t)
  /\ Observe

Spec == Init /\ [][Next]_vars
-----------------------------------------------------------------------------
(* A marked slot belongs to exactly one remove, which alone may free it or *)
(* take the mark back, and no remove that has returned leaves a mark.      *)
MarksHeld ==
  \A i \in B!Slots :
    LET holders == {t \in Threads : pc[t] \in Marking /\ idx[t] = i}
    IN  Cardinality(holders) = (IF word.map[i] = REMOV THEN 1 ELSE 0)

(* A remove takes a marked slot for an absent key, whatever comes of the   *)
(* mark: it may answer 0 while gets find the key.                          *)
Map == INSTANCE ClhtMap WITH store <- Store, Vals <- B!Vals
MissesMarked(t) ==
  /\ call[t].op = "remove" /\ met'[t]
  /\ Map!Return(t, 0) /\ Store' = Store /\ Map!Observe

(* Every other call takes effect at one moment.                            *)
MapStep == Map!Next \/ \E t \in Threads : MissesMarked(t)
ImplementsMapUnlessMarked == Map!Init /\ [][MapStep]_(Map!vars)
=============================================================================
