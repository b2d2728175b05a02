--------------------------- MODULE LbNoNextProofs ---------------------------
(***************************************************************************)
(* Proofs about LbNoNext: the list of its tables while they are resized,   *)
(* with a helper or without, for any number of threads, tables and keys.   *)
(***************************************************************************)
EXTENDS LbNoNext, NatFacts, SequenceTheorems, TLAPS

-----------------------------------------------------------------------------
(* The inductive invariant.                                                *)

HasNew(T) == "new" \in DOMAIN T
(* A sequence of records with a field new.                                 *)
Listed(s) ==
  /\ s \in Seq({s[v] : v \in DOMAIN s})
  /\ \A v \in DOMAIN s : HasNew(s[v])

(* The thread that has status_lock, from ht_status to the end of the       *)
(* resize.                                                                 *)
Owners == {"ht_old", "resize_lock", "copy", "table_new", "status_unlock"}
Owner(t) == pc[t] \in Owners
Copying == \E t \in Threads : At(t, "copy")

OneOwner ==
  /\ \A t \in Threads : Owner(t) => status_lock
  /\ \A t, u \in Threads : Owner(t) /\ Owner(u) => t = u

(* A table more than the current one exists only while somebody copies.    *)
ListInv ==
  /\ Listed(tables) /\ ht \in 1 .. Len(tables)
  /\ Len(tables) = IF Copying THEN ht + 1 ELSE ht
  /\ \A v \in 1 .. Len(tables) : tables[v].new # Null => tables[v].new = v + 1

(* What the resizer has read of h->ht is not outdated until it swaps.      *)
OldTable(t) ==
  /\ At(t, "resize_lock") \/ At(t, "copy") => tab[t] = ht
  /\ At(t, "table_new") => tab[t] = ht - 1

Local == DOMAIN pc = Threads /\ DOMAIN tab = Threads

IInv == Local /\ OneOwner /\ ListInv /\ \A t \in Threads : OldTable(t)

-----------------------------------------------------------------------------
(* Lists of tables.                                                        *)

LEMMA ListedFacts ==
  ASSUME NEW s, Listed(s)
  PROVE  /\ Len(s) \in Nat /\ DOMAIN s = 1 .. Len(s)
         /\ \A v \in 1 .. Len(s) : HasNew(s[v])
<1> DEFINE S == {s[v] : v \in DOMAIN s}
<1>1. s \in Seq(S)
  BY DEF Listed
<1> HIDE DEF S
<1>2. Len(s) \in Nat /\ DOMAIN s = 1 .. Len(s)
  BY <1>1, LenProperties
<1> QED BY <1>2 DEF Listed

(* As many tables as before, each with a field new.                        *)
LEMMA ListSame ==
  ASSUME NEW s, Listed(s), NEW r, r = [v \in DOMAIN s |-> r[v]],
         \A v \in 1 .. Len(s) : HasNew(r[v])
  PROVE  Listed(r) /\ Len(r) = Len(s)
<1> DEFINE R == {r[v] : v \in DOMAIN r}
<1>1. Len(s) \in Nat /\ DOMAIN s = 1 .. Len(s)
  BY ListedFacts
<1>2. DOMAIN r = 1 .. Len(s) /\ r \in [1 .. Len(s) -> R]
  BY <1>1
<1>3. \A v \in DOMAIN r : HasNew(r[v])
  BY <1>2
<1> HIDE DEF R
<1>4. r \in Seq(R)
  BY <1>1, <1>2, SeqDef
<1>5. Len(r) \in Nat /\ DOMAIN r = 1 .. Len(r)
  BY <1>4, LenProperties
<1>6. Len(r) = Len(s)
  BY <1>1, <1>2, <1>5
<1> QED BY <1>3, <1>4, <1>6 DEF Listed, R

LEMMA ListAppend ==
  ASSUME NEW s, Listed(s), NEW T, HasNew(T)
  PROVE  /\ Listed(Append(s, T))
         /\ Len(Append(s, T)) = Len(s) + 1
         /\ \A v \in 1 .. Len(s) : Append(s, T)[v] = s[v]
         /\ Append(s, T)[Len(s) + 1] = T
<1> DEFINE r == Append(s, T)
           S == {s[v] : v \in DOMAIN s} \cup {T}
           R == {r[v] : v \in DOMAIN r}
<1>1. /\ Len(s) \in Nat /\ DOMAIN s = 1 .. Len(s)
      /\ \A v \in 1 .. Len(s) : HasNew(s[v])
  BY ListedFacts
<1>2. s \in Seq(S)
  <2>1. s \in Seq({s[v] : v \in DOMAIN s})
    BY DEF Listed
  <2> QED BY <2>1, SeqMonotonic
<1>3. T \in S
  OBVIOUS
<1> HIDE DEF S
<1>4. /\ r \in Seq(S) /\ Len(r) = Len(s) + 1
      /\ \A v \in 1 .. Len(s) : r[v] = s[v]
      /\ r[Len(s) + 1] = T
  BY <1>2, <1>3, AppendProperties
<1> HIDE DEF r
<1>5. /\ Len(r) \in Nat /\ DOMAIN r = 1 .. Len(r)
      /\ r \in [1 .. Len(r) -> S]
  BY <1>4, LenProperties
<1>6. r \in [1 .. Len(r) -> R]
  BY <1>5
<1>7. r \in Seq(R)
  <2> HIDE DEF R
  <2> QED BY <1>5, <1>6, SeqDef
<1>8. \A v \in DOMAIN r : HasNew(r[v])
  <2> SUFFICES ASSUME NEW v \in 1 .. Len(s) + 1 PROVE HasNew(r[v])
    BY <1>4, <1>5
  <2>1. v \in 1 .. Len(s) \/ v = Len(s) + 1
    BY <1>1
  <2> QED BY <1>1, <1>4, <2>1
<1>9. Listed(r)
  BY <1>7, <1>8 DEF Listed
<1> QED BY <1>4, <1>9 DEF r

-----------------------------------------------------------------------------
(* What the operators on tables leave as it is.                            *)

Keeps(U, T) == HasNew(U) /\ U.new = T.new

LEMMA SetterKeeps ==
  ASSUME NEW T, HasNew(T)
  PROVE  /\ \A e : Keeps([T EXCEPT !.cells = e], T)
         /\ \A e : Keeps([T EXCEPT !.locks = e], T)
         /\ \A e, f : Keeps([T EXCEPT !.hops = e, !.expands = f], T)
         /\ \A e : Keeps([T EXCEPT !.prev = e], T)
         /\ \A e : Keeps([T EXCEPT !.before = e], T)
BY DEF Keeps, HasNew

LEMMA KeepsTwice ==
  ASSUME NEW T, NEW U, NEW W, Keeps(U, T), Keeps(W, U)
  PROVE  Keeps(W, T)
BY DEF Keeps

LEMMA SetKeeps ==
  ASSUME NEW T, HasNew(T), NEW p, NEW x, NEW l
  PROVE  /\ Keeps(SetKey(T, p, x), T)
         /\ Keeps(SetVal(T, p, x), T)
         /\ Keeps(SetLocks(T, p, l), T)
BY DEF Keeps, HasNew, SetKey, SetVal, SetLocks

LEMMA PutSeqKeeps ==
  ASSUME NEW T, HasNew(T), NEW c
  PROVE  Keeps(PutSeq(T, c), T)
<1> DEFINE b == c.key % T.num
           p == First(RoomFor(T, c.key))
           far == Max({T.hops[b], p[1] - b})
           U == SetVal(T, p, c.val)
           W == SetKey(U, p, c.key)
<1>1. PutSeq(T, c) = [W EXCEPT !.hops[b] = far, !.expands = @ + far - T.hops[b]]
  BY DEF PutSeq
<1>2. Keeps(U, T) /\ HasNew(U)
  BY SetKeeps DEF Keeps
<1> HIDE DEF U
<1>3. Keeps(W, U) /\ HasNew(W)
  BY <1>2, SetKeeps DEF Keeps
<1> HIDE DEF W, far, p, b
<1>4. Keeps([W EXCEPT !.hops[b] = far, !.expands = @ + far - T.hops[b]], W)
  BY <1>3 DEF Keeps, HasNew
<1> QED BY <1>1, <1>2, <1>3, <1>4, KeepsTwice

LEMMA EntryCpyKeeps ==
  ASSUME NEW T, HasNew(T), NEW c
  PROVE  Keeps(EntryCpy(T, c), T)
<1>1. Keeps(T, T)
  BY DEF Keeps
<1> QED BY <1>1, PutSeqKeeps DEF EntryCpy

(* copied of BucketCpy exists: entry by entry there is one more to copy.   *)
CopiedTo(T, bucket, n, f) ==
  f = [j \in 0 .. n |-> IF j = 0 THEN T ELSE EntryCpy(f[j - 1], bucket[j])]

LEMMA CopiedExists ==
  ASSUME NEW T, NEW bucket, NEW n \in Nat
  PROVE  \E f : CopiedTo(T, bucket, n, f)
<1> DEFINE S == {m \in Nat : \E f : CopiedTo(T, bucket, m, f)}
<1>1. 0 \in S
  <2>1. CopiedTo(T, bucket, 0, [j \in 0 .. 0 |-> T])
    BY DEF CopiedTo
  <2> QED BY <2>1
<1>2. ASSUME NEW m \in 0 .. n - 1, m \in S PROVE m + 1 \in S
  <2>1. PICK f : CopiedTo(T, bucket, m, f)
    BY <1>2
  <2> DEFINE last == EntryCpy(f[m], bucket[m + 1])
             g == [j \in 0 .. m + 1 |-> IF j = m + 1 THEN last ELSE f[j]]
  <2>2. ASSUME NEW j \in 0 .. m + 1
        PROVE  g[j] = IF j = 0 THEN T ELSE EntryCpy(g[j - 1], bucket[j])
    <3>1. CASE j = m + 1
      <4>1. j - 1 = m /\ g[j - 1] = f[m] /\ g[j] = last /\ j # 0
        BY <3>1
      <4> QED BY <3>1, <4>1
    <3>2. CASE j # m + 1
      <4>1. j \in 0 .. m /\ g[j] = f[j]
        BY <3>2
      <4>2. f[j] = IF j = 0 THEN T ELSE EntryCpy(f[j - 1], bucket[j])
        BY <2>1, <4>1 DEF CopiedTo
      <4>3. j # 0 => g[j - 1] = f[j - 1]
        BY <4>1
      <4> HIDE DEF g
      <4> QED BY <4>1, <4>2, <4>3
    <3> QED BY <3>1, <3>2
  <2>3. g = [j \in 0 .. m + 1 |-> g[j]]
    OBVIOUS
  <2> HIDE DEF g
  <2>4. CopiedTo(T, bucket, m + 1, g)
    BY <2>2, <2>3 DEF CopiedTo
  <2> QED BY <2>4
<1> HIDE DEF S
<1>3. 0 .. n \subseteq S
  BY <1>1, <1>2, SetInduction
<1>4. n \in S
  BY <1>3
<1> QED BY <1>4 DEF S

LEMMA BucketCpyKeeps ==
  ASSUME NEW T, HasNew(T), NEW bucket
  PROVE  Keeps(BucketCpy(T, bucket), T)
<1> DEFINE copied == CHOOSE f : CopiedTo(T, bucket, Entries, f)
<1>1. Entries \in Nat
  BY TablesAssumption
<1>2. CopiedTo(T, bucket, Entries, copied)
  BY <1>1, CopiedExists
<1>3. BucketCpy(T, bucket) = copied[Entries]
  BY Zenon DEF BucketCpy, CopiedTo
<1> HIDE DEF copied
<1> DEFINE S == {j \in 0 .. Entries : Keeps(copied[j], T)}
<1>4. 0 \in S
  <2>1. copied[0] = T
    BY <1>1, <1>2 DEF CopiedTo
  <2> QED BY <1>1, <2>1 DEF Keeps
<1>5. ASSUME NEW j \in 0 .. Entries - 1, j \in S PROVE j + 1 \in S
  <2>1. j + 1 \in 0 .. Entries /\ (j + 1) - 1 = j /\ j + 1 # 0
    BY <1>1
  <2>2. copied[j + 1] = EntryCpy(copied[j], bucket[j + 1])
    BY <1>2, <2>1 DEF CopiedTo
  <2>3. Keeps(copied[j], T) /\ HasNew(copied[j])
    BY <1>5 DEF Keeps
  <2>4. Keeps(copied[j + 1], T)
    BY <2>2, <2>3, EntryCpyKeeps, KeepsTwice
  <2> QED BY <2>1, <2>4
<1> HIDE DEF S
<1>6. 0 .. Entries \subseteq S
  BY <1>1, <1>4, <1>5, SetInduction
<1>7. Entries \in S
  BY <1>1, <1>6
<1> QED BY <1>3, <1>7 DEF S

-----------------------------------------------------------------------------
(* What the steps of one thread leave as it is.                            *)

SameList ==
  /\ Listed(tables') /\ Len(tables') = Len(tables)
  /\ \A v \in 1 .. Len(tables) : tables'[v].new = tables[v].new
Others(t) ==
  /\ DOMAIN pc' = Threads /\ DOMAIN tab' = Threads
  /\ \A u \in Threads \ {t} : pc'[u] = pc[u] /\ tab'[u] = tab[u]

LEMMA TablesKeep ==
  ASSUME Listed(tables), tables' = [v \in DOMAIN tables |-> tables'[v]],
         \A v \in 1 .. Len(tables) : Keeps(tables'[v], tables[v])
  PROVE  SameList
<1>1. \A v \in 1 .. Len(tables) : HasNew(tables'[v])
  BY DEF Keeps
<1>2. Listed(tables') /\ Len(tables') = Len(tables)
  BY <1>1, ListSame
<1> QED BY <1>2 DEF SameList, Keeps

LEMMA TwoKeep ==
  ASSUME Listed(tables), NEW i, NEW j, NEW U, NEW W,
         tables' = [tables EXCEPT ![i] = U, ![j] = W],
         i \in 1 .. Len(tables) => Keeps(U, tables[i]),
         j \in 1 .. Len(tables) => Keeps(W, tables[j])
  PROVE  SameList
<1>1. /\ DOMAIN tables = 1 .. Len(tables)
      /\ \A v \in 1 .. Len(tables) : Keeps(tables[v], tables[v])
  BY ListedFacts DEF Keeps
<1>2. /\ DOMAIN tables' = DOMAIN tables
      /\ tables' = [v \in DOMAIN tables |-> tables'[v]]
      /\ \A v \in DOMAIN tables :
           tables'[v] = IF v = j THEN W ELSE IF v = i THEN U ELSE tables[v]
  OBVIOUS
<1>3. \A v \in 1 .. Len(tables) : Keeps(tables'[v], tables[v])
  BY <1>1, <1>2
<1> QED BY <1>2, <1>3, TablesKeep

LEMMA SetTableKeeps ==
  ASSUME Listed(tables), NEW i, NEW U, SetTable(i, U),
         i \in 1 .. Len(tables) => Keeps(U, tables[i])
  PROVE  SameList
<1>1. /\ DOMAIN tables = 1 .. Len(tables)
      /\ \A v \in 1 .. Len(tables) : Keeps(tables[v], tables[v])
  BY ListedFacts DEF Keeps
<1>2. /\ DOMAIN tables' = DOMAIN tables
      /\ tables' = [v \in DOMAIN tables |-> tables'[v]]
      /\ \A v \in DOMAIN tables : tables'[v] = IF v = i THEN U ELSE tables[v]
  BY DEF SetTable
<1>3. \A v \in 1 .. Len(tables) : Keeps(tables'[v], tables[v])
  BY <1>1, <1>2
<1> QED BY <1>2, <1>3, TablesKeep

LEMMA UnchangedKeeps ==
  ASSUME Listed(tables), UNCHANGED tables
  PROVE  SameList
BY DEF SameList

LEMMA GotoOthers ==
  ASSUME Local, NEW t \in Threads, NEW l, Goto(t, l),
         (\E v : SetTab(t, v)) \/ UNCHANGED tab
  PROVE  Others(t) /\ pc'[t] = l
BY DEF Local, Others, Goto, SetTab

LEMMA StayOthers ==
  ASSUME Local, NEW t \in Threads, UNCHANGED <<pc, tab>>
  PROVE  Others(t) /\ pc'[t] = pc[t]
BY DEF Local, Others

(* status_lock passes from one owner to the next.                          *)
LEMMA OwnersKept ==
  ASSUME IInv, NEW t \in Threads, Others(t),
         pc'[t] \in Owners => status_lock' /\ (Owner(t) \/ ~status_lock),
         status_lock => status_lock' \/ Owner(t)
  PROVE  Local' /\ OneOwner'
<1>1. Local'
  BY DEF Others, Local
<1>2. ASSUME NEW u \in Threads, Owner(u)' PROVE status_lock'
  <2>1. CASE u = t
    BY <1>2, <2>1 DEF Owner
  <2>2. CASE u # t
    <3>1. Owner(u)
      BY <1>2, <2>2 DEF Others, Owner
    <3> QED BY <2>2, <3>1 DEF IInv, OneOwner
  <2> QED BY <2>1, <2>2
<1>3. ASSUME NEW u \in Threads, Owner(u)', u # t PROVE ~Owner(t)'
  <2>1. Owner(u)
    BY <1>3 DEF Others, Owner
  <2>2. status_lock /\ ~Owner(t)
    BY <1>3, <2>1 DEF IInv, OneOwner
  <2> QED BY <2>2 DEF Owner
<1>4. ASSUME NEW u \in Threads, NEW w \in Threads, Owner(u)', Owner(w)'
      PROVE  u = w
  <2>1. CASE u = t \/ w = t
    BY <1>3, <1>4, <2>1
  <2>2. CASE u # t /\ w # t
    <3>1. Owner(u) /\ Owner(w)
      BY <1>4, <2>2 DEF Others, Owner
    <3> QED BY <3>1 DEF IInv, OneOwner
  <2> QED BY <2>1, <2>2
<1> QED BY <1>1, <1>2, <1>4 DEF OneOwner

(* The current table stays, and so does what the resizer knows.            *)
LEMMA ListKept ==
  ASSUME IInv, NEW t \in Threads, Others(t), SameList, ht' = ht,
         pc'[t] = "copy" <=> At(t, "copy"), OldTable(t)'
  PROVE  ListInv' /\ \A u \in Threads : OldTable(u)'
<1>1. ASSUME NEW u \in Threads PROVE At(u, "copy")' <=> At(u, "copy")
  BY DEF Others, At
<1>2. Copying' <=> Copying
  BY <1>1 DEF Copying
<1>3. Len(tables') = IF Copying' THEN ht' + 1 ELSE ht'
  BY <1>2 DEF SameList, IInv, ListInv
<1>4. \A v \in 1 .. Len(tables') : tables'[v].new # Null => tables'[v].new = v + 1
  BY DEF SameList, IInv, ListInv
<1>5. ListInv'
  BY <1>3, <1>4 DEF SameList, IInv, ListInv
<1>6. ASSUME NEW u \in Threads, u # t PROVE OldTable(u)'
  BY <1>6 DEF Others, IInv, OldTable, At
<1> QED BY <1>5, <1>6

(* A step of a thread that has not got status_lock.                        *)
Outside(t) ==
  /\ ~Owner(t) /\ pc'[t] \notin Owners
  /\ Others(t) /\ SameList /\ UNCHANGED <<ht, status_lock>>

LEMMA OutsideInv ==
  ASSUME IInv, NEW t \in Threads, Outside(t)
  PROVE  IInv'
<1>1. Others(t) /\ SameList /\ ht' = ht /\ status_lock' = status_lock
      /\ pc'[t] \notin Owners /\ ~Owner(t)
  BY DEF Outside
<1>2. Local' /\ OneOwner'
  BY <1>1, OwnersKept
<1>3. (pc'[t] = "copy" <=> At(t, "copy")) /\ OldTable(t)'
  BY <1>1 DEF Owner, Owners, At, OldTable
<1>4. ListInv' /\ \A u \in Threads : OldTable(u)'
  BY <1>1, <1>3, ListKept
<1> QED BY <1>2, <1>4 DEF IInv

-----------------------------------------------------------------------------
(* The calls, the searches and the updates.                                *)

LEMMA InvParts ==
  ASSUME IInv
  PROVE  /\ Local /\ OneOwner /\ ListInv /\ Listed(tables)
         /\ Len(tables) \in Nat /\ DOMAIN tables = 1 .. Len(tables)
         /\ \A v \in 1 .. Len(tables) : HasNew(tables[v])
         /\ ht \in 1 .. Len(tables) /\ ht \in Nat
<1>1. Local /\ OneOwner /\ ListInv /\ Listed(tables) /\ ht \in 1 .. Len(tables)
  BY DEF IInv, ListInv
<1>2. /\ Len(tables) \in Nat /\ DOMAIN tables = 1 .. Len(tables)
      /\ \A v \in 1 .. Len(tables) : HasNew(tables[v])
  BY <1>1, ListedFacts
<1> QED BY <1>1, <1>2

LEMMA CallInv ==
  ASSUME IInv, NEW t \in Threads, Call(t) \/ Again(t)
  PROVE  IInv'
<1>1. PICK l \in {"get_val", "exists"} : Goto(t, l) /\ \E v : SetTab(t, v)
  <2>1. CASE Again(t)
    BY <2>1 DEF Again, Enter
  <2>2. CASE Call(t)
    <3>1. \E c : \E l \in {"get_val", "exists"} : Begin(t, c, l)
      BY <2>2, Zenon DEF Call, Get, Put, Remove
    <3> QED BY <3>1 DEF Begin, Enter
  <2> QED BY <2>1, <2>2
<1>2. At(t, "idle") \/ At(t, "again")
  BY DEF Call, Get, Put, Remove, Begin, Again
<1>3. UNCHANGED heap
  BY DEF Call, Get, Put, Remove, Begin, Again
<1>4. Others(t) /\ pc'[t] = l
  BY <1>1, InvParts, GotoOthers
<1>5. SameList
  BY <1>3, InvParts, UnchangedKeeps DEF heap
<1>6. Outside(t)
  BY <1>1, <1>2, <1>3, <1>4, <1>5 DEF Outside, Owner, Owners, At, heap
<1> QED BY <1>6, OutsideInv

(* What a call does that ends or goes on.                                  *)
LEMMA DecideOthers ==
  ASSUME Local, NEW t \in Threads, NEW r, Return(t, r)
  PROVE  Others(t) /\ pc'[t] = "idle"
<1>1. Goto(t, "idle") /\ SetTab(t, Null)
  BY DEF Return, Decide
<1> QED BY <1>1, GotoOthers

LEMMA SearchInv ==
  ASSUME IInv, NEW t \in Threads,
         GetVal(t) \/ GetKey(t) \/ GetAgain(t) \/ ExistsUpdate(t)
  PROVE  IInv'
<1>1. UNCHANGED heap
  BY DEF GetVal, GetKey, GetAgain, ExistsUpdate, Exists
<1>2. pc[t] \in {"get_val", "get_key", "get_again", "exists"}
  BY DEF GetVal, GetKey, GetAgain, ExistsUpdate, Exists, At
<1>3. \/ \E r : Return(t, r)
      \/ \E l \in {"get_val", "get_key", "get_again", "lock"} :
           Goto(t, l) /\ UNCHANGED tab
      \/ UNCHANGED <<pc, tab>>
  <2>1. CASE GetVal(t)
    BY <2>1 DEF GetVal
  <2>2. CASE GetKey(t)
    BY <2>2 DEF GetKey
  <2>3. CASE GetAgain(t)
    BY <2>3 DEF GetAgain
  <2>4. CASE ExistsUpdate(t)
    BY <2>4 DEF ExistsUpdate, Exists
  <2> QED BY <2>1, <2>2, <2>3, <2>4
<1>4. Others(t) /\ pc'[t] \in {"idle", "get_val", "get_key", "get_again", "lock", "exists"}
  <2>1. CASE \E r : Return(t, r)
    BY <2>1, InvParts, DecideOthers
  <2>2. CASE \E l \in {"get_val", "get_key", "get_again", "lock"} :
               Goto(t, l) /\ UNCHANGED tab
    BY <2>2, InvParts, GotoOthers
  <2>3. CASE UNCHANGED <<pc, tab>>
    <3>1. Others(t) /\ pc'[t] = pc[t]
      BY <2>3, InvParts, StayOthers
    <3>2. pc[t] # "get_again" => pc[t] \in {"idle", "get_val", "get_key", "lock", "exists"}
      BY <1>2
    <3> QED BY <3>1, <3>2
  <2> QED BY <1>3, <2>1, <2>2, <2>3
<1>5. SameList
  BY <1>1, InvParts, UnchangedKeeps DEF heap
<1>6. Outside(t)
  BY <1>1, <1>2, <1>4, <1>5 DEF Outside, Owner, Owners, heap
<1> QED BY <1>6, OutsideInv

LEMMA WaitInv ==
  ASSUME IInv, NEW t \in Threads, LockTaken(t) \/ TableWait(t) \/ Help(t)
  PROVE  IInv'
<1>1. UNCHANGED heap /\ pc[t] \in {"lock", "table_wait", "help"}
  BY DEF LockTaken, CanLock, TableWait, Help, At
<1>2. \E l \in {"help", "table_wait", "lock", "help_lock"} :
        Goto(t, l) /\ ((\E v : SetTab(t, v)) \/ UNCHANGED tab)
  <2>1. CASE LockTaken(t)
    BY <2>1 DEF LockTaken
  <2>2. CASE TableWait(t)
    BY <2>2 DEF TableWait
  <2>3. CASE Help(t)
    BY <2>3 DEF Help
  <2> QED BY <2>1, <2>2, <2>3
<1>3. Others(t) /\ pc'[t] \in {"help", "table_wait", "lock", "help_lock"}
  BY <1>2, InvParts, GotoOthers
<1>4. SameList
  BY <1>1, InvParts, UnchangedKeeps DEF heap
<1>5. Outside(t)
  BY <1>1, <1>3, <1>4 DEF Outside, Owner, Owners, heap
<1> QED BY <1>5, OutsideInv

(* The helper works on buckets only, whatever table is the newest.         *)
LEMMA HelpInv ==
  ASSUME IInv, NEW t \in Threads, HelpLock(t) \/ HelpCopy(t)
  PROVE  IInv'
<1>1. UNCHANGED <<ht, status_lock>> /\ pc[t] \in {"help_lock", "help_copy"}
  BY DEF HelpLock, HelpCopy, At
<1>2. /\ \E l \in {"table_wait", "help_copy", "help_lock"} : Goto(t, l)
      /\ UNCHANGED tab
  BY DEF HelpLock, HelpCopy
<1>3. Others(t) /\ pc'[t] \in {"table_wait", "help_copy", "help_lock"}
  BY <1>2, InvParts, GotoOthers
<1>4. SameList
  <2>1. CASE HelpLock(t)
    <3>1. \/ UNCHANGED tables
          \/ \E B : SetTable(tab[t], SetLocks(tables[tab[t]], B, "resize"))
      BY <2>1 DEF HelpLock
    <3> QED BY <3>1, InvParts, UnchangedKeeps, SetTableKeeps, SetKeeps
  <2>2. CASE HelpCopy(t)
    <3>1. \E c : SetTable(New, BucketCpy(tables[New], c))
      BY <2>2 DEF HelpCopy
    <3> QED BY <3>1, InvParts, SetTableKeeps, BucketCpyKeeps
  <2> QED BY <2>1, <2>2
<1>5. Outside(t)
  BY <1>1, <1>3, <1>4 DEF Outside, Owner, Owners
<1> QED BY <1>5, OutsideInv

LEMMA UpdateInv ==
  ASSUME IInv, NEW t \in Threads, PutLocked(t) \/ WriteKey(t) \/ RemoveLocked(t)
  PROVE  IInv'
<1>1. UNCHANGED <<ht, status_lock>> /\ pc[t] \in {"lock", "write_key"}
  BY DEF PutLocked, WriteKey, RemoveLocked, CanLock, At, heap
<1>2. \/ \E r : Return(t, r)
      \/ \E l \in {"status", "write_key"} : Goto(t, l) /\ UNCHANGED tab
  <2>1. CASE PutLocked(t)
    BY <2>1 DEF PutLocked
  <2>2. CASE WriteKey(t)
    BY <2>2 DEF WriteKey
  <2>3. CASE RemoveLocked(t)
    BY <2>3 DEF RemoveLocked
  <2> QED BY <2>1, <2>2, <2>3
<1>3. Others(t) /\ pc'[t] \in {"idle", "status", "write_key"}
  BY <1>2, InvParts, GotoOthers, DecideOthers
<1>4. SameList
  <2>1. \/ UNCHANGED tables
        \/ \E B, l, p, x :
             SetTable(tab[t], SetVal(SetLocks(tables[tab[t]], B, l), p, x))
        \/ \E B, l, p, x :
             SetTable(tab[t], SetKey(SetLocks(tables[tab[t]], B, l), p, x))
        \/ \E p, x : SetTable(tab[t], SetKey(tables[tab[t]], p, x))
    <3>1. CASE PutLocked(t)
      BY <3>1, Zenon DEF PutLocked, Released, heap
    <3>2. CASE WriteKey(t)
      BY <3>2, Zenon DEF WriteKey
    <3>3. CASE RemoveLocked(t)
      BY <3>3, Zenon DEF RemoveLocked
    <3> QED BY <3>1, <3>2, <3>3
  <2>2. ASSUME NEW B, NEW l, NEW p, NEW x, tab[t] \in 1 .. Len(tables)
        PROVE  /\ Keeps(SetVal(SetLocks(tables[tab[t]], B, l), p, x), tables[tab[t]])
               /\ Keeps(SetKey(SetLocks(tables[tab[t]], B, l), p, x), tables[tab[t]])
               /\ Keeps(SetKey(tables[tab[t]], p, x), tables[tab[t]])
    <3> DEFINE T == tables[tab[t]]
               U == SetLocks(T, B, l)
    <3>1. HasNew(T)
      BY <2>2, InvParts
    <3> HIDE DEF T
    <3>2. Keeps(U, T) /\ HasNew(U) /\ Keeps(SetKey(T, p, x), T)
      BY <3>1, SetKeeps DEF Keeps
    <3> HIDE DEF U
    <3>3. Keeps(SetVal(U, p, x), U) /\ Keeps(SetKey(U, p, x), U)
      BY <3>2, SetKeeps
    <3>4. Keeps(SetVal(U, p, x), T) /\ Keeps(SetKey(U, p, x), T)
      BY <3>2, <3>3, KeepsTwice
    <3> QED BY <3>2, <3>4 DEF T, U
  <2> QED BY <2>1, <2>2, InvParts, UnchangedKeeps, SetTableKeeps
<1>5. Outside(t)
  BY <1>1, <1>3, <1>4 DEF Outside, Owner, Owners
<1> QED BY <1>5, OutsideInv

-----------------------------------------------------------------------------
(* The resize.                                                             *)

(* The owner of status_lock is the only thread that copies.                *)
LEMMA OwnerAlone ==
  ASSUME IInv, NEW t \in Threads, Owner(t), Others(t)
  PROVE  /\ status_lock
         /\ Copying <=> At(t, "copy")
         /\ Copying' <=> pc'[t] = "copy"
         /\ \A u \in Threads \ {t} : OldTable(u)'
<1>1. status_lock
  BY DEF IInv, OneOwner
<1>2. ASSUME NEW u \in Threads \ {t} PROVE pc[u] \notin Owners /\ pc'[u] \notin Owners
  BY DEF IInv, OneOwner, Others, Owner
<1>3. Copying <=> At(t, "copy")
  BY <1>2 DEF Copying, At, Owners
<1>4. Copying' <=> pc'[t] = "copy"
  BY <1>2 DEF Copying, At, Owners
<1>5. ASSUME NEW u \in Threads \ {t} PROVE OldTable(u)'
  BY <1>2 DEF OldTable, At, Owners
<1> QED BY <1>1, <1>3, <1>4, <1>5

LEMMA StatusInv ==
  ASSUME IInv, NEW t \in Threads, Status(t)
  PROVE  IInv'
<1>1. At(t, "status") /\ status_lock' /\ ~Owner(t)
  BY DEF Status, At, Owner, Owners
<1>2. UNCHANGED <<tables, ht>>
  BY DEF Status
<1>3. Others(t) /\ pc'[t] = IF status_lock THEN "again" ELSE "ht_old"
  BY InvParts, GotoOthers DEF Status
<1>4. SameList
  BY <1>2, InvParts, UnchangedKeeps
<1>5. Local' /\ OneOwner'
  <2>1. pc'[t] \in Owners => ~status_lock
    BY <1>3 DEF Owners
  <2> QED BY <1>1, <1>3, <2>1, OwnersKept
<1>6. (pc'[t] = "copy" <=> At(t, "copy")) /\ OldTable(t)'
  BY <1>1, <1>3 DEF At, OldTable
<1>7. ListInv' /\ \A u \in Threads : OldTable(u)'
  BY <1>2, <1>3, <1>4, <1>6, ListKept
<1> QED BY <1>5, <1>7 DEF IInv

LEMMA ReadOldInv ==
  ASSUME IInv, NEW t \in Threads, ReadOld(t)
  PROVE  IInv'
<1>1. At(t, "ht_old") /\ Owner(t) /\ UNCHANGED <<tables, ht, status_lock>>
  BY DEF ReadOld, At, Owner, Owners, heap
<1>2. Others(t) /\ pc'[t] = "resize_lock"
  BY InvParts, GotoOthers DEF ReadOld
<1>3. tab'[t] = ht
  BY InvParts DEF ReadOld, SetTab, Local
<1>4. SameList
  BY <1>1, InvParts, UnchangedKeeps
<1>5. Local' /\ OneOwner'
  BY <1>1, <1>2, OwnerAlone, OwnersKept
<1>6. (pc'[t] = "copy" <=> At(t, "copy")) /\ OldTable(t)'
  BY <1>1, <1>2, <1>3 DEF At, OldTable
<1>7. ListInv' /\ \A u \in Threads : OldTable(u)'
  BY <1>1, <1>2, <1>4, <1>6, ListKept
<1> QED BY <1>5, <1>7 DEF IInv

LEMMA NewTableHasNew ==
  ASSUME NEW n, NEW e
  PROVE  /\ HasNew([NewTable(n) EXCEPT !.before = e])
         /\ [NewTable(n) EXCEPT !.before = e].new = Null
<1> DEFINE T == NewTable(n)
<1>1. HasNew(T) /\ T.new = Null
  BY DEF NewTable, HasNew
<1> HIDE DEF T
<1>2. /\ HasNew([T EXCEPT !.before = e])
      /\ [T EXCEPT !.before = e].new = Null
  BY <1>1, SetterKeeps DEF Keeps
<1> QED BY <1>2 DEF T

(* The new table is the one after the current one, for resize_lock is      *)
(* tried by a thread at a time and h->ht cannot have changed since it was  *)
(* read.                                                                   *)
LEMMA ResizeLockInv ==
  ASSUME IInv, NEW t \in Threads, ResizeLock(t, "status_unlock")
  PROVE  IInv'
<1>1. At(t, "resize_lock") /\ Owner(t) /\ UNCHANGED <<ht, status_lock, tab>>
  BY DEF ResizeLock, At, Owner, Owners, search
<1>2. tab[t] = ht /\ Len(tables) = ht /\ ht \in Nat /\ Listed(tables)
  <2>1. ~Copying
    <3>1. At(t, "copy") => FALSE
      BY <1>1 DEF At
    <3>2. ASSUME NEW u \in Threads, At(u, "copy") PROVE FALSE
      <4>1. Owner(u)
        BY <3>2 DEF At, Owner, Owners
      <4>2. u = t
        BY <1>1, <4>1 DEF IInv, OneOwner
      <4> QED BY <3>1, <3>2, <4>2
    <3> QED BY <3>2 DEF Copying
  <2> QED BY <1>1, <2>1, InvParts DEF IInv, ListInv, OldTable
<1>3. Others(t) /\ pc'[t] = IF resize_lock THEN "status_unlock" ELSE "copy"
  BY <1>1, InvParts, GotoOthers DEF ResizeLock
<1>4. Local' /\ OneOwner'
  <2>1. status_lock
    BY <1>1, <1>3, OwnerAlone
  <2> QED BY <1>1, <1>3, <2>1, OwnersKept
<1>5. tab'[t] = ht
  BY <1>1, <1>2
<1>6. OldTable(t)'
  BY <1>1, <1>3, <1>5 DEF OldTable, At
<1>7. CASE resize_lock
  <2>1. SameList
    BY <1>7, InvParts, UnchangedKeeps DEF ResizeLock
  <2>2. pc'[t] = "copy" <=> At(t, "copy")
    BY <1>1, <1>3, <1>7 DEF At
  <2>3. ListInv' /\ \A u \in Threads : OldTable(u)'
    BY <1>1, <1>3, <1>6, <2>1, <2>2, ListKept
  <2> QED BY <1>4, <2>3 DEF IInv
<1>8. CASE ~resize_lock
  <2> DEFINE T == [NewTable(wanted[t]) EXCEPT !.before = tables[tab[t]].num]
  <2>1. tables' = Append(tables, T)
    BY <1>8 DEF ResizeLock
  <2>2. HasNew(T) /\ T.new = Null
    BY NewTableHasNew
  <2> HIDE DEF T
  <2>3. /\ Listed(tables') /\ Len(tables') = Len(tables) + 1
        /\ \A v \in 1 .. Len(tables) : tables'[v] = tables[v]
        /\ tables'[Len(tables) + 1] = T
    BY <1>2, <2>1, <2>2, ListAppend
  <2>4. Copying'
    BY <1>1, <1>3, <1>8, OwnerAlone
  <2>5. \A u \in Threads : OldTable(u)'
    BY <1>1, <1>3, <1>6, OwnerAlone
  <2>6. ASSUME NEW v \in 1 .. Len(tables'), tables'[v].new # Null
        PROVE  tables'[v].new = v + 1
    <3>1. v \in 1 .. Len(tables) \/ v = Len(tables) + 1
      BY <1>2, <2>3
    <3> QED BY <2>2, <2>3, <2>6, <3>1 DEF IInv, ListInv
  <2>7. Len(tables') = ht' + 1 /\ ht' \in 1 .. Len(tables')
    BY <1>1, <1>2, <2>3, InvParts
  <2>8. ListInv'
    BY <2>3, <2>4, <2>6, <2>7 DEF ListInv
  <2> QED BY <1>4, <2>5, <2>8 DEF IInv
<1> QED BY <1>7, <1>8

LEMMA CopyInv ==
  ASSUME IInv, NEW t \in Threads, Copy(t) \/ Meet(t)
  PROVE  IInv'
<1>1. At(t, "copy") /\ Owner(t) /\ UNCHANGED <<ht, status_lock, pc, tab>>
  BY DEF Copy, Meet, Met, At, Owner, Owners, heap
<1>2. Others(t) /\ pc'[t] = pc[t]
  BY <1>1, InvParts, StayOthers
<1>3. SameList
  <2>1. CASE UNCHANGED tables
    BY <2>1, InvParts, UnchangedKeeps
  <2>2. ASSUME NEW c,
               tables' = [tables EXCEPT
                            ![tab[t]] = SetLocks(tables[tab[t]], {idx[t]}, "resize"),
                            ![New] = BucketCpy(tables[New], c)]
        PROVE  SameList
    <3> DEFINE U == SetLocks(tables[tab[t]], {idx[t]}, "resize")
               W == BucketCpy(tables[New], c)
    <3>1. tab[t] \in 1 .. Len(tables) => Keeps(U, tables[tab[t]])
      BY InvParts, SetKeeps
    <3>2. New \in 1 .. Len(tables) => Keeps(W, tables[New])
      BY InvParts, BucketCpyKeeps
    <3>3. tables' = [tables EXCEPT ![tab[t]] = U, ![New] = W]
      BY <2>2
    <3> HIDE DEF U, W
    <3> QED BY <3>1, <3>2, <3>3, InvParts, TwoKeep
  <2>3. CASE Meet(t)
    BY <2>1, <2>3 DEF Meet, heap
  <2>4. CASE Copy(t)
    BY <2>1, <2>2, <2>4 DEF Copy
  <2> QED BY <2>3, <2>4
<1>4. Local' /\ OneOwner'
  BY <1>1, <1>2, OwnerAlone, OwnersKept
<1>5. OldTable(t)'
  BY <1>1 DEF IInv, OldTable, At
<1>6. ListInv' /\ \A u \in Threads : OldTable(u)'
  BY <1>1, <1>2, <1>3, <1>5, ListKept DEF At
<1> QED BY <1>4, <1>6 DEF IInv

(* h->ht becomes the new table; its predecessor has no successor yet.      *)
LEMMA SwapInv ==
  ASSUME IInv, NEW t \in Threads, Swap(t)
  PROVE  IInv'
<1>1. At(t, "copy") /\ Owner(t) /\ UNCHANGED <<status_lock, tab>>
  BY DEF Swap, At, Owner, Owners, search
<1>2. Others(t) /\ pc'[t] = "table_new"
  BY <1>1, InvParts, GotoOthers DEF Swap
<1>3. Copying /\ ~Copying' /\ status_lock /\ \A u \in Threads \ {t} : OldTable(u)'
  BY <1>1, <1>2, OwnerAlone
<1>4. Local' /\ OneOwner'
  BY <1>1, <1>2, <1>3, OwnersKept
<1>5. Len(tables) = ht + 1 /\ ht' = Len(tables) /\ tab[t] = ht /\ ht \in Nat
  BY <1>1, <1>3, InvParts DEF IInv, ListInv, OldTable, Swap, New
<1>6. SameList
  <2> DEFINE T == [tables[New] EXCEPT !.prev = tab[t]]
  <2>1. SetTable(New, T)
    BY DEF Swap, SetTable
  <2>2. New \in 1 .. Len(tables) => Keeps(T, tables[New])
    BY InvParts, SetterKeeps
  <2> HIDE DEF T
  <2> QED BY <2>1, <2>2, InvParts, SetTableKeeps
<1>7. tab'[t] = ht' - 1
  BY <1>1, <1>5
<1>8. OldTable(t)'
  BY <1>2, <1>7 DEF OldTable, At
<1>9. Len(tables') = ht' /\ ht' \in 1 .. Len(tables')
  BY <1>5, <1>6 DEF SameList
<1>10. \A v \in 1 .. Len(tables') : tables'[v].new # Null => tables'[v].new = v + 1
  BY <1>6 DEF SameList, IInv, ListInv
<1>11. ListInv'
  BY <1>3, <1>6, <1>9, <1>10 DEF ListInv, SameList
<1> QED BY <1>3, <1>4, <1>8, <1>11 DEF IInv

(* The successor of the replaced table is the current one, the next that   *)
(* was created.                                                            *)
LEMMA TableNewInv ==
  ASSUME IInv, NEW t \in Threads, NEW release, TableNew(t, release, "status_unlock")
  PROVE  IInv'
<1>1. At(t, "table_new") /\ Owner(t) /\ UNCHANGED <<ht, status_lock, tab>>
  BY DEF TableNew, At, Owner, Owners
<1>2. Others(t) /\ pc'[t] = "status_unlock"
  BY <1>1, InvParts, GotoOthers DEF TableNew
<1>3. ~Copying /\ ~Copying' /\ status_lock /\ \A u \in Threads \ {t} : OldTable(u)'
  BY <1>1, <1>2, OwnerAlone DEF At
<1>4. Local' /\ OneOwner'
  BY <1>1, <1>2, <1>3, OwnersKept
<1>5. Len(tables) = ht /\ tab[t] = ht - 1 /\ ht \in Nat
  BY <1>1, <1>3, InvParts DEF IInv, ListInv, OldTable
<1>6. /\ tables' = [v \in DOMAIN tables |-> tables'[v]]
      /\ \A v \in DOMAIN tables :
           tables'[v] = IF v = tab[t]
                        THEN [tables[v] EXCEPT !.new = New, !.released = release]
                        ELSE tables[v]
  BY DEF TableNew
<1>7. ASSUME NEW v \in 1 .. Len(tables)
      PROVE  /\ HasNew(tables'[v])
             /\ tables'[v].new = IF v = tab[t] THEN New ELSE tables[v].new
  <2>1. HasNew(tables[v]) /\ v \in DOMAIN tables
    BY InvParts
  <2>2. CASE v = tab[t]
    <3> DEFINE T == tables[v]
               n == New
    <3>1. tables'[v] = [T EXCEPT !.new = n, !.released = release]
      BY <1>6, <2>1, <2>2
    <3> HIDE DEF T, n
    <3>2. HasNew(T)
      BY <2>1 DEF T
    <3>3. HasNew(tables'[v]) /\ tables'[v].new = n
      BY <3>1, <3>2 DEF HasNew
    <3> QED BY <2>2, <3>3 DEF n
  <2>3. CASE v # tab[t]
    BY <1>6, <2>1, <2>3
  <2> QED BY <2>2, <2>3
<1>8. Listed(tables') /\ Len(tables') = Len(tables)
  BY <1>6, <1>7, InvParts, ListSame
<1>9. ASSUME NEW v \in 1 .. Len(tables'), tables'[v].new # Null
      PROVE  tables'[v].new = v + 1
  <2>1. v \in 1 .. Len(tables) /\ v \in Nat
    BY <1>8
  <2>2. CASE v = tab[t]
    BY <1>5, <1>7, <2>1, <2>2 DEF New
  <2>3. CASE v # tab[t]
    BY <1>7, <1>9, <2>1, <2>3 DEF IInv, ListInv
  <2> QED BY <2>2, <2>3
<1>10. Len(tables') = ht' /\ ht' \in 1 .. Len(tables')
  BY <1>1, <1>5, <1>8, InvParts
<1>11. ListInv'
  BY <1>3, <1>8, <1>9, <1>10 DEF ListInv
<1>12. OldTable(t)'
  BY <1>2 DEF OldTable, At
<1> QED BY <1>3, <1>4, <1>11, <1>12 DEF IInv

LEMMA StatusUnlockInv ==
  ASSUME IInv, NEW t \in Threads, StatusUnlock(t, "again")
  PROVE  IInv'
<1>1. At(t, "status_unlock") /\ Owner(t) /\ UNCHANGED <<tables, ht, tab>>
  BY DEF StatusUnlock, At, Owner, Owners, search
<1>2. Others(t) /\ pc'[t] = "again"
  BY <1>1, InvParts, GotoOthers DEF StatusUnlock
<1>3. SameList
  BY <1>1, InvParts, UnchangedKeeps
<1>4. Local' /\ OneOwner'
  <2>1. pc'[t] \notin Owners
    BY <1>2 DEF Owners
  <2> QED BY <1>1, <1>2, <2>1, OwnersKept
<1>5. (pc'[t] = "copy" <=> At(t, "copy")) /\ OldTable(t)'
  BY <1>1, <1>2 DEF At, OldTable
<1>6. ListInv' /\ \A u \in Threads : OldTable(u)'
  BY <1>1, <1>2, <1>3, <1>5, ListKept
<1> QED BY <1>4, <1>6 DEF IInv

-----------------------------------------------------------------------------
(* The invariant holds in every state.                                     *)

LEMMA InitInv ==
  ASSUME Init
  PROVE  IInv
<1> DEFINE T == NewTable(Buckets)
<1>1. HasNew(T) /\ T.new = Null
  BY DEF NewTable, HasNew
<1>2. tables = <<T>> /\ ht = 1
  BY DEF Init, TablesInit
<1>3. \A t \in Threads : pc[t] = "idle"
  BY DEF Init, TablesInit
<1> HIDE DEF T
<1>4. Len(tables) = 1 /\ DOMAIN tables = {1} /\ tables[1] = T
  BY <1>2
<1>5. Listed(tables)
  <2>1. tables \in Seq({T})
    BY <1>2
  <2>2. {tables[v] : v \in DOMAIN tables} = {T}
    BY <1>4
  <2> QED BY <1>1, <1>4, <2>1, <2>2 DEF Listed
<1>6. ~Copying /\ OneOwner /\ \A t \in Threads : OldTable(t)
  BY <1>3 DEF Copying, OneOwner, OldTable, Owner, Owners, At
<1>7. ListInv
  BY <1>1, <1>2, <1>4, <1>5, <1>6 DEF ListInv
<1>8. Local
  BY DEF Init, TablesInit, Local
<1> QED BY <1>6, <1>7, <1>8 DEF IInv

LEMMA StutterInv ==
  ASSUME IInv, UNCHANGED vars
  PROVE  IInv'
<1>1. UNCHANGED <<tables, ht, status_lock, pc, tab>>
  BY DEF vars, calls, heap
<1>2. Local' /\ OneOwner' /\ ListInv'
  BY <1>1 DEF IInv, Local, OneOwner, Owner, ListInv, Copying, At
<1>3. \A t \in Threads : OldTable(t)'
  BY <1>1 DEF IInv, OldTable, At
<1> QED BY <1>2, <1>3 DEF IInv

LEMMA ResizeInv ==
  ASSUME IInv, NEW t \in Threads, Resize(t)
  PROVE  IInv'
<1>1. \/ ReadOld(t) \/ ResizeLock(t, "status_unlock") \/ Copy(t) \/ Meet(t)
      \/ Swap(t) \/ TableNew(t, TRUE, "status_unlock") \/ StatusUnlock(t, "again")
  BY DEF Resize
<1> QED
  BY <1>1, ReadOldInv, ResizeLockInv, CopyInv, SwapInv, TableNewInv, StatusUnlockInv

LEMMA NextInv ==
  ASSUME IInv, [Next]_vars
  PROVE  IInv'
<1>1. CASE UNCHANGED vars
  BY <1>1, StutterInv
<1>2. CASE Next
  <2>1. PICK t \in Threads : Call(t) \/ Work(t)
    BY <1>2 DEF Next
  <2>2. \/ Call(t) \/ Again(t)
        \/ GetVal(t) \/ GetKey(t) \/ GetAgain(t) \/ ExistsUpdate(t)
        \/ LockTaken(t) \/ TableWait(t) \/ Help(t) \/ HelpLock(t) \/ HelpCopy(t)
        \/ PutLocked(t) \/ WriteKey(t) \/ RemoveLocked(t)
        \/ Status(t) \/ Resize(t)
    BY <2>1 DEF Work
  <2> QED BY <2>2, CallInv, SearchInv, WaitInv, HelpInv, UpdateInv, StatusInv, ResizeInv
<1> QED BY <1>1, <1>2

(* One thread at a time is between its ht_status and the end of its        *)
(* resize, the current table is the newest but for a copy under way, and   *)
(* every link leads to the next table: the basis of the theorem below.     *)
THEOREM Invariance == Spec => []IInv
<1>1. Init => IInv
  BY InitInv
<1>2. IInv /\ [Next]_vars => IInv'
  BY NextInv
<1> QED BY <1>1, <1>2, PTL DEF Spec

(* ht_resize_pes of clht_lb_res_no_next.c gives every table one successor, *)
(* the next that is created: h->ht, which it reads before it tries         *)
(* resize_lock and again when it sets table_new, cannot change between,    *)
(* whatever the puts and the helper do meanwhile.                          *)
THEOREM Successors == Spec => []OneSuccessor
<1>1. IInv => OneSuccessor
  <2> SUFFICES ASSUME IInv PROVE OneSuccessor
    OBVIOUS
  <2>1. ht \in Nat /\ ListInv
    BY InvParts
  <2> QED BY <2>1 DEF ListInv, OneSuccessor
<1> QED BY <1>1, Invariance, PTL
=============================================================================
