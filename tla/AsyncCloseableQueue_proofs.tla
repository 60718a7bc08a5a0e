---------------------- MODULE AsyncCloseableQueue_proofs ----------------------
(***************************************************************************)
(* Theorems about AsyncCloseableQueue, for any tasks, items and capacity:  *)
(* the types and the two lines of futures, that the wake-ups suffice on an *)
(* open queue whoever is cancelled, that close leaves asleep only those it *)
(* found, and that the queue implements ClosableFifo.                      *)
(***************************************************************************)
EXTENDS AsyncCloseableQueue, SequenceTheorems, FiniteSetTheorems,
        WellFoundedInduction, TLAPS

--------------------------------------------------------------------------------
(* The line of the futures of the calls in ops, when F and C are future    *)
(* and call: every task is in it once, and waits there or was cancelled;   *)
(* every pending future is in it.                                          *)
Queued(line, F, C, ops) ==
  /\ line \in Seq(Tasks) /\ IsInjective(line)
  /\ \A u \in Range(line) : F[u] \in {"pending", "cancelled"} /\ C[u].op \in ops
  /\ \A u \in Tasks : F[u] = "pending" /\ C[u].op \in ops => u \in Range(line)

Lines ==
  /\ Queued(getters, future, call, {"get"})
  /\ Queued(putters, future, call, {"put", "close"})

QueueInv == TypeOK /\ Lines

--------------------------------------------------------------------------------
(* Lines. *)

(* A nonempty set of numbers has a least one. *)
LEMMA LeastNumber ==
  ASSUME NEW T \in SUBSET Nat, T # {}
  PROVE  Min(T) \in T /\ \A j \in T : Min(T) <= j
<1>1. \E k \in T : \A j \in T : ~(<<j, k>> \in OpToRel(<, Nat))
  BY WFMin, NatLessThanWellFounded
<1>2. \E k \in T : \A j \in T : ~(j < k)
  BY <1>1 DEF OpToRel
<1>3. \E k \in T : \A j \in T : k <= j
  BY <1>2
<1>. QED BY <1>3 DEF Min

(* FirstPending is the place of the first pending future, 0 if none is. *)
LEMMA FirstPendingPlace ==
  ASSUME NEW line \in Seq(Tasks)
  PROVE  \/ /\ FirstPending(line) = 0
            /\ \A i \in 1..Len(line) : future[line[i]] # "pending"
         \/ /\ FirstPending(line) \in 1..Len(line)
            /\ future[line[FirstPending(line)]] = "pending"
            /\ \A i \in 1..Len(line) :
                 future[line[i]] = "pending" => FirstPending(line) <= i
<1>. DEFINE I == {i \in 1..Len(line) : future[line[i]] = "pending"}
<1>1. FirstPending(line) = IF I # {} THEN Min(I) ELSE 0
  BY DEF FirstPending, SelectInSeq
<1>2. Len(line) \in Nat
  BY LenProperties
<1>3. I \in SUBSET Nat
  BY <1>2
<1>4. CASE I = {}
  BY <1>1, <1>4
<1>5. CASE I # {}
  <2>1. Min(I) \in I /\ \A j \in I : Min(I) <= j
    BY <1>3, <1>5, LeastNumber
  <2>. QED BY <1>1, <1>5, <2>1
<1>. QED BY <1>4, <1>5

(* The members of a line, by their places. *)
LEMMA Places ==
  ASSUME NEW line \in Seq(Tasks)
  PROVE  /\ Len(line) \in Nat /\ DOMAIN line = 1..Len(line)
         /\ \A i \in 1..Len(line) : line[i] \in Range(line) /\ line[i] \in Tasks
         /\ \A u \in Range(line) : u \in Tasks /\ \E i \in 1..Len(line) : line[i] = u
<1>1. Len(line) \in Nat /\ DOMAIN line = 1..Len(line)
  BY LenProperties
<1>2. \A i \in 1..Len(line) : line[i] \in Tasks
  BY ElementOfSeq
<1>3. Range(line) = {line[i] : i \in 1..Len(line)}
  BY <1>1 DEF Range
<1>. QED BY <1>1, <1>2, <1>3

(* The part of a line behind some place. *)
LEMMA Behind ==
  ASSUME NEW line \in Seq(Tasks), NEW k \in 0..Len(line)
  PROVE  LET s == SubSeq(line, k+1, Len(line))
         IN  /\ s \in Seq(Tasks) /\ Len(s) = Len(line) - k
             /\ \A i \in 1..Len(s) : s[i] = line[i + k]
<1>1. Len(line) \in Nat /\ k \in Int /\ k + 1 \in Int
  BY LenProperties
<1>2. \A i \in (k+1)..Len(line) : line[i] \in Tasks
  BY <1>1, ElementOfSeq
<1>. DEFINE s == SubSeq(line, k+1, Len(line))
<1>3. /\ s \in Seq(Tasks)
      /\ Len(s) = IF k+1 <= Len(line) THEN Len(line)-(k+1)+1 ELSE 0
      /\ \A i \in 1..(Len(line)-(k+1)+1) : s[i] = line[(k+1)+i-1]
  BY <1>1, <1>2, SubSeqProperties
<1>. HIDE DEF s
<1>4. Len(s) = Len(line) - k
  BY <1>1, <1>3
<1>5. \A i \in 1..Len(s) : s[i] = line[i + k]
  BY <1>1, <1>3, <1>4
<1>. QED BY <1>3, <1>4, <1>5 DEF s

(* What _wakeup_next does to a line: it takes off the front up to the      *)
(* first pending future, and wakes that one if there is one.               *)
LEMMA Wakeup ==
  ASSUME NEW line \in Seq(Tasks), IsInjective(line)
  PROVE  /\ AfterWakeup(line) \in Seq(Tasks) /\ IsInjective(AfterWakeup(line))
         /\ Range(AfterWakeup(line)) \subseteq Range(line)
         /\ \A u \in Woken(line) :
              u \in Range(line) /\ u \in Tasks /\ future[u] = "pending"
         /\ Woken(line) \intersect Range(AfterWakeup(line)) = {}
         /\ \A u \in Range(line) :
              future[u] = "pending" => u \in Woken(line) \union Range(AfterWakeup(line))
         /\ Woken(line) = {} => \A u \in Range(line) : future[u] # "pending"
         /\ Woken(line) = {} \/ \E u \in Tasks : Woken(line) = {u}
<1>. DEFINE k == FirstPending(line)
            rest == AfterWakeup(line)
<1>1. /\ Len(line) \in Nat /\ DOMAIN line = 1..Len(line)
      /\ \A i \in 1..Len(line) : line[i] \in Range(line) /\ line[i] \in Tasks
      /\ \A u \in Range(line) : u \in Tasks /\ \E i \in 1..Len(line) : line[i] = u
  BY Places
<1>2. CASE k = 0
  <2>1. Woken(line) = {} /\ AfterWakeup(line) = <<>>
    BY <1>2 DEF Woken, AfterWakeup
  <2>2. <<>> \in Seq(Tasks) /\ IsInjective(<<>>) /\ Range(<<>>) = {}
    BY DEF IsInjective, Range
  <2>3. \A i \in 1..Len(line) : future[line[i]] # "pending"
    BY <1>2, FirstPendingPlace
  <2>4. \A u \in Range(line) : future[u] # "pending"
    BY <1>1, <2>3
  <2>. QED BY <2>1, <2>2, <2>4
<1>3. CASE k # 0
  <2>1. /\ k \in 1..Len(line) /\ future[line[k]] = "pending"
        /\ \A i \in 1..Len(line) : future[line[i]] = "pending" => k <= i
    BY <1>3, FirstPendingPlace
  <2>2. Woken(line) = {line[k]} /\ rest = SubSeq(line, k+1, Len(line))
    BY <1>3 DEF Woken, AfterWakeup
  <2>. HIDE DEF k, rest
  <2>3. k \in 0..Len(line)
    BY <1>1, <2>1
  <2>4. /\ rest \in Seq(Tasks) /\ Len(rest) = Len(line) - k
        /\ \A i \in 1..Len(rest) : rest[i] = line[i + k]
    BY <2>2, <2>3, Behind
  <2>5. /\ DOMAIN rest = 1..Len(rest) /\ Len(rest) \in Nat
        /\ \A i \in 1..Len(rest) : rest[i] \in Range(rest)
        /\ \A u \in Range(rest) : \E i \in 1..Len(rest) : rest[i] = u
    BY <2>4, Places
  <2>6. \A i \in 1..Len(rest) : i + k \in 1..Len(line) /\ i + k # k
    BY <1>1, <2>1, <2>4, <2>5
  <2>7. \A i, j \in 1..Len(line) : line[i] = line[j] => i = j
    BY <1>1 DEF IsInjective
  <2>8. IsInjective(rest)
    <3>1. \A i, j \in 1..Len(rest) : rest[i] = rest[j] => i = j
      <4>. SUFFICES ASSUME NEW i \in 1..Len(rest), NEW j \in 1..Len(rest),
                           rest[i] = rest[j]
                    PROVE  i = j
        OBVIOUS
      <4>1. line[i + k] = line[j + k]
        BY <2>4
      <4>2. i + k = j + k
        BY <2>6, <2>7, <4>1
      <4>. QED BY <1>1, <2>1, <2>5, <4>2
    <3>. QED BY <2>5, <3>1 DEF IsInjective
  <2>9. \A u \in Range(rest) : u \in Range(line) /\ u # line[k]
    <3>. SUFFICES ASSUME NEW i \in 1..Len(rest)
                  PROVE  rest[i] \in Range(line) /\ rest[i] # line[k]
      BY <2>5
    <3>1. rest[i] = line[i + k] /\ i + k \in 1..Len(line) /\ i + k # k
      BY <2>4, <2>6
    <3>. QED BY <1>1, <2>1, <2>7, <3>1
  <2>10. \A u \in Range(line) : future[u] = "pending" => u = line[k] \/ u \in Range(rest)
    <3>. SUFFICES ASSUME NEW i \in 1..Len(line), future[line[i]] = "pending", i # k
                  PROVE  line[i] \in Range(rest)
      BY <1>1
    <3>1. i - k \in 1..Len(rest) /\ (i - k) + k = i
      BY <1>1, <2>1, <2>4
    <3>2. rest[i - k] = line[i]
      BY <2>4, <3>1
    <3>. QED BY <2>5, <3>1, <3>2
  <2>11. line[k] \in Range(line) /\ line[k] \in Tasks
    BY <1>1, <2>1
  <2>. QED BY <2>1, <2>2, <2>4, <2>8, <2>9, <2>10, <2>11 DEF rest
<1>. QED BY <1>2, <1>3

(* A task that goes to the end of a line it is not in. *)
LEMMA Joining ==
  ASSUME NEW line \in Seq(Tasks), IsInjective(line), NEW t \in Tasks, t \notin Range(line)
  PROVE  /\ Append(line, t) \in Seq(Tasks) /\ IsInjective(Append(line, t))
         /\ Range(Append(line, t)) = Range(line) \union {t}
<1>. DEFINE s == Append(line, t)
<1>1. /\ Len(line) \in Nat /\ DOMAIN line = 1..Len(line)
      /\ \A i \in 1..Len(line) : line[i] \in Range(line)
      /\ \A u \in Range(line) : \E i \in 1..Len(line) : line[i] = u
  BY Places
<1>2. /\ s \in Seq(Tasks) /\ Len(s) = Len(line) + 1
      /\ \A i \in 1..Len(line) : s[i] = line[i]
      /\ s[Len(line) + 1] = t
  BY AppendProperties
<1>. HIDE DEF s
<1>3. /\ DOMAIN s = 1..Len(s)
      /\ \A i \in 1..Len(s) : s[i] \in Range(s)
      /\ \A u \in Range(s) : \E i \in 1..Len(s) : s[i] = u
  BY <1>2, Places
<1>4. \A i \in 1..Len(s) : i \in 1..Len(line) \/ i = Len(line) + 1
  BY <1>1, <1>2
<1>5. \A i \in 1..Len(line) : i \in 1..Len(s) /\ i # Len(line) + 1
  BY <1>1, <1>2
<1>6. \A i, j \in 1..Len(line) : line[i] = line[j] => i = j
  BY <1>1 DEF IsInjective
<1>7. \A i, j \in 1..Len(s) : s[i] = s[j] => i = j
  BY <1>1, <1>2, <1>4, <1>6
<1>8. IsInjective(s)
  BY <1>3, <1>7 DEF IsInjective
<1>9. Range(s) \subseteq Range(line) \union {t}
  BY <1>1, <1>2, <1>3, <1>4
<1>10. Range(line) \union {t} \subseteq Range(s)
  <2>1. Len(line) + 1 \in 1..Len(s)
    BY <1>1, <1>2
  <2>2. t \in Range(s)
    BY <1>2, <1>3, <2>1
  <2>3. Range(line) \subseteq Range(s)
    BY <1>1, <1>2, <1>3, <1>5
  <2>. QED BY <2>2, <2>3
<1>. QED BY <1>2, <1>8, <1>9, <1>10 DEF s

(* A task that is taken out of a line. *)
LEMMA Leaving ==
  ASSUME NEW line \in Seq(Tasks), IsInjective(line), NEW t \in Tasks
  PROVE  /\ RemoveFirst(line, t) \in Seq(Tasks) /\ IsInjective(RemoveFirst(line, t))
         /\ Range(RemoveFirst(line, t)) = Range(line) \ {t}
<1>1. /\ Len(line) \in Nat /\ DOMAIN line = 1..Len(line)
      /\ \A i \in 1..Len(line) : line[i] \in Range(line) /\ line[i] \in Tasks
      /\ \A u \in Range(line) : u \in Tasks /\ \E i \in 1..Len(line) : line[i] = u
  BY Places
<1>2. CASE t \notin Range(line)
  <2>1. RemoveFirst(line, t) = line
    BY <1>1, <1>2 DEF RemoveFirst
  <2>. QED BY <1>2, <2>1
<1>3. CASE t \in Range(line)
  <2>. DEFINE I == {i \in 1..Len(line) : line[i] = t}
              k == Min(I)
              s == SubSeq(line, 1, k - 1)
              r == SubSeq(line, k + 1, Len(line))
              left == s \o r
  <2>1. I # {} /\ I \in SUBSET Nat
    BY <1>1, <1>3
  <2>2. RemoveFirst(line, t) = left
    <3>1. SelectInSeq(line, LAMBDA v : v = t) = k
      BY <2>1 DEF SelectInSeq
    <3>. QED BY <2>1, <3>1 DEF RemoveFirst, RemoveAt
  <2>3. k \in I
    BY <2>1, LeastNumber
  <2>4. k \in 1..Len(line) /\ line[k] = t
    BY <2>3
  <2>. HIDE DEF I, k
  <2>5. /\ s \in Seq(Tasks) /\ Len(s) = k - 1
        /\ \A i \in 1..Len(s) : s[i] = line[i]
    <3>1. \A i \in 1..(k-1) : line[i] \in Tasks
      BY <1>1, <2>4
    <3>2. 1 \in Int /\ k - 1 \in Int
      BY <1>1, <2>4
    <3>3. /\ s \in Seq(Tasks)
          /\ Len(s) = IF 1 <= k-1 THEN (k-1)-1+1 ELSE 0
          /\ \A i \in 1..((k-1)-1+1) : s[i] = line[1+i-1]
      BY <3>1, <3>2, SubSeqProperties
    <3>. HIDE DEF s
    <3>4. Len(s) = k - 1
      BY <1>1, <2>4, <3>3
    <3>. QED BY <1>1, <2>4, <3>3, <3>4
  <2>6. /\ r \in Seq(Tasks) /\ Len(r) = Len(line) - k
        /\ \A i \in 1..Len(r) : r[i] = line[i + k]
    <3>1. k \in 0..Len(line)
      BY <1>1, <2>4
    <3>. QED BY <3>1, Behind
  <2>. HIDE DEF s, r
  <2>7. /\ left \in Seq(Tasks) /\ Len(left) = Len(line) - 1
        /\ \A i \in 1..Len(left) : left[i] = IF i < k THEN line[i] ELSE line[i + 1]
    <3>1. /\ left \in Seq(Tasks) /\ Len(left) = Len(s) + Len(r)
          /\ \A i \in 1..(Len(s) + Len(r)) :
               left[i] = IF i <= Len(s) THEN s[i] ELSE r[i - Len(s)]
      BY <2>5, <2>6, ConcatProperties
    <3>. HIDE DEF left
    <3>2. Len(left) = Len(line) - 1
      BY <1>1, <2>4, <2>5, <2>6, <3>1
    <3>3. ASSUME NEW i \in 1..Len(left), i < k PROVE left[i] = line[i]
      <4>1. i \in 1..Len(s) /\ i \in 1..(Len(s) + Len(r)) /\ i <= Len(s)
        BY <1>1, <2>4, <2>5, <2>6, <3>1, <3>3
      <4>. QED BY <2>5, <3>1, <4>1
    <3>4. ASSUME NEW i \in 1..Len(left), ~(i < k) PROVE left[i] = line[i + 1]
      <4>1. /\ i \in 1..(Len(s) + Len(r)) /\ ~(i <= Len(s))
            /\ i - Len(s) \in 1..Len(r) /\ (i - Len(s)) + k = i + 1
        BY <1>1, <2>4, <2>5, <2>6, <3>1, <3>4
      <4>. QED BY <2>6, <3>1, <4>1
    <3>. QED BY <3>1, <3>2, <3>3, <3>4
  <2>. HIDE DEF left
  <2>8. /\ DOMAIN left = 1..Len(left)
        /\ \A i \in 1..Len(left) : left[i] \in Range(left)
        /\ \A u \in Range(left) : \E i \in 1..Len(left) : left[i] = u
    BY <2>7, Places
  <2>9. \A i, j \in 1..Len(line) : line[i] = line[j] => i = j
    BY <1>1 DEF IsInjective
  <2>10. ASSUME NEW i \in 1..Len(left), NEW j \in 1..Len(left), left[i] = left[j]
         PROVE  i = j
    <3>1. /\ i \in 1..Len(line) /\ i + 1 \in 1..Len(line)
          /\ j \in 1..Len(line) /\ j + 1 \in 1..Len(line)
      BY <1>1, <2>7
    <3>2. (IF i < k THEN line[i] ELSE line[i + 1]) = IF j < k THEN line[j] ELSE line[j + 1]
      BY <2>7, <2>10
    <3>3. (IF i < k THEN i ELSE i + 1) = IF j < k THEN j ELSE j + 1
      BY <2>9, <3>1, <3>2
    <3>. QED BY <2>4, <3>1, <3>3
  <2>11. IsInjective(left)
    BY <2>8, <2>10 DEF IsInjective
  <2>12. ASSUME NEW u \in Range(left) PROVE u \in Range(line) /\ u # t
    <3>1. PICK i \in 1..Len(left) : left[i] = u
      BY <2>8
    <3>2. i \in 1..Len(line) /\ i + 1 \in 1..Len(line)
      BY <1>1, <2>7
    <3>3. CASE i < k
      BY <1>1, <2>4, <2>7, <2>9, <3>1, <3>2, <3>3
    <3>4. CASE ~(i < k)
      <4>1. line[i + 1] = u
        BY <2>7, <3>1, <3>4
      <4>2. i + 1 # k
        BY <1>1, <2>4, <2>7, <3>4
      <4>. QED BY <1>1, <2>4, <2>9, <3>2, <4>1, <4>2
    <3>. QED BY <3>3, <3>4
  <2>13. ASSUME NEW u \in Range(line), u # t PROVE u \in Range(left)
    <3>1. PICK i \in 1..Len(line) : line[i] = u
      BY <1>1
    <3>2. i # k
      BY <2>4, <2>13, <3>1
    <3>3. CASE i < k
      <4>1. i \in 1..Len(left)
        BY <1>1, <2>4, <2>7, <3>3
      <4>. QED BY <2>7, <2>8, <3>1, <3>3, <4>1
    <3>4. CASE ~(i < k)
      <4>1. i - 1 \in 1..Len(left) /\ ~(i - 1 < k) /\ (i - 1) + 1 = i
        BY <1>1, <2>4, <2>7, <3>2, <3>4
      <4>. QED BY <2>7, <2>8, <3>1, <4>1
    <3>. QED BY <3>3, <3>4
  <2>14. Range(left) = Range(line) \ {t}
    BY <2>12, <2>13
  <2>. QED BY <2>2, <2>7, <2>11, <2>14
<1>. QED BY <1>2, <1>3

--------------------------------------------------------------------------------
(* Types and lines. *)

(* Every call is of one of the three methods. *)
LEMMA CallKinds ==
  ASSUME NEW c \in Calls
  PROVE  /\ c # Idle /\ c.op \in {"put", "get", "close"}
         /\ c.op = "put" => c.item \in Items
<1>1. CASE c \in [op : {"put"}, item : Items, wait : BOOLEAN]
  BY <1>1 DEF Idle
<1>2. CASE c \in [op : {"get", "close"}, item : {None}, wait : BOOLEAN]
  BY <1>2 DEF Idle
<1>. QED BY <1>1, <1>2 DEF Calls

(* A task at the loop of a method: it begins the call or its future is     *)
(* done.                                                                   *)
AtLoop(t, c) ==
  /\ c \in Calls
  /\ future[t] \in {"none", "done"}
  /\ future[t] = "done" => call[t] = c /\ t \notin mustCancel

(* G and D are the futures and calls after t has returned and those of N   *)
(* were woken, when they were F and C.                                     *)
Returned(t, N, F, C, G, D) ==
  \A u \in Tasks :
    /\ G[u] = IF u = t THEN "none" ELSE IF u \in N THEN "done" ELSE F[u]
    /\ D[u] = IF u = t THEN Idle ELSE C[u]

(* What a step does to the tasks: t returns, and those of N are woken. *)
LEMMA LeaveEffect ==
  ASSUME TypeOK, NEW t \in Tasks, future[t] # "pending", NEW N, Leave(t, N),
         \A u \in N : u \in Tasks /\ future[u] = "pending"
  PROVE  /\ future' \in [Tasks -> {"none", "pending", "done", "cancelled"}]
         /\ call' \in [Tasks -> Calls \union {Idle}]
         /\ \A u \in Tasks : (future'[u] = "none") <=> (call'[u] = Idle)
         /\ mustCancel' \subseteq {u \in Tasks : future'[u] = "done"}
         /\ Returned(t, N, future, call, future', call')
<1>1. /\ \A u \in Tasks : /\ future'[u] = IF u = t THEN "none"
                                          ELSE IF u \in N THEN "done" ELSE future[u]
                          /\ call'[u] = IF u = t THEN Idle ELSE call[u]
      /\ mustCancel' = mustCancel \ {t}
  BY DEF Leave, TypeOK
<1>2. future' \in [Tasks -> {"none", "pending", "done", "cancelled"}]
  BY DEF Leave, TypeOK
<1>3. call' \in [Tasks -> Calls \union {Idle}]
  BY DEF Leave, TypeOK
<1>4. \A u \in Tasks : (future'[u] = "none") <=> (call'[u] = Idle)
  BY <1>1 DEF TypeOK
<1>5. mustCancel' \subseteq {u \in Tasks : future'[u] = "done"}
  <2>. SUFFICES ASSUME NEW u \in mustCancel, u # t
                PROVE  u \in Tasks /\ future'[u] = "done"
    BY <1>1
  <2>1. u \in Tasks /\ future[u] = "done"
    BY DEF TypeOK
  <2>. QED BY <1>1, <2>1
<1>6. Returned(t, N, future, call, future', call')
  BY <1>1 DEF Returned
<1>. QED BY <1>2, <1>3, <1>4, <1>5, <1>6

(* A line stays one if the task that returns was not in it, and the part   *)
(* that is left of it holds the pending futures that are not woken.        *)
LEMMA QueuedAfterLeave ==
  ASSUME NEW line, NEW rest, NEW F, NEW C, NEW G, NEW D, NEW ops,
         NEW t, NEW N, Queued(line, F, C, ops),
         rest \in Seq(Tasks), IsInjective(rest),
         \A u \in Range(rest) : u \in Range(line) /\ u # t /\ u \notin N,
         \A u \in Range(line) : F[u] = "pending" /\ u # t => u \in N \union Range(rest),
         "none" \notin ops, Returned(t, N, F, C, G, D)
  PROVE  Queued(rest, G, D, ops)
<1>1. \A u \in Range(rest) : u \in Tasks
  BY Places
<1>2. \A u \in Range(rest) : G[u] \in {"pending", "cancelled"} /\ D[u].op \in ops
  BY <1>1 DEF Queued, Returned
<1>3. \A u \in Tasks : G[u] = "pending" /\ D[u].op \in ops => u \in Range(rest)
  BY DEF Queued, Returned, Idle
<1>. QED BY <1>2, <1>3 DEF Queued

(* A line that a task stays out of. *)
LEMMA QueuedUntouched ==
  ASSUME NEW line, NEW F, NEW C, NEW G, NEW D, NEW ops, NEW t \in Tasks,
         Queued(line, F, C, ops), t \notin Range(line),
         D[t].op \notin ops,
         \A u \in Tasks \ {t} : G[u] = F[u] /\ D[u] = C[u]
  PROVE  Queued(line, G, D, ops)
<1>1. \A u \in Range(line) : u \in Tasks
  BY Places DEF Queued
<1>2. \A u \in Range(line) : G[u] \in {"pending", "cancelled"} /\ D[u].op \in ops
  BY <1>1 DEF Queued
<1>3. \A u \in Tasks : G[u] = "pending" /\ D[u].op \in ops => u \in Range(line)
  BY DEF Queued
<1>. QED BY <1>2, <1>3 DEF Queued

(* A line that a task joins with a pending future. *)
LEMMA QueuedJoined ==
  ASSUME NEW line, NEW F, NEW C, NEW G, NEW D, NEW ops, NEW t \in Tasks,
         Queued(line, F, C, ops), t \notin Range(line),
         G[t] = "pending", D[t].op \in ops,
         \A u \in Tasks \ {t} : G[u] = F[u] /\ D[u] = C[u]
  PROVE  Queued(Append(line, t), G, D, ops)
<1>1. \A u \in Range(line) : u \in Tasks
  BY Places DEF Queued
<1>2. /\ Append(line, t) \in Seq(Tasks) /\ IsInjective(Append(line, t))
      /\ Range(Append(line, t)) = Range(line) \union {t}
  BY Joining DEF Queued
<1>3. \A u \in Range(line) \union {t} : G[u] \in {"pending", "cancelled"} /\ D[u].op \in ops
  BY <1>1 DEF Queued
<1>4. \A u \in Tasks : G[u] = "pending" /\ D[u].op \in ops => u \in Range(line) \union {t}
  BY DEF Queued
<1>. QED BY <1>2, <1>3, <1>4 DEF Queued

(* The lines when t, which is in neither, returns and wakes nobody. *)
LEMMA QuietLeave ==
  ASSUME TypeOK, NEW t \in Tasks, future[t] # "pending", Leave(t, {}),
         NEW line, NEW ops, Queued(line, future, call, ops), t \notin Range(line),
         "none" \notin ops
  PROVE  Queued(line, future', call', ops)
<1>1. Returned(t, {}, future, call, future', call')
  BY LeaveEffect
<1>2. line \in Seq(Tasks) /\ IsInjective(line)
  BY DEF Queued
<1>3. \A u \in Range(line) : u # t
  OBVIOUS
<1>. QED BY <1>1, <1>2, <1>3, QueuedAfterLeave

(* The lines when t, which is in neither, returns and wakes one task of a  *)
(* line.                                                                   *)
LEMMA WakingLeave ==
  ASSUME TypeOK, NEW t \in Tasks, future[t] # "pending",
         NEW line, NEW ops, Queued(line, future, call, ops), t \notin Range(line),
         NEW other, NEW others, Queued(other, future, call, others), t \notin Range(other),
         "none" \notin ops \union others, ops \intersect others = {},
         Leave(t, Woken(line))
  PROVE  /\ Queued(AfterWakeup(line), future', call', ops)
         /\ Queued(other, future', call', others)
<1>. DEFINE N == Woken(line)
            rest == AfterWakeup(line)
<1>1. line \in Seq(Tasks) /\ IsInjective(line) /\ other \in Seq(Tasks) /\ IsInjective(other)
  BY DEF Queued
<1>2. /\ rest \in Seq(Tasks) /\ IsInjective(rest) /\ Range(rest) \subseteq Range(line)
      /\ \A u \in N : u \in Range(line) /\ u \in Tasks /\ future[u] = "pending"
      /\ N \intersect Range(rest) = {}
      /\ \A u \in Range(line) : future[u] = "pending" => u \in N \union Range(rest)
  BY <1>1, Wakeup
<1>3. Returned(t, N, future, call, future', call')
  BY <1>2, LeaveEffect
<1>4. \A u \in Range(rest) : u \in Range(line) /\ u # t /\ u \notin N
  BY <1>2
<1>5. \A u \in Range(other) : u \in Range(other) /\ u # t /\ u \notin N
  BY <1>2 DEF Queued
<1>. HIDE DEF N, rest
<1>6. "none" \notin ops /\ "none" \notin others
  OBVIOUS
<1>7. Queued(rest, future', call', ops)
  BY <1>2, <1>3, <1>4, <1>6, QueuedAfterLeave
<1>8. Queued(other, future', call', others)
  BY <1>1, <1>3, <1>5, <1>6, QueuedAfterLeave
<1>. QED BY <1>7, <1>8 DEF rest

(* A loop leaves the types and the lines. *)
LEMMA LoopInv ==
  ASSUME QueueInv, NEW t \in Tasks, NEW c, AtLoop(t, c), Loop(t, c),
         offered' \subseteq Items
  PROVE  QueueInv'
<1>1. /\ TypeOK /\ Queued(getters, future, call, {"get"})
      /\ Queued(putters, future, call, {"put", "close"})
  BY DEF QueueInv, Lines
<1>2. /\ c \in Calls /\ c # Idle /\ c.op \in {"put", "get", "close"}
      /\ c.op = "put" => c.item \in Items
  BY CallKinds DEF AtLoop
<1>3. /\ future[t] \in {"none", "done"} /\ t \notin mustCancel
      /\ t \notin Range(getters) /\ t \notin Range(putters)
  BY <1>1 DEF AtLoop, TypeOK, Queued
<1>4. /\ buffer \in Seq(Items) /\ Len(buffer) \in Nat /\ MaxSize \in Nat
      /\ MaxSize > 0 => Len(buffer) <= MaxSize
  BY <1>1, AsyncQueueAssumption, LenProperties DEF TypeOK
<1>5. CASE Await(t, c)
  <2>1. UNCHANGED <<buffer, closed, mustCancel, ended>>
    BY <1>5 DEF Await
  <2>2. /\ future' = [future EXCEPT ![t] = "pending"]
        /\ call' = [call EXCEPT ![t] = c]
    BY <1>5 DEF Await
  <2>3. /\ \A u \in Tasks \ {t} : future'[u] = future[u] /\ call'[u] = call[u]
        /\ future'[t] = "pending" /\ call'[t] = c
    BY <1>1, <2>2 DEF TypeOK
  <2>4. /\ future' \in [Tasks -> {"none", "pending", "done", "cancelled"}]
        /\ call' \in [Tasks -> Calls \union {Idle}]
    BY <1>1, <1>2, <2>2 DEF TypeOK
  <2>5. \A u \in Tasks : (future'[u] = "none") <=> (call'[u] = Idle)
    BY <1>1, <1>2, <2>3 DEF TypeOK
  <2>6. mustCancel' \subseteq {u \in Tasks : future'[u] = "done"}
    BY <1>1, <1>3, <2>1, <2>3 DEF TypeOK
  <2>7. TypeOK'
    BY <1>1, <2>1, <2>4, <2>5, <2>6 DEF TypeOK
  <2>8. CASE c.op = "get"
    <3>1. getters' = Append(getters, t) /\ putters' = putters
      BY <1>5, <2>8 DEF Await
    <3>2. Queued(getters', future', call', {"get"})
      <4>1. Queued(Append(getters, t), future', call', {"get"})
        BY <1>1, <1>3, <2>3, <2>8, QueuedJoined
      <4>. QED BY <3>1, <4>1
    <3>3. Queued(putters', future', call', {"put", "close"})
      <4>1. call'[t].op \notin {"put", "close"}
        BY <2>3, <2>8
      <4>2. Queued(putters, future', call', {"put", "close"})
        BY <1>1, <1>3, <2>3, <4>1, QueuedUntouched
      <4>. QED BY <3>1, <4>2
    <3>. QED BY <2>7, <3>2, <3>3 DEF QueueInv, Lines
  <2>9. CASE c.op # "get"
    <3>1. putters' = Append(putters, t) /\ getters' = getters
      BY <1>5, <2>9 DEF Await
    <3>2. Queued(putters', future', call', {"put", "close"})
      <4>1. call'[t].op \in {"put", "close"}
        BY <1>2, <2>3, <2>9
      <4>2. Queued(Append(putters, t), future', call', {"put", "close"})
        BY <1>1, <1>3, <2>3, <4>1, QueuedJoined
      <4>. QED BY <3>1, <4>2
    <3>3. Queued(getters', future', call', {"get"})
      <4>1. call'[t].op \notin {"get"}
        BY <2>3, <2>9
      <4>2. Queued(getters, future', call', {"get"})
        BY <1>1, <1>3, <2>3, <4>1, QueuedUntouched
      <4>. QED BY <3>1, <4>2
    <3>. QED BY <2>7, <3>2, <3>3 DEF QueueInv, Lines
  <2>. QED BY <2>8, <2>9
\* nobody is woken
<1>6. ASSUME Leave(t, {}), UNCHANGED <<buffer, closed, putters, getters>>,
             ended' \in BOOLEAN
      PROVE  QueueInv'
  <2>1. /\ future' \in [Tasks -> {"none", "pending", "done", "cancelled"}]
        /\ call' \in [Tasks -> Calls \union {Idle}]
        /\ \A u \in Tasks : (future'[u] = "none") <=> (call'[u] = Idle)
        /\ mustCancel' \subseteq {u \in Tasks : future'[u] = "done"}
    BY <1>1, <1>3, <1>6, LeaveEffect
  <2>2. TypeOK'
    BY <1>1, <1>6, <2>1 DEF TypeOK
  <2>3. /\ Queued(getters, future', call', {"get"})
        /\ Queued(putters, future', call', {"put", "close"})
    BY <1>1, <1>3, <1>6, QuietLeave
  <2>. QED BY <1>6, <2>2, <2>3 DEF QueueInv, Lines
<1>7. ASSUME closed' \in BOOLEAN, ended' = ended,
             buffer' \in Seq(Items), MaxSize > 0 => Len(buffer') <= MaxSize,
             getters' = AfterWakeup(getters), putters' = putters,
             Leave(t, Woken(getters))
      PROVE  QueueInv'
  <2>1. \A u \in Woken(getters) : u \in Tasks /\ future[u] = "pending"
    BY <1>1, Wakeup DEF Queued
  <2>2. /\ future' \in [Tasks -> {"none", "pending", "done", "cancelled"}]
        /\ call' \in [Tasks -> Calls \union {Idle}]
        /\ \A u \in Tasks : (future'[u] = "none") <=> (call'[u] = Idle)
        /\ mustCancel' \subseteq {u \in Tasks : future'[u] = "done"}
    BY <1>1, <1>3, <1>7, <2>1, LeaveEffect
  <2>3. TypeOK'
    BY <1>1, <1>7, <2>2 DEF TypeOK
  <2>4. /\ Queued(AfterWakeup(getters), future', call', {"get"})
        /\ Queued(putters, future', call', {"put", "close"})
    <3>1. "none" \notin {"get"} \union {"put", "close"} /\ {"get"} \intersect {"put", "close"} = {}
      OBVIOUS
    <3>. QED BY <1>1, <1>3, <1>7, <3>1, WakingLeave
  <2>. QED BY <1>7, <2>3, <2>4 DEF QueueInv, Lines
<1>8. CASE c.op = "put" /\ PutNowait(t, c)
  <2>1. CASE (PutRefused \/ Full) /\ Raise(t)
    BY <1>1, <1>6, <2>1 DEF Raise, TypeOK
  <2>2. CASE ~(PutRefused \/ Full)
    <3>1. /\ buffer' = Append(buffer, c.item) /\ ~Full /\ closed' = closed
          /\ getters' = AfterWakeup(getters) /\ putters' = putters /\ ended' = ended
          /\ Leave(t, Woken(getters))
      BY <1>8, <2>2 DEF PutNowait
    <3>2. buffer' \in Seq(Items) /\ Len(buffer') = Len(buffer) + 1
      BY <1>2, <1>4, <1>8, <3>1, AppendProperties
    <3>3. MaxSize > 0 => Len(buffer') <= MaxSize
      BY <1>4, <3>1, <3>2 DEF Full
    <3>4. closed' \in BOOLEAN
      BY <1>1, <3>1 DEF TypeOK
    <3>. QED BY <1>7, <3>1, <3>2, <3>3, <3>4
  <2>. QED BY <1>8, <2>1, <2>2 DEF PutNowait
<1>9. CASE c.op = "get" /\ GetNowait(t)
  <2>1. CASE Empty
    <3>1. ended' \in BOOLEAN
      BY <1>1, <1>9, <2>1 DEF GetNowait, TypeOK
    <3>. QED BY <1>6, <1>9, <2>1, <3>1 DEF GetNowait
  <2>2. CASE ~Empty
    <3>1. /\ buffer' = Tail(buffer) /\ putters' = AfterWakeup(putters)
          /\ Leave(t, Woken(putters)) /\ UNCHANGED <<closed, getters, ended>>
      BY <1>9, <2>2 DEF GetNowait
    <3>2. buffer' \in Seq(Items) /\ Len(buffer') = Len(buffer) - 1
      BY <1>4, <2>2, <3>1, HeadTailProperties DEF Empty
    <3>3. MaxSize > 0 => Len(buffer') <= MaxSize
      BY <1>4, <3>2
    <3>4. \A u \in Woken(putters) : u \in Tasks /\ future[u] = "pending"
      BY <1>1, Wakeup DEF Queued
    <3>5. /\ future' \in [Tasks -> {"none", "pending", "done", "cancelled"}]
          /\ call' \in [Tasks -> Calls \union {Idle}]
          /\ \A u \in Tasks : (future'[u] = "none") <=> (call'[u] = Idle)
          /\ mustCancel' \subseteq {u \in Tasks : future'[u] = "done"}
      BY <1>1, <1>3, <3>1, <3>4, LeaveEffect
    <3>6. TypeOK'
      BY <1>1, <3>1, <3>2, <3>3, <3>5 DEF TypeOK
    <3>7. /\ Queued(AfterWakeup(putters), future', call', {"put", "close"})
          /\ Queued(getters, future', call', {"get"})
      <4>1. /\ "none" \notin {"put", "close"} \union {"get"}
            /\ {"put", "close"} \intersect {"get"} = {}
        OBVIOUS
      <4>. QED BY <1>1, <1>3, <3>1, <4>1, WakingLeave
    <3>. QED BY <3>1, <3>6, <3>7 DEF QueueInv, Lines
  <2>. QED BY <2>1, <2>2
<1>10. CASE c.op = "close" /\ CloseNowait(t)
  BY <1>4, <1>7, <1>10 DEF CloseNowait
<1>. QED BY <1>5, <1>8, <1>9, <1>10 DEF Loop

(* A cancelled call takes its future out of its line. *)
LEMMA QueuedWithout ==
  ASSUME NEW t \in Tasks, future[t] # "pending",
         NEW line, NEW ops, Queued(line, future, call, ops)
  PROVE  /\ Queued(RemoveFirst(line, t), future, call, ops)
         /\ t \notin Range(RemoveFirst(line, t))
<1>1. /\ RemoveFirst(line, t) \in Seq(Tasks) /\ IsInjective(RemoveFirst(line, t))
      /\ Range(RemoveFirst(line, t)) = Range(line) \ {t}
  BY Leaving DEF Queued
<1>. QED BY <1>1 DEF Queued

(* The except clause, at either line, leaves the types and the lines. *)
LEMMA AbandonInv ==
  ASSUME QueueInv, NEW t \in Tasks, future[t] = "cancelled" \/ t \in mustCancel,
         Abandon(t), UNCHANGED offered
  PROVE  QueueInv'
<1>1. /\ TypeOK /\ Queued(getters, future, call, {"get"})
      /\ Queued(putters, future, call, {"put", "close"})
  BY DEF QueueInv, Lines
<1>2. future[t] # "pending" /\ call[t] # Idle
  BY <1>1 DEF TypeOK
<1>3. UNCHANGED <<buffer, closed, ended, leftAsleep>>
  BY DEF Abandon
<1>4. \A N : Leave(t, N) /\ (\A u \in N : u \in Tasks /\ future[u] = "pending") => TypeOK'
  <2>. SUFFICES ASSUME NEW N, Leave(t, N), \A u \in N : u \in Tasks /\ future[u] = "pending"
                PROVE  TypeOK'
    OBVIOUS
  <2>1. /\ future' \in [Tasks -> {"none", "pending", "done", "cancelled"}]
        /\ call' \in [Tasks -> Calls \union {Idle}]
        /\ \A u \in Tasks : (future'[u] = "none") <=> (call'[u] = Idle)
        /\ mustCancel' \subseteq {u \in Tasks : future'[u] = "done"}
    BY <1>1, <1>2, LeaveEffect
  <2>. QED BY <1>1, <1>3, <2>1 DEF TypeOK
<1>5. /\ "none" \notin {"get"} \union {"put", "close"}
      /\ "none" \notin {"put", "close"} \union {"get"}
      /\ {"get"} \intersect {"put", "close"} = {} /\ {"put", "close"} \intersect {"get"} = {}
  OBVIOUS
<1>6. CASE call[t].op = "get"
  <2>. DEFINE left == RemoveFirst(getters, t)
  <2>1. Queued(left, future, call, {"get"}) /\ t \notin Range(left)
    BY <1>1, <1>2, QueuedWithout
  <2>2. t \notin Range(putters)
    BY <1>1, <1>6 DEF Queued
  <2>3. CASE PassOn(t)
    <3>1. Leave(t, Woken(left)) /\ getters' = AfterWakeup(left) /\ putters' = putters
      BY <1>6, <2>3 DEF Abandon
    <3>. HIDE DEF left
    <3>2. \A u \in Woken(left) : u \in Tasks /\ future[u] = "pending"
      BY <2>1, Wakeup DEF Queued
    <3>3. /\ Queued(AfterWakeup(left), future', call', {"get"})
          /\ Queued(putters, future', call', {"put", "close"})
      BY <1>1, <1>2, <1>5, <2>1, <2>2, <3>1, WakingLeave
    <3>. QED BY <1>4, <3>1, <3>2, <3>3 DEF QueueInv, Lines
  <2>4. CASE ~PassOn(t)
    <3>1. Leave(t, {}) /\ getters' = left /\ putters' = putters
      BY <1>6, <2>4 DEF Abandon
    <3>. HIDE DEF left
    <3>2. /\ Queued(left, future', call', {"get"})
          /\ Queued(putters, future', call', {"put", "close"})
      BY <1>1, <1>2, <2>1, <2>2, <3>1, QuietLeave
    <3>. QED BY <1>4, <3>1, <3>2 DEF QueueInv, Lines
  <2>. QED BY <2>3, <2>4
<1>7. CASE call[t].op # "get"
  <2>. DEFINE left == RemoveFirst(putters, t)
  <2>1. Queued(left, future, call, {"put", "close"}) /\ t \notin Range(left)
    BY <1>1, <1>2, QueuedWithout
  <2>2. t \notin Range(getters)
    BY <1>1, <1>7 DEF Queued
  <2>3. CASE PassOn(t)
    <3>1. Leave(t, Woken(left)) /\ putters' = AfterWakeup(left) /\ getters' = getters
      BY <1>7, <2>3 DEF Abandon
    <3>. HIDE DEF left
    <3>2. \A u \in Woken(left) : u \in Tasks /\ future[u] = "pending"
      BY <2>1, Wakeup DEF Queued
    <3>3. /\ Queued(AfterWakeup(left), future', call', {"put", "close"})
          /\ Queued(getters, future', call', {"get"})
      BY <1>1, <1>2, <1>5, <2>1, <2>2, <3>1, WakingLeave
    <3>. QED BY <1>4, <3>1, <3>2, <3>3 DEF QueueInv, Lines
  <2>4. CASE ~PassOn(t)
    <3>1. Leave(t, {}) /\ putters' = left /\ getters' = getters
      BY <1>7, <2>4 DEF Abandon
    <3>. HIDE DEF left
    <3>2. /\ Queued(left, future', call', {"put", "close"})
          /\ Queued(getters, future', call', {"get"})
      BY <1>1, <1>2, <2>1, <2>2, <3>1, QuietLeave
    <3>. QED BY <1>4, <3>1, <3>2 DEF QueueInv, Lines
  <2>. QED BY <2>3, <2>4
<1>. QED BY <1>6, <1>7

(* Task.cancel leaves the types and the lines. *)
LEMMA CancelInv ==
  ASSUME QueueInv, NEW t \in Tasks, Cancel(t)
  PROVE  QueueInv'
<1>1. TypeOK /\ Lines
  BY DEF QueueInv
<1>2. UNCHANGED <<buffer, closed, putters, getters, call, offered, ended, leftAsleep>>
  BY DEF Cancel
<1>3. CASE future[t] = "pending" /\ future' = [future EXCEPT ![t] = "cancelled"]
           /\ UNCHANGED mustCancel
  <2>1. \A u \in Tasks : future'[u] = IF u = t THEN "cancelled" ELSE future[u]
    BY <1>1, <1>3 DEF TypeOK
  <2>2. future' \in [Tasks -> {"none", "pending", "done", "cancelled"}]
    BY <1>1, <1>3 DEF TypeOK
  <2>3. \A u \in Tasks : (future'[u] = "none") <=> (call'[u] = Idle)
    BY <1>1, <1>2, <1>3, <2>1 DEF TypeOK
  <2>4. mustCancel' \subseteq {u \in Tasks : future'[u] = "done"}
    BY <1>1, <1>3, <2>1 DEF TypeOK
  <2>5. TypeOK'
    BY <1>1, <1>2, <2>2, <2>3, <2>4 DEF TypeOK
  <2>6. ASSUME NEW line, NEW ops, Queued(line, future, call, ops)
        PROVE  Queued(line, future', call', ops)
    <3>1. \A u \in Range(line) : u \in Tasks
      BY <2>6, Places DEF Queued
    <3>. QED BY <1>2, <2>1, <2>6, <3>1 DEF Queued
  <2>. QED BY <1>1, <1>2, <2>5, <2>6 DEF QueueInv, Lines
<1>4. CASE future[t] = "done" /\ mustCancel' = mustCancel \union {t} /\ UNCHANGED future
  <2>1. TypeOK'
    BY <1>1, <1>2, <1>4 DEF TypeOK
  <2>2. Lines'
    BY <1>1, <1>2, <1>4 DEF Lines
  <2>. QED BY <2>1, <2>2 DEF QueueInv
<1>. QED BY <1>3, <1>4 DEF Cancel

(* A task that begins or resumes is at the loop of its method. *)
LEMMA BeginAtLoop ==
  ASSUME TypeOK, NEW t \in Tasks, Begin(t)
  PROVE  \E c : AtLoop(t, c) /\ Loop(t, c) /\ offered' \subseteq Items
<1>1. PICK c \in MayCall(t) : /\ call[t] = Idle
                              /\ offered' = offered \union ({c.item} \ {None})
                              /\ Loop(t, c)
  BY DEF Begin
<1>2. c \in Calls
  BY DEF MayCall
<1>3. c.item \in Items \union {None}
  BY <1>2 DEF Calls
<1>4. AtLoop(t, c)
  BY <1>1, <1>2 DEF AtLoop, TypeOK
<1>. QED BY <1>1, <1>3, <1>4 DEF TypeOK

LEMMA ResumeAtLoop ==
  ASSUME TypeOK, NEW t \in Tasks, Resume(t)
  PROVE  AtLoop(t, call[t]) /\ Loop(t, call[t]) /\ offered' \subseteq Items
BY DEF Resume, AtLoop, TypeOK

(* The types hold, and each pending future waits in its line, once: always. *)
LEMMA QueueInvInit == Init => QueueInv
<1>. SUFFICES ASSUME Init PROVE QueueInv
  OBVIOUS
<1>1. TypeOK
  <2>1. buffer \in Seq(Items) /\ (MaxSize > 0 => Len(buffer) <= MaxSize)
    BY EmptySeq, AsyncQueueAssumption DEF Init
  <2>. QED BY <2>1 DEF Init, TypeOK
<1>2. <<>> \in Seq(Tasks) /\ IsInjective(<<>>) /\ Range(<<>>) = {}
  BY DEF IsInjective, Range
<1>3. \A u \in Tasks : future[u] # "pending"
  BY DEF Init
<1>4. Lines
  BY <1>2, <1>3 DEF Init, Lines, Queued
<1>. QED BY <1>1, <1>4 DEF QueueInv

LEMMA QueueInvStep == QueueInv /\ [Next]_vars => QueueInv'
<1>. SUFFICES ASSUME QueueInv, [Next]_vars PROVE QueueInv'
  OBVIOUS
<1>1. CASE UNCHANGED vars
  BY <1>1 DEF vars, QueueInv, TypeOK, Lines
<1>2. ASSUME NEW t \in Tasks, Begin(t) PROVE QueueInv'
  BY <1>2, BeginAtLoop, LoopInv DEF QueueInv
<1>3. ASSUME NEW t \in Tasks, Resume(t) PROVE QueueInv'
  BY <1>3, ResumeAtLoop, LoopInv DEF QueueInv
<1>4. ASSUME NEW t \in Tasks, ResumeCancelled(t) PROVE QueueInv'
  BY <1>4, AbandonInv DEF ResumeCancelled
<1>5. ASSUME NEW t \in Tasks, Cancel(t) PROVE QueueInv'
  BY <1>5, CancelInv
<1>. QED BY <1>1, <1>2, <1>3, <1>4, <1>5 DEF Next

LEMMA QueueInvHolds == Spec => []QueueInv
BY QueueInvInit, QueueInvStep, PTL DEF Spec

(* The types hold, a task has a future exactly while it is in a call, and  *)
(* the queue never holds more than MaxSize items.                          *)
THEOREM TypeCorrect == Spec => []TypeOK
<1>1. QueueInv => TypeOK
  BY DEF QueueInv
<1>. QED BY <1>1, QueueInvHolds, PTL

--------------------------------------------------------------------------------
(* Closed queues. *)

(* Nobody falls asleep when a task returns. *)
LEMMA LeaveAsleep ==
  ASSUME TypeOK, NEW t \in Tasks, NEW N, Leave(t, N)
  PROVE  \A u \in Tasks : future'[u] = "pending" =>
           u # t /\ u \notin N /\ future[u] = "pending" /\ call'[u] = call[u]
BY DEF Leave, TypeOK

(* The loop of a method leaves no new get asleep on a closed queue. *)
LEMMA LoopLeft ==
  ASSUME QueueInv, OnlyLeftAsleep, NEW t \in Tasks, NEW c, AtLoop(t, c), Loop(t, c)
  PROVE  OnlyLeftAsleep'
<1>1. TypeOK /\ Queued(getters, future, call, {"get"}) /\ c \in Calls
  BY DEF QueueInv, Lines, AtLoop
<1>2. c.op \in {"put", "get", "close"}
  BY <1>1, CallKinds
<1>3. CASE Await(t, c)
  <2>1. /\ \A u \in Tasks : /\ future'[u] = IF u = t THEN "pending" ELSE future[u]
                            /\ call'[u] = IF u = t THEN c ELSE call[u]
        /\ closed' = closed /\ leftAsleep' = leftAsleep
    BY <1>1, <1>3 DEF Await, TypeOK
  <2>2. closed' => c.op # "get"
    BY <1>3, <2>1 DEF Await, MustWait
  <2>. QED BY <2>1, <2>2 DEF OnlyLeftAsleep, Asleep
<1>4. ASSUME NEW N, Leave(t, N), closed' = closed, leftAsleep' = leftAsleep
      PROVE  OnlyLeftAsleep'
  <2>1. \A u \in Tasks : future'[u] = "pending" =>
          future[u] = "pending" /\ call'[u] = call[u]
    BY <1>1, <1>4, LeaveAsleep
  <2>. QED BY <1>4, <2>1 DEF OnlyLeftAsleep, Asleep
<1>5. CASE PutNowait(t, c)
  BY <1>4, <1>5 DEF PutNowait, Raise
<1>6. CASE GetNowait(t)
  BY <1>4, <1>6 DEF GetNowait
<1>7. CASE CloseNowait(t)
  <2>1. /\ Leave(t, Woken(getters)) /\ getters' = AfterWakeup(getters)
        /\ leftAsleep' = {u \in Range(getters') : future[u] = "pending"}
    BY <1>7 DEF CloseNowait
  <2>2. ASSUME NEW u \in Tasks, future'[u] = "pending", call'[u].op = "get"
        PROVE  u \in leftAsleep'
    <3>1. u \notin Woken(getters) /\ future[u] = "pending" /\ call[u].op = "get"
      BY <1>1, <2>1, <2>2, LeaveAsleep
    <3>2. u \in Range(getters) /\ getters \in Seq(Tasks) /\ IsInjective(getters)
      BY <1>1, <3>1 DEF Queued
    <3>3. u \in Range(AfterWakeup(getters))
      BY <3>1, <3>2, Wakeup
    <3>. QED BY <2>1, <3>1, <3>3
  <2>. QED BY <2>2 DEF OnlyLeftAsleep, Asleep
<1>. QED BY <1>3, <1>5, <1>6, <1>7 DEF Loop

(* close_nowait wakes one getter; those it leaves are the only ones that   *)
(* sleep on a closed queue.                                                *)
THEOREM OnlyLeftSleep == Spec => []OnlyLeftAsleep
<1>1. Init => OnlyLeftAsleep
  BY DEF Init, OnlyLeftAsleep
<1>2. QueueInv /\ OnlyLeftAsleep /\ [Next]_vars => OnlyLeftAsleep'
  <2>. SUFFICES ASSUME QueueInv, OnlyLeftAsleep, [Next]_vars
                PROVE  OnlyLeftAsleep'
    OBVIOUS
  <2>0. TypeOK
    BY DEF QueueInv
  <2>1. CASE UNCHANGED vars
    BY <2>1 DEF vars, OnlyLeftAsleep, Asleep
  <2>2. ASSUME NEW t \in Tasks, Begin(t) PROVE OnlyLeftAsleep'
    BY <2>0, <2>2, BeginAtLoop, LoopLeft
  <2>3. ASSUME NEW t \in Tasks, Resume(t) PROVE OnlyLeftAsleep'
    BY <2>0, <2>3, ResumeAtLoop, LoopLeft
  <2>4. ASSUME NEW t \in Tasks, ResumeCancelled(t) PROVE OnlyLeftAsleep'
    <3>1. PICK N : Leave(t, N) /\ closed' = closed /\ leftAsleep' = leftAsleep
      BY <2>4 DEF ResumeCancelled, Abandon
    <3>2. \A u \in Tasks : future'[u] = "pending" =>
            future[u] = "pending" /\ call'[u] = call[u]
      BY <2>0, <3>1, LeaveAsleep
    <3>. QED BY <3>1, <3>2 DEF OnlyLeftAsleep, Asleep
  <2>5. ASSUME NEW t \in Tasks, Cancel(t) PROVE OnlyLeftAsleep'
    <3>1. \A u \in Tasks : future'[u] = "pending" => future[u] = "pending"
      BY <2>0, <2>5 DEF Cancel, TypeOK
    <3>2. UNCHANGED <<call, closed, leftAsleep>>
      BY <2>5 DEF Cancel
    <3>. QED BY <3>1, <3>2 DEF OnlyLeftAsleep, Asleep
  <2>. QED BY <2>1, <2>2, <2>3, <2>4, <2>5 DEF Next
<1>. QED BY <1>1, <1>2, QueueInvHolds, PTL DEF Spec

--------------------------------------------------------------------------------
(* Refinement. *)

(* The loop of a method is a step of ClosableFifo or none. *)
LEMMA LoopFifo ==
  ASSUME TypeOK, NEW t \in Tasks, NEW c, AtLoop(t, c), Loop(t, c)
  PROVE  [Fifo!Next]_(Fifo!vars)
<1>1. c.op = "put" => c.item \in Items
  BY CallKinds DEF AtLoop
<1>2. CASE Await(t, c) \/ Raise(t)
  BY <1>2 DEF Await, Raise, Fifo!vars
<1>3. CASE c.op = "put" /\ PutNowait(t, c)
  <2>1. CASE ~closed /\ buffer' = Append(buffer, c.item) /\ UNCHANGED <<closed, ended>>
    <3>1. Fifo!Enter(t, c.item)
      BY <2>1 DEF Fifo!Enter
    <3>. QED BY <1>1, <1>3, <3>1 DEF Fifo!Next
  <2>. QED BY <1>2, <1>3, <2>1 DEF PutNowait, PutRefused
<1>4. CASE c.op = "get" /\ GetNowait(t)
  <2>1. CASE Empty
    <3>1. ended' = (ended \/ closed) /\ UNCHANGED <<buffer, closed>>
      BY <1>4, <2>1 DEF GetNowait
    <3>2. CASE closed
      BY <2>1, <3>1, <3>2 DEF Empty, Fifo!Next, Fifo!End
    <3>3. CASE ~closed
      <4>1. ended' = ended
        BY <3>1, <3>3 DEF TypeOK
      <4>. QED BY <3>1, <4>1 DEF Fifo!vars
    <3>. QED BY <3>2, <3>3
  <2>2. CASE ~Empty
    BY <1>4, <2>2 DEF GetNowait, Empty, Fifo!Next, Fifo!Take
  <2>. QED BY <2>1, <2>2
<1>5. CASE CloseNowait(t)
  BY <1>5 DEF CloseNowait, Fifo!Next, Fifo!Close
<1>. QED BY <1>2, <1>3, <1>4, <1>5 DEF Loop

(* The queue keeps the promise of ClosableFifo, with no put that may still *)
(* enter an item after close.                                              *)
THEOREM ImplementsFifo == Spec => FifoSpec
<1>1. Init => Fifo!Init
  BY DEF Init, Fifo!Init
<1>2. TypeOK /\ [Next]_vars => [Fifo!Next]_(Fifo!vars)
  <2>. SUFFICES ASSUME TypeOK, [Next]_vars
                PROVE  [Fifo!Next]_(Fifo!vars)
    OBVIOUS
  <2>1. CASE UNCHANGED vars
    BY <2>1 DEF vars, Fifo!vars
  <2>2. ASSUME NEW t \in Tasks, Begin(t) PROVE [Fifo!Next]_(Fifo!vars)
    BY <2>2, BeginAtLoop, LoopFifo
  <2>3. ASSUME NEW t \in Tasks, Resume(t) PROVE [Fifo!Next]_(Fifo!vars)
    BY <2>3, ResumeAtLoop, LoopFifo
  <2>4. ASSUME NEW t \in Tasks, ResumeCancelled(t) PROVE [Fifo!Next]_(Fifo!vars)
    BY <2>4 DEF ResumeCancelled, Abandon, Fifo!vars
  <2>5. ASSUME NEW t \in Tasks, Cancel(t) PROVE [Fifo!Next]_(Fifo!vars)
    BY <2>5 DEF Cancel, Fifo!vars
  <2>. QED BY <2>1, <2>2, <2>3, <2>4, <2>5 DEF Next
<1>. QED BY <1>1, <1>2, TypeCorrect, PTL DEF Spec, FifoSpec, Fifo!Spec

--------------------------------------------------------------------------------
(* Wake-ups. *)

(* There are finitely many tasks. *)
LEMMA TasksFinite ==
  ASSUME NEW S \in SUBSET Tasks
  PROVE  IsFiniteSet(S) /\ Cardinality(S) \in Nat
BY AsyncQueueAssumption, FS_Subset, FS_CardinalityType

(* When A sleep and W are awake, t returns and the tasks of N are woken,   *)
(* and somebody still sleeps, one more is awake, or as many if t was.      *)
LEMMA WakeCount ==
  ASSUME NEW A, NEW W \in SUBSET Tasks, NEW t, NEW N,
         A \intersect W = {}, A # {} => \E u \in A : N = {u},
         A \ N # {}
  PROVE  /\ Cardinality((W \ {t}) \union N) >= Cardinality(W)
         /\ t \notin W => Cardinality((W \ {t}) \union N) = Cardinality(W) + 1
<1>1. IsFiniteSet(W) /\ Cardinality(W) \in Nat
  BY TasksFinite
<1>2. PICK u \in A : N = {u}
  OBVIOUS
<1>3. /\ IsFiniteSet(W \ {t})
      /\ Cardinality(W \ {t}) = IF t \in W THEN Cardinality(W) - 1 ELSE Cardinality(W)
  BY <1>1, FS_RemoveElement, Zenon
<1>4. u \notin W \ {t}
  BY <1>2
<1>5. Cardinality((W \ {t}) \union {u}) = Cardinality(W \ {t}) + 1
  BY <1>3, <1>4, FS_AddElement
<1>6. Cardinality((W \ {t}) \union N) = Cardinality(W \ {t}) + 1
  BY <1>2, <1>5
<1>. QED BY <1>1, <1>3, <1>6

(* A task that returns takes at most one from those awake. *)
LEMMA LeaveCount ==
  ASSUME NEW W \in SUBSET Tasks, NEW t
  PROVE  Cardinality(W \ {t}) >= Cardinality(W) - 1
<1>1. IsFiniteSet(W) /\ Cardinality(W) \in Nat
  BY TasksFinite
<1>2. Cardinality(W \ {t}) = IF t \in W THEN Cardinality(W) - 1 ELSE Cardinality(W)
  BY <1>1, FS_RemoveElement, Zenon
<1>. QED BY <1>1, <1>2

(* If a task of a line sleeps, one is woken. *)
LEMMA WokenSleeps ==
  ASSUME NEW line, NEW ops, Queued(line, future, call, ops)
  PROVE  /\ Woken(line) \subseteq Asleep(ops)
         /\ Asleep(ops) # {} => \E u \in Asleep(ops) : Woken(line) = {u}
<1>1. line \in Seq(Tasks) /\ IsInjective(line)
  BY DEF Queued
<1>2. /\ \A u \in Woken(line) : u \in Range(line) /\ u \in Tasks /\ future[u] = "pending"
      /\ Woken(line) = {} => \A u \in Range(line) : future[u] # "pending"
      /\ Woken(line) = {} \/ \E u \in Tasks : Woken(line) = {u}
  BY <1>1, Wakeup
<1>3. Woken(line) \subseteq Asleep(ops)
  BY <1>2 DEF Queued, Asleep
<1>4. ASSUME Asleep(ops) # {} PROVE Woken(line) # {}
  BY <1>2, <1>4 DEF Queued, Asleep
<1>. QED BY <1>2, <1>3, <1>4

(* Who sleeps and who is awake when t returns and the tasks of N are woken.*)
LEMMA LeaveSets ==
  ASSUME TypeOK, NEW t \in Tasks, future[t] # "pending", NEW N, Leave(t, N),
         N \subseteq Asleep({"get"}) \union Asleep({"put", "close"})
  PROVE  /\ Asleep({"get"})' = Asleep({"get"}) \ N
         /\ Awake({"get"})' = (Awake({"get"}) \ {t}) \union (N \intersect Asleep({"get"}))
         /\ Asleep({"put", "close"})' = Asleep({"put", "close"}) \ N
         /\ Awake({"put", "close"})' =
              (Awake({"put", "close"}) \ {t}) \union (N \intersect Asleep({"put", "close"}))
<1>1. \A u \in N : u \in Tasks /\ future[u] = "pending"
  BY DEF Asleep
<1>2. Returned(t, N, future, call, future', call')
  BY <1>1, LeaveEffect
<1>3. Asleep({"get"})' = Asleep({"get"}) \ N
  BY <1>2 DEF Returned, Asleep, Idle
<1>4. Awake({"get"})' = (Awake({"get"}) \ {t}) \union (N \intersect Asleep({"get"}))
  BY <1>1, <1>2 DEF Returned, Asleep, Awake, Idle
<1>5. Asleep({"put", "close"})' = Asleep({"put", "close"}) \ N
  BY <1>2 DEF Returned, Asleep, Idle
<1>6. Awake({"put", "close"})' =
        (Awake({"put", "close"}) \ {t}) \union (N \intersect Asleep({"put", "close"}))
  BY <1>1, <1>2 DEF Returned, Asleep, Awake, Idle
<1>. QED BY <1>3, <1>4, <1>5, <1>6

(* Nobody is asleep and awake, or in two methods. *)
LEMMA Apart ==
  /\ Asleep({"get"}) \intersect Awake({"get"}) = {}
  /\ Asleep({"put", "close"}) \intersect Awake({"put", "close"}) = {}
  /\ Asleep({"get"}) \intersect Asleep({"put", "close"}) = {}
  /\ Awake({"get"}) \in SUBSET Tasks /\ Awake({"put", "close"}) \in SUBSET Tasks
BY DEF Asleep, Awake

(* Getters and putters when t returns and wakes a getter, of those in line.*)
LEMMA WakeGetter ==
  ASSUME TypeOK, NEW t \in Tasks, future[t] # "pending",
         NEW line, Queued(line, future, call, {"get"}), Leave(t, Woken(line))
  PROVE  /\ Asleep({"put", "close"})' = Asleep({"put", "close"})
         /\ Awake({"put", "close"})' = Awake({"put", "close"}) \ {t}
         /\ Asleep({"get"})' # {} =>
              /\ Asleep({"get"}) # {}
              /\ Cardinality(Awake({"get"})') >= Cardinality(Awake({"get"}))
              /\ t \notin Awake({"get"}) =>
                   Cardinality(Awake({"get"})') = Cardinality(Awake({"get"})) + 1
<1>. DEFINE N == Woken(line)
            A == Asleep({"get"})
            W == Awake({"get"})
<1>1. N \subseteq A /\ (A # {} => \E u \in A : N = {u})
  BY WokenSleeps
<1>2. /\ Asleep({"get"})' = A \ N
      /\ Awake({"get"})' = (W \ {t}) \union (N \intersect A)
      /\ Asleep({"put", "close"})' = Asleep({"put", "close"}) \ N
      /\ Awake({"put", "close"})' =
              (Awake({"put", "close"}) \ {t}) \union (N \intersect Asleep({"put", "close"}))
  BY <1>1, LeaveSets
<1>3. N \intersect A = N /\ N \intersect Asleep({"put", "close"}) = {}
  BY <1>1, Apart
<1>4. /\ Asleep({"put", "close"})' = Asleep({"put", "close"})
      /\ Awake({"put", "close"})' = Awake({"put", "close"}) \ {t}
  BY <1>2, <1>3
<1>5. ASSUME A \ N # {}
      PROVE  /\ Cardinality((W \ {t}) \union N) >= Cardinality(W)
             /\ t \notin W => Cardinality((W \ {t}) \union N) = Cardinality(W) + 1
  <2>1. W \in SUBSET Tasks /\ A \intersect W = {}
    BY Apart
  <2>. HIDE DEF N, A, W
  <2>. QED BY <1>1, <1>5, <2>1, WakeCount
<1>6. Awake({"get"})' = (W \ {t}) \union N
  BY <1>2, <1>3
<1>. HIDE DEF N
<1>7. ASSUME Asleep({"get"})' # {}
      PROVE  /\ Asleep({"get"}) # {}
             /\ Cardinality(Awake({"get"})') >= Cardinality(W)
             /\ t \notin W => Cardinality(Awake({"get"})') = Cardinality(W) + 1
  <2>1. A \ N # {}
    BY <1>2, <1>7
  <2>2. A # {}
    BY <2>1
  <2>. QED BY <1>5, <1>6, <2>1, <2>2
<1>. QED BY <1>4, <1>7

(* The same with the two lines exchanged. *)
LEMMA WakePutter ==
  ASSUME TypeOK, NEW t \in Tasks, future[t] # "pending",
         NEW line, Queued(line, future, call, {"put", "close"}), Leave(t, Woken(line))
  PROVE  /\ Asleep({"get"})' = Asleep({"get"})
         /\ Awake({"get"})' = Awake({"get"}) \ {t}
         /\ Asleep({"put", "close"})' # {} =>
              /\ Asleep({"put", "close"}) # {}
              /\ Cardinality(Awake({"put", "close"})') >= Cardinality(Awake({"put", "close"}))
              /\ t \notin Awake({"put", "close"}) =>
                   Cardinality(Awake({"put", "close"})')
                     = Cardinality(Awake({"put", "close"})) + 1
<1>. DEFINE N == Woken(line)
            A == Asleep({"put", "close"})
            W == Awake({"put", "close"})
<1>1. N \subseteq A /\ (A # {} => \E u \in A : N = {u})
  BY WokenSleeps
<1>2. /\ Asleep({"put", "close"})' = A \ N
      /\ Awake({"put", "close"})' = (W \ {t}) \union (N \intersect A)
      /\ Asleep({"get"})' = Asleep({"get"}) \ N
      /\ Awake({"get"})' = (Awake({"get"}) \ {t}) \union (N \intersect Asleep({"get"}))
  BY <1>1, LeaveSets
<1>3. N \intersect A = N /\ N \intersect Asleep({"get"}) = {}
  BY <1>1, Apart
<1>4. Asleep({"get"})' = Asleep({"get"}) /\ Awake({"get"})' = Awake({"get"}) \ {t}
  BY <1>2, <1>3
<1>5. ASSUME A \ N # {}
      PROVE  /\ Cardinality((W \ {t}) \union N) >= Cardinality(W)
             /\ t \notin W => Cardinality((W \ {t}) \union N) = Cardinality(W) + 1
  <2>1. W \in SUBSET Tasks /\ A \intersect W = {}
    BY Apart
  <2>. HIDE DEF N, A, W
  <2>. QED BY <1>1, <1>5, <2>1, WakeCount
<1>6. Awake({"put", "close"})' = (W \ {t}) \union N
  BY <1>2, <1>3
<1>. HIDE DEF N
<1>7. ASSUME Asleep({"put", "close"})' # {}
      PROVE  /\ Asleep({"put", "close"}) # {}
             /\ Cardinality(Awake({"put", "close"})') >= Cardinality(W)
             /\ t \notin W => Cardinality(Awake({"put", "close"})') = Cardinality(W) + 1
  <2>1. A \ N # {}
    BY <1>2, <1>7
  <2>2. A # {}
    BY <2>1
  <2>. QED BY <1>5, <1>6, <2>1, <2>2
<1>. QED BY <1>4, <1>7

(* The numbers in WakeupsSuffice. *)
Numbers ==
  /\ buffer \in Seq(Items) /\ Len(buffer) \in Nat /\ MaxSize \in Nat
  /\ Empty => Len(buffer) = 0
  /\ Cardinality(Awake({"get"})) \in Nat
  /\ Cardinality(Awake({"put", "close"})) \in Nat

LEMMA Counts == TypeOK => Numbers
<1>. SUFFICES ASSUME TypeOK PROVE Numbers
  OBVIOUS
<1>1. buffer \in Seq(Items) /\ Len(buffer) \in Nat /\ MaxSize \in Nat
  BY AsyncQueueAssumption, LenProperties DEF TypeOK
<1>2. Empty => Len(buffer) = 0
  BY EmptySeq DEF Empty
<1>3. Cardinality(Awake({"get"})) \in Nat /\ Cardinality(Awake({"put", "close"})) \in Nat
  BY Apart, TasksFinite
<1>. QED BY <1>1, <1>2, <1>3 DEF Numbers

(* A task that returns and wakes nobody leaves the wake-ups sufficient if  *)
(* it was awake in neither line, or there is nothing more for those of its *)
(* line to do.                                                             *)
LEMMA QuietWakes ==
  ASSUME TypeOK, TypeOK', WakeupsSuffice, NEW t \in Tasks, future[t] # "pending",
         Leave(t, {}), UNCHANGED <<buffer, closed>>,
         t \in Awake({"get"}) => Len(buffer) = 0,
         t \in Awake({"put", "close"}) => Len(buffer) >= MaxSize
  PROVE  WakeupsSuffice'
<1>1. /\ Asleep({"get"})' = Asleep({"get"})
      /\ Awake({"get"})' = Awake({"get"}) \ {t}
      /\ Asleep({"put", "close"})' = Asleep({"put", "close"})
      /\ Awake({"put", "close"})' = Awake({"put", "close"}) \ {t}
  <2>1. /\ Asleep({"get"})' = Asleep({"get"}) \ {}
        /\ Awake({"get"})' = (Awake({"get"}) \ {t}) \union ({} \intersect Asleep({"get"}))
        /\ Asleep({"put", "close"})' = Asleep({"put", "close"}) \ {}
        /\ Awake({"put", "close"})' =
             (Awake({"put", "close"}) \ {t}) \union ({} \intersect Asleep({"put", "close"}))
    <3>1. {} \subseteq Asleep({"get"}) \union Asleep({"put", "close"})
      OBVIOUS
    <3>. QED BY <3>1, LeaveSets
  <2>. QED BY <2>1
<1>2. Numbers /\ Numbers'
  BY Counts, PTL
<1>3. t \notin Awake({"get"}) => Awake({"get"})' = Awake({"get"})
  BY <1>1
<1>4. t \notin Awake({"put", "close"}) => Awake({"put", "close"})' = Awake({"put", "close"})
  BY <1>1
<1>5. ItemsHaveTakers'
  BY <1>1, <1>2, <1>3 DEF Numbers, WakeupsSuffice, ItemsHaveTakers
<1>6. RoomHasTakers'
  BY <1>1, <1>2, <1>4 DEF Numbers, WakeupsSuffice, RoomHasTakers
<1>. QED BY <1>5, <1>6 DEF WakeupsSuffice

(* The loop of a method leaves the wake-ups sufficient. *)
LEMMA LoopWakes ==
  ASSUME QueueInv, QueueInv', WakeupsSuffice, NEW t \in Tasks, NEW c, AtLoop(t, c),
         Loop(t, c)
  PROVE  WakeupsSuffice'
<1>1. /\ TypeOK /\ TypeOK' /\ Queued(getters, future, call, {"get"})
      /\ Queued(putters, future, call, {"put", "close"})
  BY DEF QueueInv, Lines
<1>2. c \in Calls /\ c.op \in {"put", "get", "close"} /\ (c.op = "put" => c.item \in Items)
  BY CallKinds DEF AtLoop
<1>3. /\ future[t] # "pending"
      /\ c.op = "get" => t \notin Awake({"put", "close"})
      /\ c.op # "get" => t \notin Awake({"get"})
  BY DEF AtLoop, Awake
<1>4. /\ buffer \in Seq(Items) /\ Len(buffer) \in Nat /\ MaxSize \in Nat
      /\ Empty => Len(buffer) = 0
      /\ Cardinality(Awake({"get"})) \in Nat
      /\ Cardinality(Awake({"put", "close"})) \in Nat
  BY <1>1, Counts DEF Numbers
<1>5. /\ Len(buffer') \in Nat
      /\ Cardinality(Awake({"get"})') \in Nat
      /\ Cardinality(Awake({"put", "close"})') \in Nat
  <2>1. Numbers'
    BY <1>1, Counts, PTL
  <2>. QED BY <2>1 DEF Numbers
<1>6. CASE Await(t, c)
  <2>1. /\ \A u \in Tasks : /\ future'[u] = IF u = t THEN "pending" ELSE future[u]
                            /\ call'[u] = IF u = t THEN c ELSE call[u]
        /\ UNCHANGED <<buffer, closed>>
    BY <1>1, <1>6 DEF Await, TypeOK
  <2>2. CASE c.op = "get"
    <3>1. /\ Asleep({"put", "close"})' = Asleep({"put", "close"})
          /\ Awake({"put", "close"})' = Awake({"put", "close"})
      BY <1>3, <2>1, <2>2 DEF Asleep, Awake
    <3>2. Len(buffer') = 0
      BY <1>4, <1>6, <2>1, <2>2 DEF Await, MustWait
    <3>3. ItemsHaveTakers'
      BY <1>5, <3>2 DEF ItemsHaveTakers
    <3>4. RoomHasTakers'
      BY <2>1, <3>1 DEF WakeupsSuffice, RoomHasTakers
    <3>. QED BY <3>3, <3>4 DEF WakeupsSuffice
  <2>3. CASE c.op # "get"
    <3>1. Asleep({"get"})' = Asleep({"get"}) /\ Awake({"get"})' = Awake({"get"})
      BY <1>3, <2>1, <2>3 DEF Asleep, Awake
    <3>2. Len(buffer') >= MaxSize
      BY <1>6, <2>1, <2>3 DEF Await, MustWait, Full
    <3>3. ItemsHaveTakers'
      BY <2>1, <3>1 DEF WakeupsSuffice, ItemsHaveTakers
    <3>4. RoomHasTakers'
      BY <1>4, <1>5, <3>2 DEF RoomHasTakers
    <3>. QED BY <3>3, <3>4 DEF WakeupsSuffice
  <2>. QED BY <2>2, <2>3
<1>7. CASE c.op = "put" /\ PutNowait(t, c)
  <2>1. CASE PutRefused \/ Full
    <3>1. Leave(t, {}) /\ UNCHANGED <<buffer, closed>>
      BY <1>7, <2>1 DEF PutNowait, Raise
    <3>2. CASE closed
      BY <3>1, <3>2 DEF WakeupsSuffice, ItemsHaveTakers, RoomHasTakers
    <3>3. CASE ~closed
      <4>1. Len(buffer) >= MaxSize
        BY <2>1, <3>3 DEF PutRefused, Full
      <4>. QED BY <1>1, <1>3, <1>7, <3>1, <4>1, QuietWakes
    <3>. QED BY <3>2, <3>3
  <2>2. CASE ~(PutRefused \/ Full)
    <3>1. /\ buffer' = Append(buffer, c.item) /\ closed' = closed
          /\ Leave(t, Woken(getters))
      BY <1>7, <2>2 DEF PutNowait
    <3>2. Len(buffer') = Len(buffer) + 1
      BY <1>2, <1>4, <1>7, <3>1, AppendProperties
    <3>3. /\ Asleep({"put", "close"})' = Asleep({"put", "close"})
          /\ Awake({"put", "close"})' = Awake({"put", "close"}) \ {t}
          /\ Asleep({"get"})' # {} =>
               /\ Asleep({"get"}) # {}
               /\ Cardinality(Awake({"get"})') = Cardinality(Awake({"get"})) + 1
      BY <1>1, <1>3, <1>7, <3>1, WakeGetter
    <3>4. Cardinality(Awake({"put", "close"})') >= Cardinality(Awake({"put", "close"})) - 1
      <4>1. Cardinality(Awake({"put", "close"}) \ {t}) >= Cardinality(Awake({"put", "close"})) - 1
        BY Apart, LeaveCount
      <4>. QED BY <3>3, <4>1
    <3>5. ItemsHaveTakers'
      BY <1>4, <1>5, <3>1, <3>2, <3>3 DEF WakeupsSuffice, ItemsHaveTakers
    <3>6. RoomHasTakers'
      BY <1>4, <1>5, <3>1, <3>2, <3>3, <3>4 DEF WakeupsSuffice, RoomHasTakers
    <3>. QED BY <3>5, <3>6 DEF WakeupsSuffice
  <2>. QED BY <2>1, <2>2
<1>8. CASE c.op = "get" /\ GetNowait(t)
  <2>1. CASE Empty
    <3>1. Leave(t, {}) /\ UNCHANGED <<buffer, closed>>
      BY <1>8, <2>1 DEF GetNowait
    <3>. QED BY <1>1, <1>3, <1>4, <1>8, <2>1, <3>1, QuietWakes
  <2>2. CASE ~Empty
    <3>1. /\ buffer' = Tail(buffer) /\ closed' = closed /\ Leave(t, Woken(putters))
      BY <1>8, <2>2 DEF GetNowait
    <3>2. Len(buffer') = Len(buffer) - 1
      BY <1>4, <2>2, <3>1, HeadTailProperties DEF Empty
    <3>3. /\ Asleep({"get"})' = Asleep({"get"})
          /\ Awake({"get"})' = Awake({"get"}) \ {t}
          /\ Asleep({"put", "close"})' # {} =>
               /\ Asleep({"put", "close"}) # {}
               /\ Cardinality(Awake({"put", "close"})')
                    = Cardinality(Awake({"put", "close"})) + 1
      BY <1>1, <1>3, <1>8, <3>1, WakePutter
    <3>4. Cardinality(Awake({"get"})') >= Cardinality(Awake({"get"})) - 1
      <4>1. Cardinality(Awake({"get"}) \ {t}) >= Cardinality(Awake({"get"})) - 1
        BY Apart, LeaveCount
      <4>. QED BY <3>3, <4>1
    <3>5. ItemsHaveTakers'
      BY <1>4, <1>5, <3>1, <3>2, <3>3, <3>4 DEF WakeupsSuffice, ItemsHaveTakers
    <3>6. RoomHasTakers'
      BY <1>4, <1>5, <3>1, <3>2, <3>3 DEF WakeupsSuffice, RoomHasTakers
    <3>. QED BY <3>5, <3>6 DEF WakeupsSuffice
  <2>. QED BY <2>1, <2>2
<1>9. CASE CloseNowait(t)
  BY <1>9 DEF CloseNowait, WakeupsSuffice, ItemsHaveTakers, RoomHasTakers
<1>. QED BY <1>6, <1>7, <1>8, <1>9 DEF Loop

(* A cancelled call passes the wake-up on that it was given, so the        *)
(* wake-ups stay sufficient.                                               *)
LEMMA AbandonWakes ==
  ASSUME QueueInv, QueueInv', WakeupsSuffice, NEW t \in Tasks,
         future[t] = "cancelled" \/ t \in mustCancel, Abandon(t)
  PROVE  WakeupsSuffice'
<1>1. /\ TypeOK /\ TypeOK' /\ Queued(getters, future, call, {"get"})
      /\ Queued(putters, future, call, {"put", "close"})
  BY DEF QueueInv, Lines
<1>2. future[t] # "pending" /\ UNCHANGED <<buffer, closed>>
  BY <1>1 DEF Abandon, TypeOK
<1>3. /\ Len(buffer) \in Nat /\ MaxSize \in Nat
      /\ Empty => Len(buffer) = 0
      /\ Cardinality(Awake({"get"})) \in Nat
      /\ Cardinality(Awake({"put", "close"})) \in Nat
  BY <1>1, Counts DEF Numbers
<1>4. /\ Cardinality(Awake({"get"})') \in Nat
      /\ Cardinality(Awake({"put", "close"})') \in Nat
  <2>1. Numbers'
    BY <1>1, Counts, PTL
  <2>. QED BY <2>1 DEF Numbers
<1>5. future[t] = "cancelled" => t \notin Awake({"get"}) /\ t \notin Awake({"put", "close"})
  BY DEF Awake
<1>6. CASE ~PassOn(t)
  <2>1. Leave(t, {})
    BY <1>6 DEF Abandon
  <2>2. t \in Awake({"get"}) => Len(buffer) = 0
    BY <1>3, <1>5, <1>6 DEF PassOn, Awake
  <2>3. t \in Awake({"put", "close"}) => Len(buffer) >= MaxSize
    BY <1>5, <1>6 DEF PassOn, Awake, Full
  <2>. QED BY <1>1, <1>2, <2>1, <2>2, <2>3, QuietWakes
<1>7. CASE PassOn(t) /\ call[t].op = "get"
  <2>. DEFINE left == RemoveFirst(getters, t)
  <2>1. Queued(left, future, call, {"get"}) /\ Leave(t, Woken(left))
    BY <1>1, <1>2, <1>7, QueuedWithout DEF Abandon
  <2>. HIDE DEF left
  <2>2. /\ Asleep({"put", "close"})' = Asleep({"put", "close"})
        /\ Awake({"put", "close"})' = Awake({"put", "close"}) \ {t}
        /\ Asleep({"get"})' # {} =>
             /\ Asleep({"get"}) # {}
             /\ Cardinality(Awake({"get"})') >= Cardinality(Awake({"get"}))
    BY <1>1, <1>2, <2>1, WakeGetter
  <2>3. Awake({"put", "close"})' = Awake({"put", "close"})
    <3>1. t \notin Awake({"put", "close"})
      BY <1>7 DEF Awake
    <3>. QED BY <2>2, <3>1
  <2>4. ItemsHaveTakers'
    BY <1>2, <1>3, <1>4, <2>2 DEF WakeupsSuffice, ItemsHaveTakers
  <2>5. RoomHasTakers'
    BY <1>2, <2>2, <2>3 DEF WakeupsSuffice, RoomHasTakers
  <2>. QED BY <2>4, <2>5 DEF WakeupsSuffice
<1>8. CASE PassOn(t) /\ call[t].op # "get"
  <2>. DEFINE left == RemoveFirst(putters, t)
  <2>1. Queued(left, future, call, {"put", "close"}) /\ Leave(t, Woken(left))
    BY <1>1, <1>2, <1>8, QueuedWithout DEF Abandon
  <2>. HIDE DEF left
  <2>2. /\ Asleep({"get"})' = Asleep({"get"})
        /\ Awake({"get"})' = Awake({"get"}) \ {t}
        /\ Asleep({"put", "close"})' # {} =>
             /\ Asleep({"put", "close"}) # {}
             /\ Cardinality(Awake({"put", "close"})') >= Cardinality(Awake({"put", "close"}))
    BY <1>1, <1>2, <2>1, WakePutter
  <2>3. Awake({"get"})' = Awake({"get"})
    <3>1. t \notin Awake({"get"})
      BY <1>8 DEF Awake
    <3>. QED BY <2>2, <3>1
  <2>4. ItemsHaveTakers'
    BY <1>2, <2>2, <2>3 DEF WakeupsSuffice, ItemsHaveTakers
  <2>5. RoomHasTakers'
    BY <1>2, <1>3, <1>4, <2>2 DEF WakeupsSuffice, RoomHasTakers
  <2>. QED BY <2>4, <2>5 DEF WakeupsSuffice
<1>. QED BY <1>6, <1>7, <1>8

(* No wake-up is lost on an open queue, whoever is cancelled: while a get  *)
(* sleeps, every item has a task on its way to it, and while a put or      *)
(* close sleeps, so has all the room.                                      *)
THEOREM NoWakeupIsLost == Spec => []WakeupsSuffice
<1>1. Init => WakeupsSuffice
  BY DEF Init, WakeupsSuffice, ItemsHaveTakers, RoomHasTakers, Asleep
<1>2. QueueInv /\ QueueInv' /\ WakeupsSuffice /\ [Next]_vars => WakeupsSuffice'
  <2>. SUFFICES ASSUME QueueInv, QueueInv', WakeupsSuffice, [Next]_vars
                PROVE  WakeupsSuffice'
    OBVIOUS
  <2>0. TypeOK
    BY DEF QueueInv
  <2>1. CASE UNCHANGED vars
    BY <2>1 DEF vars, WakeupsSuffice, ItemsHaveTakers, RoomHasTakers, Asleep, Awake
  <2>2. ASSUME NEW t \in Tasks, Begin(t) PROVE WakeupsSuffice'
    BY <2>0, <2>2, BeginAtLoop, LoopWakes
  <2>3. ASSUME NEW t \in Tasks, Resume(t) PROVE WakeupsSuffice'
    BY <2>0, <2>3, ResumeAtLoop, LoopWakes
  <2>4. ASSUME NEW t \in Tasks, ResumeCancelled(t) PROVE WakeupsSuffice'
    BY <2>4, AbandonWakes DEF ResumeCancelled
  <2>5. ASSUME NEW t \in Tasks, Cancel(t) PROVE WakeupsSuffice'
    <3>1. UNCHANGED <<buffer, closed, call>>
      BY <2>5 DEF Cancel
    <3>2. \A u \in Tasks : /\ future'[u] = "pending" => future[u] = "pending"
                           /\ future'[u] = "done" <=> future[u] = "done"
      BY <2>0, <2>5 DEF Cancel, TypeOK
    <3>3. /\ Awake({"get"})' = Awake({"get"})
          /\ Awake({"put", "close"})' = Awake({"put", "close"})
      BY <3>1, <3>2 DEF Awake
    <3>4. /\ Asleep({"get"})' \subseteq Asleep({"get"})
          /\ Asleep({"put", "close"})' \subseteq Asleep({"put", "close"})
      BY <3>1, <3>2 DEF Asleep
    <3>. QED BY <3>1, <3>3, <3>4 DEF WakeupsSuffice, ItemsHaveTakers, RoomHasTakers
  <2>. QED BY <2>1, <2>2, <2>3, <2>4, <2>5 DEF Next
<1>. QED BY <1>1, <1>2, QueueInvHolds, PTL DEF Spec
================================================================================
