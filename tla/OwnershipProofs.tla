--------------------------- MODULE OwnershipProofs ---------------------------
(***************************************************************************)
(* Proof that no message buffer of PDStack is leaked, freed twice or used  *)
(* by two owners at once, in every environment: whatever resets, timeouts  *)
(* and errors cut a handler short.                                         *)
(***************************************************************************)
EXTENDS PDStackProofs, FiniteSetTheorems

-----------------------------------------------------------------------------
(* Queues without repetition.                                              *)
In(q, b) == \E i \in 1..Len(q) : q[i] = b
Once(q) == \A i, j \in 1..Len(q) : q[i] = q[j] => i = j

\* The rest of a queue: the head is gone from it and nothing else.
LEMMA TailOnce ==
    ASSUME NEW S, NEW q \in Seq(S), q # <<>>, Once(q)
    PROVE  /\ Tail(q) \in Seq(S) /\ Head(q) \in S /\ Once(Tail(q))
           /\ In(q, Head(q)) /\ ~In(Tail(q), Head(q))
           /\ \A b : In(q, b) <=> b = Head(q) \/ In(Tail(q), b)
<1>1. /\ Len(q) \in Nat /\ Len(q) >= 1 /\ Len(Tail(q)) = Len(q) - 1
      /\ Head(q) = q[1] /\ Tail(q) \in Seq(S) /\ Head(q) \in S
      /\ \A i \in 1..Len(Tail(q)) : Tail(q)[i] = q[i + 1]
  OBVIOUS
<1>2. Once(Tail(q)) /\ ~In(Tail(q), Head(q))
  BY <1>1 DEF Once, In
<1>3. ASSUME NEW b PROVE In(q, b) <=> b = Head(q) \/ In(Tail(q), b)
  <2>1. ASSUME NEW i \in 1..Len(q), q[i] = b, i # 1 PROVE In(Tail(q), b)
    <3>1. i - 1 \in 1..Len(Tail(q)) /\ Tail(q)[i - 1] = b
      BY <1>1, <2>1
    <3>2. QED BY <3>1 DEF In
  <2>2. QED BY <1>1, <2>1 DEF In
<1>4. In(q, Head(q))
  BY <1>3
<1>5. QED BY <1>1, <1>2, <1>3, <1>4

\* A queue with a new head.
LEMMA ConsOnce ==
    ASSUME NEW S, NEW q \in Seq(S), NEW x \in S, Once(q), ~In(q, x)
    PROVE  /\ <<x>> \o q \in Seq(S) /\ Once(<<x>> \o q)
           /\ \A b : In(<<x>> \o q, b) <=> b = x \/ In(q, b)
<1> DEFINE r == <<x>> \o q
<1>1. /\ r \in Seq(S) /\ Len(r) = Len(q) + 1 /\ Len(q) \in Nat
      /\ r[1] = x /\ \A i \in 1..Len(q) : r[i + 1] = q[i]
  OBVIOUS
<1>2. \A i \in 1..Len(r) : i # 1 => i - 1 \in 1..Len(q) /\ r[i] = q[i - 1]
  BY <1>1
<1> HIDE DEF r
<1>3. Once(r)
  <2>1. \A i \in 1..Len(r) : i # 1 => r[i] # x
    BY <1>2 DEF In
  <2>2. ASSUME NEW i \in 1..Len(r), NEW j \in 1..Len(r), r[i] = r[j], i # 1, j # 1
        PROVE  i = j
    <3>1. i - 1 = j - 1
      BY <1>2, <2>2 DEF Once
    <3>2. QED BY <1>1, <3>1
  <2>3. QED BY <1>1, <2>1, <2>2 DEF Once
<1>4. \A b : In(r, b) <=> b = x \/ In(q, b)
  <2>1. ASSUME NEW b, In(q, b) PROVE In(r, b)
    <3>1. PICK i \in 1..Len(q) : q[i] = b
      BY <2>1 DEF In
    <3>2. i + 1 \in 1..Len(r) /\ r[i + 1] = b
      BY <1>1, <3>1
    <3>3. QED BY <3>2 DEF In
  <2>2. ASSUME NEW b, In(r, b) PROVE b = x \/ In(q, b)
    BY <1>1, <1>2, <2>2 DEF In
  <2>3. In(r, x)
    BY <1>1 DEF In
  <2>4. QED BY <2>1, <2>2, <2>3
<1>5. QED BY <1>1, <1>3, <1>4 DEF r

\* A queue with a new last element.
LEMMA AppendOnce ==
    ASSUME NEW S, NEW q \in Seq(S), NEW x \in S, Once(q), ~In(q, x)
    PROVE  /\ Append(q, x) \in Seq(S) /\ Once(Append(q, x))
           /\ \A b : In(Append(q, x), b) <=> b = x \/ In(q, b)
<1> DEFINE r == Append(q, x)
<1>1. /\ r \in Seq(S) /\ Len(r) = Len(q) + 1 /\ Len(q) \in Nat
      /\ r[Len(q) + 1] = x /\ \A i \in 1..Len(q) : r[i] = q[i]
  OBVIOUS
<1>2. \A i \in 1..Len(r) : i # Len(q) + 1 => i \in 1..Len(q)
  BY <1>1
<1> HIDE DEF r
<1>3. Once(r)
  BY <1>1, <1>2 DEF Once, In
<1>4. \A b : In(r, b) <=> b = x \/ In(q, b)
  <2>1. In(r, x)
    <3>1. Len(q) + 1 \in 1..Len(r)
      BY <1>1
    <3>2. QED BY <1>1, <3>1 DEF In
  <2>2. ASSUME NEW b, In(q, b) PROVE In(r, b)
    BY <1>1, <2>2 DEF In
  <2>3. ASSUME NEW b, In(r, b) PROVE b = x \/ In(q, b)
    BY <1>1, <1>2, <2>3 DEF In
  <2>4. QED BY <2>1, <2>2, <2>3
<1>5. QED BY <1>1, <1>3, <1>4 DEF r

\* A mailbox that holds each buffer at most once, and one of them not at all,
\* is not full: a post to it does not fail.
LEMMA RoomLeft ==
    ASSUME NEW q \in Seq(Buf), NEW x \in Buf, Once(q), ~In(q, x)
    PROVE  Len(q) < PoolSize
<1>1. PoolSize \in Nat /\ PoolSize >= 1 /\ Len(q) \in Nat
  BY PoolAssumption
<1>2. IsFiniteSet(Buf) /\ Cardinality(Buf) = PoolSize
  BY <1>1, FS_Interval DEF Buf
<1>3. IsFiniteSet(Buf \ {x}) /\ Cardinality(Buf \ {x}) = PoolSize - 1
  BY <1>2, FS_RemoveElement
<1>4. IsFiniteSet(1..Len(q)) /\ Cardinality(1..Len(q)) = Len(q)
  BY <1>1, FS_Interval
<1>5. q \in [1..Len(q) -> Buf \ {x}]
  BY DEF In
<1>6. ~(Cardinality(Buf \ {x}) < Cardinality(1..Len(q)))
  BY <1>3, <1>4, <1>5, FS_PigeonHole DEF Once
<1>7. QED BY <1>1, <1>3, <1>4, <1>6

-----------------------------------------------------------------------------
(* Who owns which buffer: the free list P, the Policy Engine's mailbox M   *)
(* and the pointers H of the threads and the DPM.                          *)
Slot == {"request", "sending", "caps", "message", "rx"}
Pointers == [Slot -> Buf \cup {NoBuf}]

Owned(P, M, H) ==
    /\ Once(P) /\ Once(M)
    /\ \A b \in Buf : ~(In(P, b) /\ In(M, b))
    /\ \A s \in Slot : H[s] # NoBuf => ~In(P, H[s]) /\ ~In(M, H[s])
    /\ \A s, t \in Slot : H[s] = H[t] /\ H[s] # NoBuf => s = t
    /\ \A b \in Buf : In(P, b) \/ In(M, b) \/ \E s \in Slot : H[s] = b

\* chPoolAlloc into a pointer that was null.
LEMMA AllocOwned ==
    ASSUME NEW P \in Seq(Buf), NEW M \in Seq(Buf), NEW H \in Pointers,
           Owned(P, M, H), NEW s \in Slot, H[s] = NoBuf, P # <<>>
    PROVE  /\ Head(P) \in Buf /\ Tail(P) \in Seq(Buf)
           /\ [H EXCEPT ![s] = Head(P)] \in Pointers
           /\ Owned(Tail(P), M, [H EXCEPT ![s] = Head(P)])
<1> DEFINE G == [H EXCEPT ![s] = Head(P)]
<1>1. /\ Tail(P) \in Seq(Buf) /\ Head(P) \in Buf /\ Once(Tail(P))
      /\ In(P, Head(P)) /\ ~In(Tail(P), Head(P))
      /\ \A b : In(P, b) <=> b = Head(P) \/ In(Tail(P), b)
  BY TailOnce DEF Owned
<1>2. G \in Pointers /\ G[s] = Head(P) /\ \A t \in Slot : t # s => G[t] = H[t]
  BY <1>1 DEF Pointers
<1> HIDE DEF G
<1>3. Owned(Tail(P), M, G)
  BY <1>1, <1>2, NoBufOutside DEF Owned
<1>4. QED BY <1>1, <1>2, <1>3 DEF G

\* chPoolFree of what a pointer holds, which is then forgotten.
LEMMA FreeOwned ==
    ASSUME NEW P \in Seq(Buf), NEW M \in Seq(Buf), NEW H \in Pointers,
           Owned(P, M, H), NEW s \in Slot, H[s] # NoBuf
    PROVE  /\ <<H[s]>> \o P \in Seq(Buf) /\ [H EXCEPT ![s] = NoBuf] \in Pointers
           /\ Owned(<<H[s]>> \o P, M, [H EXCEPT ![s] = NoBuf])
<1> DEFINE G == [H EXCEPT ![s] = NoBuf]
           Q == <<H[s]>> \o P
<1>1. H[s] \in Buf
  BY DEF Pointers
<1>2. Q \in Seq(Buf) /\ Once(Q) /\ \A b : In(Q, b) <=> b = H[s] \/ In(P, b)
  BY <1>1, ConsOnce DEF Owned
<1>3. G \in Pointers /\ G[s] = NoBuf /\ \A t \in Slot : t # s => G[t] = H[t]
  BY DEF Pointers
<1> HIDE DEF G, Q
<1>4. Owned(Q, M, G)
  BY <1>1, <1>2, <1>3 DEF Owned
<1>5. QED BY <1>2, <1>3, <1>4 DEF G, Q

\* chMBPost of what a pointer holds.
LEMMA PostOwned ==
    ASSUME NEW P \in Seq(Buf), NEW M \in Seq(Buf), NEW H \in Pointers,
           Owned(P, M, H), NEW s \in Slot, H[s] # NoBuf
    PROVE  /\ Append(M, H[s]) \in Seq(Buf) /\ [H EXCEPT ![s] = NoBuf] \in Pointers
           /\ Owned(P, Append(M, H[s]), [H EXCEPT ![s] = NoBuf])
<1> DEFINE G == [H EXCEPT ![s] = NoBuf]
           Q == Append(M, H[s])
<1>1. H[s] \in Buf
  BY DEF Pointers
<1>2. Q \in Seq(Buf) /\ Once(Q) /\ \A b : In(Q, b) <=> b = H[s] \/ In(M, b)
  BY <1>1, AppendOnce DEF Owned
<1>3. G \in Pointers /\ G[s] = NoBuf /\ \A t \in Slot : t # s => G[t] = H[t]
  BY DEF Pointers
<1> HIDE DEF G, Q
<1>4. Owned(P, Q, G)
  BY <1>1, <1>2, <1>3 DEF Owned
<1>5. QED BY <1>2, <1>3, <1>4 DEF G, Q

\* chMBFetch into a pointer that was null.
LEMMA FetchOwned ==
    ASSUME NEW P \in Seq(Buf), NEW M \in Seq(Buf), NEW H \in Pointers,
           Owned(P, M, H), NEW s \in Slot, H[s] = NoBuf, M # <<>>
    PROVE  /\ Head(M) \in Buf /\ Tail(M) \in Seq(Buf)
           /\ [H EXCEPT ![s] = Head(M)] \in Pointers
           /\ Owned(P, Tail(M), [H EXCEPT ![s] = Head(M)])
<1> DEFINE G == [H EXCEPT ![s] = Head(M)]
<1>1. /\ Tail(M) \in Seq(Buf) /\ Head(M) \in Buf /\ Once(Tail(M))
      /\ In(M, Head(M)) /\ ~In(Tail(M), Head(M))
      /\ \A b : In(M, b) <=> b = Head(M) \/ In(Tail(M), b)
  BY TailOnce DEF Owned
<1>2. G \in Pointers /\ G[s] = Head(M) /\ \A t \in Slot : t # s => G[t] = H[t]
  BY <1>1 DEF Pointers
<1> HIDE DEF G
<1>3. Owned(P, Tail(M), G)
  BY <1>1, <1>2, NoBufOutside DEF Owned
<1>4. QED BY <1>1, <1>2, <1>3 DEF G

\* A pointer is handed over to another one, which was null.
LEMMA HandOwned ==
    ASSUME NEW P \in Seq(Buf), NEW M \in Seq(Buf), NEW H \in Pointers,
           Owned(P, M, H), NEW s \in Slot, NEW t \in Slot, H[s] # NoBuf,
           H[t] = NoBuf
    PROVE  /\ [H EXCEPT ![s] = NoBuf, ![t] = H[s]] \in Pointers
           /\ Owned(P, M, [H EXCEPT ![s] = NoBuf, ![t] = H[s]])
<1> DEFINE G == [H EXCEPT ![s] = NoBuf, ![t] = H[s]]
<1>1. /\ G \in Pointers /\ G[s] = NoBuf /\ G[t] = H[s] /\ s # t
      /\ \A u \in Slot : u # s /\ u # t => G[u] = H[u]
  BY DEF Pointers
<1> HIDE DEF G
<1>2. Owned(P, M, G)
  BY <1>1 DEF Owned
<1>3. QED BY <1>1, <1>2 DEF G

\* A message is fetched and freed at once: no pointer held it.
LEMMA FetchFreeOwned ==
    ASSUME NEW P \in Seq(Buf), NEW M \in Seq(Buf), NEW H \in Pointers,
           Owned(P, M, H), M # <<>>, NEW s \in Slot, H[s] = NoBuf
    PROVE  /\ Head(M) \in Buf /\ Tail(M) \in Seq(Buf) /\ <<Head(M)>> \o P \in Seq(Buf)
           /\ Owned(<<Head(M)>> \o P, Tail(M), H)
           /\ \A t \in Slot : H[t] # Head(M)
<1> DEFINE G == [H EXCEPT ![s] = Head(M)]
<1>1. /\ G \in Pointers /\ Owned(P, Tail(M), G) /\ Tail(M) \in Seq(Buf)
      /\ Head(M) \in Buf /\ G[s] = Head(M)
  BY FetchOwned DEF Pointers
<1>2. [G EXCEPT ![s] = NoBuf] = H
  BY DEF Pointers
<1> HIDE DEF G
<1>3. Owned(<<Head(M)>> \o P, Tail(M), H) /\ <<Head(M)>> \o P \in Seq(Buf)
  <2>1. G[s] # NoBuf
    BY <1>1, NoBufOutside
  <2>2. /\ <<G[s]>> \o P \in Seq(Buf)
        /\ Owned(<<G[s]>> \o P, Tail(M), [G EXCEPT ![s] = NoBuf])
    BY <1>1, <2>1, FreeOwned
  <2>3. QED BY <1>1, <1>2, <2>2
<1>4. \A t \in Slot : H[t] # Head(M)
  <2>1. In(M, Head(M))
    BY TailOnce DEF Owned
  <2>2. QED BY <1>1, <2>1, NoBufOutside DEF Owned
<1>5. QED BY <1>1, <1>3, <1>4

-----------------------------------------------------------------------------
(* The inductive invariant.  Between two steps pe.message is a reference   *)
(* only on the way to EvalCap, and the receiving thread's outside its wait.*)
Pointer(s) ==
    CASE s = "request" -> pe.request
      [] s = "sending" -> pe.sending
      [] s = "caps" -> dpm.caps
      [] s = "message" -> IF pe.state = "PESinkEvalCap" THEN pe.message ELSE NoBuf
      [] s = "rx" -> IF rx.state # "PRLRxWaitPHY" THEN rx.message ELSE NoBuf
Held == [s \in Slot |-> Pointer(s)]

Buffers == Owned(pool, box.PE, Held)

\* What the pointers that are used again point at.
Contents ==
    /\ pe.request # NoBuf => mem[pe.request].type = "Request"
    /\ dpm.caps # NoBuf => mem[dpm.caps].type = "SourceCap"
    /\ pe.state = "PESinkEvalCap" /\ pe.message # NoBuf
         => mem[pe.message].type = "SourceCap"

\* A message is being sent only in the states that wait for its outcome, and
\* there are always capabilities to evaluate.
Handlers ==
    /\ pe.state \notin Sending => pe.sending = NoBuf
    /\ pe.state = "PESinkEvalCap" => pe.message # NoBuf \/ dpm.caps # NoBuf
    /\ fault # "nullMessage"

OInv == Buffers /\ Contents /\ Handlers

LEMMA HeldFunction ==
    Held = [s \in Slot |-> Held[s]] /\ Held' = [s \in Slot |-> Held'[s]]
<1>1. Held = [s \in Slot |-> Held[s]]
  BY DEF Held
<1>2. Held' = [s \in Slot |-> Held'[s]]
  BY DEF Held
<1>3. QED BY <1>1, <1>2

\* Two assignments of the pointers that differ in one of them.
LEMMA DifferInOne ==
    ASSUME NEW f, NEW g, NEW s \in Slot, f = [t \in Slot |-> f[t]],
           g = [t \in Slot |-> g[t]], \A t \in Slot \ {s} : g[t] = f[t]
    PROVE  g = [f EXCEPT ![s] = g[s]]
<1> DEFINE h == [f EXCEPT ![s] = g[s]]
<1>1. h = [t \in Slot |-> IF t = s THEN g[s] ELSE f[t]]
  OBVIOUS
<1>2. QED BY <1>1

\* The pointers one by one.
LEMMA HeldFacts ==
    ASSUME IInv
    PROVE  /\ Held \in Pointers /\ pool \in Seq(Buf) /\ box.PE \in Seq(Buf)
           /\ Held["request"] = pe.request /\ Held["sending"] = pe.sending
           /\ Held["caps"] = dpm.caps
           /\ pe.state = "PESinkEvalCap" => Held["message"] = pe.message
           /\ pe.state # "PESinkEvalCap" => Held["message"] = NoBuf
           /\ rx.state # "PRLRxWaitPHY" => Held["rx"] = rx.message
           /\ rx.state = "PRLRxWaitPHY" => Held["rx"] = NoBuf
<1>1. /\ pe.request \in Buf \cup {NoBuf} /\ pe.sending \in Buf \cup {NoBuf}
      /\ pe.message \in Buf \cup {NoBuf} /\ dpm.caps \in Buf \cup {NoBuf}
      /\ rx.message \in Buf \cup {NoBuf}
  BY DEF IInv, Policy, Link, PEType, DPMType, RXType
<1>2. /\ Held["request"] = pe.request /\ Held["sending"] = pe.sending
      /\ Held["caps"] = dpm.caps
      /\ Held["message"] = IF pe.state = "PESinkEvalCap" THEN pe.message ELSE NoBuf
      /\ Held["rx"] = IF rx.state # "PRLRxWaitPHY" THEN rx.message ELSE NoBuf
  BY DEF Held, Pointer, Slot
<1>3. Held \in Pointers
  <2>1. \A s \in Slot : Held[s] \in Buf \cup {NoBuf}
    BY <1>1, <1>2 DEF Slot
  <2>2. QED BY <2>1, HeldFunction DEF Pointers
<1>4. QED BY <1>2, <1>3 DEF IInv, Kernel, BoxType

\* The step changes what the pointers of S hold, and no other.
Moves(S) ==
    /\ "request" \in S \/ pe'.request = pe.request
    /\ "sending" \in S \/ pe'.sending = pe.sending
    /\ "caps" \in S \/ dpm'.caps = dpm.caps
    /\ \/ "message" \in S
       \/ pe'.state # "PESinkEvalCap" /\ pe.state # "PESinkEvalCap"
       \/ pe'.state = pe.state /\ pe'.message = pe.message
    /\ \/ "rx" \in S
       \/ rx'.state = rx.state /\ rx'.message = rx.message
       \/ /\ rx'.message = rx.message
          /\ rx.state # "PRLRxWaitPHY" /\ rx'.state # "PRLRxWaitPHY"

\* The value of the pointers after a step.
LEMMA HeldSame == ASSUME Moves({}) PROVE Held' = Held
BY DEF Held, Pointer, Moves, Slot

LEMMA HeldMoves ==
    ASSUME NEW s \in Slot, Moves({s}) PROVE Held' = [Held EXCEPT ![s] = Held'[s]]
<1>1. \A t \in Slot \ {s} : Held'[t] = Held[t]
  BY DEF Held, Pointer, Moves, Slot
<1>2. QED BY <1>1, HeldFunction, DifferInOne

\* Two pointers never hold the same buffer, nor one of the free list.
LEMMA Apart ==
    ASSUME IInv, OInv
    PROVE  /\ \A s \in Slot : Held[s] # NoBuf => Held[s] \in Buf /\ ~In(pool, Held[s])
           /\ \A s, t \in Slot : s # t /\ Held[s] # NoBuf => Held[s] # Held[t]
BY HeldFacts DEF OInv, Buffers, Owned, Pointers

\* The Policy Engine's pointers keep their contents if what they hold does.
LEMMA ContentsKept ==
    ASSUME IInv, OInv, UNCHANGED <<pe, dpm>>,
           \A s \in {"request", "caps", "message"} :
              Held[s] # NoBuf => mem'[Held[s]].type = mem[Held[s]].type
    PROVE  Contents'
BY HeldFacts DEF OInv, Contents

-----------------------------------------------------------------------------
(* The steps of everyone but the Policy Engine.                            *)

\* The receiving thread allocates, posts and drops messages.
LEMMA RXOwned == ASSUME IInv, OInv, RXNext PROVE OInv'
<1> USE DEF rxUnchanged
<1>1. UNCHANGED <<pe, dpm>> /\ fault' \in {fault, "nullAlloc"}
  BY DEF RXNext, RxWaitPHY, RxRead, RxReset, RxResetYielded, RxCheckMessageID,
         RxStoreMessageID, RxStoreYielded, RXAt, Runs, Fault, partnerVars
<1>2. Handlers'
  BY <1>1 DEF OInv, Handlers
<1>3. pool \in Seq(Buf) /\ box.PE \in Seq(Buf) /\ Held \in Pointers /\ rx \in RXType
  BY HeldFacts DEF IInv, Link
<1>4. ASSUME mem' = mem PROVE Contents'
  BY <1>1, <1>4, ContentsKept
<1>5. ASSUME UNCHANGED <<pool, mem, box>>, Moves({}) PROVE OInv'
  BY <1>2, <1>4, <1>5, HeldSame DEF OInv, Buffers
<1>6. ASSUME RXGoto("PRLRxCheckMessageID") \/ RXGoto("PRLRxStoreMessageID")
             \/ RXGoto("PRLRxReset"), rx.state # "PRLRxWaitPHY"
      PROVE  Moves({})
  BY <1>1, <1>3, <1>6 DEF RXGoto, RXType, Moves
<1>7. ASSUME RxDrop, rx.state # "PRLRxWaitPHY", box' = box PROVE OInv'
  <2>1. Held["rx"] = rx.message /\ rx.message \in Buf /\ "rx" \in Slot
    BY <1>7, HeldFacts DEF IInv, Link, RXType, Slot
  <2>2. /\ pool' = <<rx.message>> \o pool /\ mem' = [mem EXCEPT ![rx.message] = Junk]
        /\ rx'.state = "PRLRxWaitPHY"
    BY <1>3, <1>7 DEF RxDrop, Freed, RXType
  <2>3. Held' = [Held EXCEPT !["rx"] = NoBuf]
    <3>1. Moves({"rx"})
      BY <1>1 DEF Moves
    <3>2. Held'["rx"] = NoBuf
      BY <2>2 DEF Held, Pointer, Slot
    <3>3. QED BY <2>1, <3>1, <3>2, HeldMoves
  <2>4. Buffers'
    BY <1>3, <1>7, <2>1, <2>2, <2>3, FreeOwned, NoBufOutside DEF OInv, Buffers
  <2>5. Contents'
    <3>1. \A s \in {"request", "caps", "message"} :
             Held[s] # NoBuf => Held[s] # rx.message /\ Held[s] \in Buf
      BY <2>1, Apart DEF Slot
    <3>2. QED BY <1>1, <2>2, <3>1, ContentsKept DEF IInv, Kernel, MemType
  <2>6. QED BY <1>2, <2>4, <2>5 DEF OInv
<1>8. CASE RxWaitPHY
  <2>1. CASE "RESET" \notin evt.RX /\ pool = <<>>
    BY <1>5, <1>8, <2>1 DEF RxWaitPHY, Fault, Moves
  <2>2. CASE "RESET" \in evt.RX
    <3>1. Moves({}) /\ UNCHANGED <<pool, mem, box>>
      BY <1>1, <1>3, <1>8, <2>2 DEF RxWaitPHY, RXAt, RXGoto, RXType, Moves
    <3>2. QED BY <1>5, <3>1
  <2>3. CASE "RESET" \notin evt.RX /\ pool # <<>>
    <3>1. /\ pool' = Tail(pool) /\ UNCHANGED <<box, mem>> /\ "rx" \in Slot
          /\ rx'.state = "PRLRxRead" /\ rx'.message = Head(pool)
          /\ Held["rx"] = NoBuf
      BY <1>3, <1>8, <2>3, HeldFacts DEF RxWaitPHY, RXAt, RXType, Slot
    <3>2. Held' = [Held EXCEPT !["rx"] = Head(pool)]
      <4>1. Moves({"rx"})
        BY <1>1 DEF Moves
      <4>2. Held'["rx"] = Head(pool)
        BY <3>1 DEF Held, Pointer, Slot
      <4>3. QED BY <3>1, <4>1, <4>2, HeldMoves
    <3>3. Buffers'
      BY <1>3, <2>3, <3>1, <3>2, AllocOwned DEF OInv, Buffers
    <3>4. QED BY <1>2, <1>4, <3>1, <3>3 DEF OInv
  <2>4. QED BY <2>1, <2>2, <2>3
<1>9. CASE RxRead
  <2>1. Held["rx"] = rx.message /\ Moves({}) /\ UNCHANGED <<pool, box>>
    BY <1>1, <1>3, <1>9, HeldFacts DEF RxRead, RXAt, RXGoto, RXType, Moves
  <2>2. \A b \in Buf : b # rx.message => mem'[b] = mem[b]
    BY <1>9 DEF RxRead, IInv, Kernel, MemType
  <2>3. Contents'
    <3>1. \A s \in {"request", "caps", "message"} :
             Held[s] # NoBuf => Held[s] # rx.message /\ Held[s] \in Buf
      BY <2>1, Apart DEF Slot
    <3>2. QED BY <1>1, <2>2, <3>1, ContentsKept
  <2>4. QED BY <1>2, <2>1, <2>3, HeldSame DEF OInv, Buffers
<1>10. CASE RxReset \/ RxStoreMessageID
  <2>1. UNCHANGED <<pool, mem, box>> /\ Moves({})
    BY <1>1, <1>3, <1>10 DEF RxReset, RxStoreMessageID, RXAt, RXType, Moves
  <2>2. QED BY <1>5, <2>1
<1>11. CASE RxResetYielded
  <2>1. rx.state # "PRLRxWaitPHY" /\ box' = box
    BY <1>11 DEF RxResetYielded, RXAt
  <2>2. RxDrop \/ (RXGoto("PRLRxCheckMessageID") /\ UNCHANGED <<pool, mem>>)
    BY <1>11 DEF RxResetYielded
  <2>3. QED BY <1>5, <1>6, <1>7, <2>1, <2>2
<1>12. CASE RxCheckMessageID
  <2>1. rx.state # "PRLRxWaitPHY" /\ box' = box
    BY <1>12 DEF RxCheckMessageID, RXAt
  <2>2. RxDrop \/ (RXGoto("PRLRxStoreMessageID") /\ UNCHANGED <<pool, mem>>)
    BY <1>12 DEF RxCheckMessageID
  <2>3. QED BY <1>5, <1>6, <1>7, <2>1, <2>2
<1>13. CASE RxStoreYielded
  <2>1. Held["rx"] = rx.message /\ rx.message \in Buf /\ "rx" \in Slot
    BY <1>13, HeldFacts DEF RxStoreYielded, RXAt, IInv, Link, RXType, Slot
  <2>2. ~In(box.PE, rx.message) /\ Once(box.PE)
    BY <2>1, NoBufOutside DEF OInv, Buffers, Owned
  <2>3. box'.PE = Append(box.PE, rx.message)
    <3>1. Len(box.PE) < PoolSize
      BY <1>3, <2>1, <2>2, RoomLeft
    <3>2. QED BY <1>13, <3>1 DEF RxStoreYielded, Posted, IInv, Kernel, BoxType
  <2>4. Held' = [Held EXCEPT !["rx"] = NoBuf]
    <3>1. Moves({"rx"})
      BY <1>1 DEF Moves
    <3>2. rx'.state = "PRLRxWaitPHY"
      BY <1>3, <1>13 DEF RxStoreYielded, RXType
    <3>3. Held'["rx"] = NoBuf
      BY <3>2 DEF Held, Pointer, Slot
    <3>4. QED BY <2>1, <3>1, <3>3, HeldMoves
  <2>5. pool' = pool /\ mem' = mem
    BY <1>13 DEF RxStoreYielded
  <2>6. Buffers'
    <3>1. Owned(pool, Append(box.PE, Held["rx"]), [Held EXCEPT !["rx"] = NoBuf])
      BY <1>3, <2>1, PostOwned, NoBufOutside DEF OInv, Buffers
    <3>2. QED BY <2>1, <2>3, <2>4, <2>5, <3>1 DEF Buffers
  <2>7. QED BY <1>2, <1>4, <2>5, <2>6 DEF OInv
<1>14. QED BY <1>8, <1>9, <1>10, <1>11, <1>12, <1>13 DEF RXNext

\* Whoever leaves the free list, the Policy Engine's mailbox and pointers and
\* the messages' types alone leaves ownership alone.
LEMMA ElseOwned ==
    ASSUME IInv, OInv, UNCHANGED <<pool, pe, dpm>>, box'.PE = box.PE,
           rx'.state = rx.state, rx'.message = rx.message,
           \A b \in Buf : mem'[b].type = mem[b].type,
           fault' # "nullMessage"
    PROVE  OInv'
<1>1. Moves({})
  BY DEF Moves
<1>2. Buffers'
  BY <1>1, HeldSame DEF OInv, Buffers
<1>3. Contents'
  BY Apart, ContentsKept DEF Slot
<1>4. QED BY <1>2, <1>3 DEF OInv, Handlers

\* The transmitting thread numbers a message and changes nothing else of it.
LEMMA TXOwned == ASSUME IInv, OInv, TXNext PROVE OInv'
<1> USE DEF txUnchanged
<1>1. UNCHANGED <<pool, pe, dpm, rx>> /\ fault' \in {fault, "freedWrite"}
  BY DEF TXNext, TxPHYReset, TxWaitMessage, TxReset, TxConstructMessage, TxSinkTx,
         TxSend, TxWaitResponse, TxMatchMessageID, TxTransmissionError,
         TxMessageSent, TxOver, TxDiscardMessage, Fault, partnerVars
<1>2. box'.PE = box.PE
  <2>1. CASE TxWaitMessage
    BY <2>1 DEF TxWaitMessage, IInv, Kernel, BoxType
  <2>2. CASE ~TxWaitMessage
    BY <2>2 DEF TXNext, TxPHYReset, TxReset, TxConstructMessage, TxSinkTx,
         TxSend, TxWaitResponse, TxMatchMessageID, TxTransmissionError,
         TxMessageSent, TxOver, TxDiscardMessage, Fault, partnerVars
  <2>3. QED BY <2>1, <2>2
<1>3. \A b \in Buf : mem'[b].type = mem[b].type
  <2>1. CASE mem' = [mem EXCEPT ![tx.message].id = tx.counter]
    BY <2>1 DEF IInv, Kernel, MemType, Msg
  <2>2. mem' = mem \/ mem' = [mem EXCEPT ![tx.message].id = tx.counter]
    BY DEF TXNext, TxPHYReset, TxWaitMessage, TxReset, TxConstructMessage, TxSinkTx,
         TxSend, TxWaitResponse, TxMatchMessageID, TxTransmissionError,
         TxMessageSent, TxOver, TxDiscardMessage, Fault, partnerVars
  <2>3. QED BY <2>1, <2>2
<1>4. fault' # "nullMessage"
  BY <1>1 DEF OInv, Handlers
<1>5. QED BY <1>1, <1>2, <1>3, <1>4, ElseOwned

\* The Hard Reset thread resets the stored MessageID only.
LEMMA HROwned == ASSUME IInv, OInv, HRNext PROVE OInv'
<1>1. /\ UNCHANGED <<pool, pe, dpm, box, mem, fault>>
      /\ rx' = rx \/ rx' = [rx EXCEPT !.messageId = 0]
  BY DEF HRNext, HrResetLayer, HrResetYielded, HrIndicateHardReset, HrTellPE,
         HrRequestHardReset, HrWaitPHY, HrTimeout, HrHardResetRequested, HrWaitPE,
         hrUnchanged
<1>2. rx'.state = rx.state /\ rx'.message = rx.message
  BY <1>1 DEF IInv, Link, RXType
<1>3. QED BY <1>1, <1>2, ElseOwned DEF OInv, Handlers

\* The port and main own no messages.
LEMMA PortOwned ==
    ASSUME IInv, OInv, I2CDone \/ IntN \/ Source \/ Transceiver \/ Application
    PROVE  OInv'
<1>1. UNCHANGED <<pool, pe, dpm, box, mem, fault, rx>>
  <2>1. CASE I2CDone
    BY <2>1 DEF I2CDone
  <2>2. CASE IntN
    BY <2>2 DEF IntN, IntNPoll, IntNTellRX, IntNTellTX, IntNTellHR, IntNTell,
                IntNTellPE, threadsUnchanged
  <2>3. CASE Source
    <3>1. SrcSend => portUnchanged
      BY Zenon DEF SrcSend
    <3>2. SrcStart => portUnchanged
      BY Zenon DEF SrcStart
    <3>3. QED BY <2>3, <3>1, <3>2 DEF Source, SrcTransition, SrcSoftReset,
                SrcHardReset, SrcRecover, portUnchanged, threadsUnchanged
  <2>4. CASE Transceiver
    BY <2>4 DEF Transceiver, PhySent, PhyRetryFail, PhyHardSent, Overheat,
                portUnchanged, threadsUnchanged
  <2>5. CASE Application
    BY <2>5 DEF Application, MainBoot, ButtonPress, ButtonRelease, AskSourceCap,
                TellPE, threadsUnchanged
  <2>6. QED BY <2>1, <2>2, <2>3, <2>4, <2>5
<1>2. QED BY <1>1, ElseOwned DEF OInv, Handlers

-----------------------------------------------------------------------------
(* The Policy Engine: what its services do to the owners.                  *)
Elsewhere == PEState \ (Sending \cup {"PESinkEvalCap"})

\* A handler that neither takes nor gives a message away.
LEMMA QuietOwned ==
    ASSUME IInv, OInv, UNCHANGED <<pool, mem, rx>>, box'.PE = box.PE,
           fault' # "nullMessage", pe'.request = pe.request,
           pe'.sending = pe.sending, dpm'.caps = dpm.caps,
           pe.state # "PESinkEvalCap", pe'.state # "PESinkEvalCap",
           pe'.state \notin Sending => pe.state \notin Sending
    PROVE  OInv'
<1>1. Moves({})
  BY DEF Moves
<1>2. Buffers'
  BY <1>1, HeldSame DEF OInv, Buffers
<1>3. QED BY <1>2 DEF OInv, Contents, Handlers

\* A message is taken from the mailbox and freed.
LEMMA DroppedOwned ==
    ASSUME IInv, OInv, NEW s \in Elsewhere, NEW urgent, NEW b, Fetch(s, urgent, b),
           Freed(b), pe'.request = pe.request, pe'.sending = pe.sending,
           dpm'.caps = dpm.caps, pe'.state \in Elsewhere
    PROVE  OInv'
<1>1. /\ pe.state = s /\ UNCHANGED <<rx, fault>> /\ box.PE # <<>> /\ b = Head(box.PE)
      /\ box'.PE = Tail(box.PE) /\ pool' = <<b>> \o pool
      /\ mem' = [mem EXCEPT ![b] = Junk]
  BY DEF Fetch, Awake, At, peUnchanged, Freed, IInv, Kernel, BoxType
<1>2. /\ Held["message"] = NoBuf /\ "message" \in Slot /\ Held \in Pointers
      /\ pool \in Seq(Buf) /\ box.PE \in Seq(Buf)
  BY <1>1, HeldFacts DEF Slot, Elsewhere
<1>3. /\ Owned(<<b>> \o pool, Tail(box.PE), Held)
      /\ \A t \in Slot : Held[t] # b
  BY <1>1, <1>2, FetchFreeOwned DEF OInv, Buffers
<1>4. Moves({})
  BY <1>1 DEF Moves, Elsewhere
<1>5. Buffers'
  BY <1>1, <1>3, <1>4, HeldSame DEF Buffers
<1>6. Contents'
  <2>1. pe.request # b /\ dpm.caps # b
    BY <1>3, HeldFacts DEF Slot
  <2>2. \A c \in Buf : c # b => mem'[c] = mem[c]
    BY <1>1 DEF IInv, Kernel, MemType
  <2>3. pe.request \in Buf \cup {NoBuf} /\ dpm.caps \in Buf \cup {NoBuf}
    BY DEF IInv, Policy, PEType, DPMType
  <2>4. QED BY <2>1, <2>2, <2>3 DEF OInv, Contents, Elsewhere
<1>7. QED BY <1>1, <1>5, <1>6 DEF OInv, Handlers, Elsewhere

LEMMA ConsumedOwned ==
    ASSUME IInv, OInv, NEW s \in Elsewhere, NEW urgent, NEW types,
           NEW next \in Elsewhere, NEW p \in PEType,
           Consume(s, urgent, types, next, p), p.request = pe.request,
           p.sending = pe.sending, dpm'.caps = dpm.caps
    PROVE  OInv'
<1>1. PICK b \in Buf :
        /\ Fetch(s, urgent, b)
        /\ Freed(b)
        /\ pe' = [p EXCEPT !.state = next, !.message = NoBuf]
  BY DEF Consume
<1>2. pe'.request = p.request /\ pe'.sending = p.sending /\ pe'.state = next
  BY <1>1 DEF PEType
<1>3. QED BY <1>1, <1>2, DroppedOwned

\* New capabilities are taken from the mailbox for the DPM to evaluate.
LEMMA OfferedOwned ==
    ASSUME IInv, OInv, NEW s \in Elsewhere, NEW urgent, NEW b, Fetch(s, urgent, b),
           mem[b].type = "SourceCap", UNCHANGED <<pool, mem, dpm>>,
           pe'.request = pe.request, pe'.sending = pe.sending,
           pe'.state = "PESinkEvalCap", pe'.message = b
    PROVE  OInv'
<1>1. /\ pe.state = s /\ UNCHANGED <<rx, fault>> /\ box.PE # <<>> /\ b = Head(box.PE)
      /\ box'.PE = Tail(box.PE)
  BY DEF Fetch, Awake, At, peUnchanged, IInv, Kernel, BoxType
<1>2. /\ Held["message"] = NoBuf /\ "message" \in Slot /\ Held \in Pointers
      /\ pool \in Seq(Buf) /\ box.PE \in Seq(Buf)
  BY <1>1, HeldFacts DEF Slot, Elsewhere
<1>3. b \in Buf /\ Owned(pool, Tail(box.PE), [Held EXCEPT !["message"] = b])
  BY <1>1, <1>2, FetchOwned DEF OInv, Buffers
<1>4. Held' = [Held EXCEPT !["message"] = b]
  <2>1. Moves({"message"})
    BY <1>1 DEF Moves
  <2>2. Held'["message"] = b
    BY DEF Held, Pointer, Slot
  <2>3. QED BY <1>2, <2>1, <2>2, HeldMoves
<1>5. Buffers'
  BY <1>1, <1>3, <1>4 DEF Buffers
<1>6. QED BY <1>1, <1>3, <1>5, NoBufOutside DEF OInv, Contents, Handlers, Elsewhere

\* A message is allocated and sent.
LEMMA SendNewOwned ==
    ASSUME IInv, OInv, NEW s \in Elsewhere, NEW type, NEW wait \in Sending,
           SendNew(s, type, wait)
    PROVE  OInv'
<1>1. CASE pool = <<>>
  <2>1. fault' = "nullAlloc" /\ UNCHANGED <<pool, mem, rx, box, pe, dpm>>
    BY <1>1 DEF SendNew, Fault
  <2>2. QED BY <2>1, ElseOwned
<1>2. CASE pool # <<>>
  <2> DEFINE b == Head(pool)
  <2>1. /\ pool \in Seq(Buf) /\ Held \in Pointers /\ box.PE \in Seq(Buf)
        /\ Held["sending"] = NoBuf /\ "sending" \in Slot /\ pe.state = s
    BY HeldFacts DEF SendNew, At, OInv, Handlers, Slot, Elsewhere
  <2>2. /\ b \in Buf /\ Owned(Tail(pool), box.PE, [Held EXCEPT !["sending"] = b])
        /\ In(pool, b)
    <3>1. b \in Buf /\ Owned(Tail(pool), box.PE, [Held EXCEPT !["sending"] = b])
      BY <1>2, <2>1, AllocOwned DEF OInv, Buffers
    <3>2. In(pool, b)
      BY <1>2, <2>1, TailOnce DEF OInv, Buffers, Owned
    <3>3. QED BY <3>1, <3>2
  <2>3. /\ pool' = Tail(pool) /\ UNCHANGED <<rx, dpm, fault>>
        /\ pe' = [pe EXCEPT !.state = wait, !.sending = b]
        /\ mem' = [mem EXCEPT ![b] = Message(type, 0)]
        /\ box' = Posted("TX", b)
    BY <1>2 DEF SendNew, Transmit, peUnchanged
  <2> HIDE DEF b
  <2>4. box'.PE = box.PE
    BY <2>2, <2>3, PostedType DEF IInv, Kernel
  <2>5. /\ pe'.state = wait /\ pe'.sending = b /\ pe'.request = pe.request
        /\ wait # "PESinkEvalCap" /\ s # "PESinkEvalCap"
    BY <2>3 DEF IInv, Policy, PEType, Sending, Elsewhere
  <2>6. Held' = [Held EXCEPT !["sending"] = b]
    <3>1. Moves({"sending"})
      BY <2>1, <2>3, <2>5 DEF Moves
    <3>2. Held'["sending"] = b
      BY <2>5 DEF Held, Pointer, Slot
    <3>3. QED BY <2>1, <3>1, <3>2, HeldMoves
  <2>7. Buffers'
    BY <2>2, <2>3, <2>4, <2>6 DEF Buffers
  <2>8. Contents'
    <3>1. \A c \in Buf : c # b => mem'[c] = mem[c]
      BY <2>3 DEF IInv, Kernel, MemType
    <3>2. /\ pe.request # NoBuf => pe.request \in Buf /\ pe.request # b
          /\ dpm.caps # NoBuf => dpm.caps \in Buf /\ dpm.caps # b
      BY <2>2, Apart, HeldFacts DEF Slot
    <3>3. QED BY <2>3, <2>5, <3>1, <3>2 DEF OInv, Contents
  <2>9. QED BY <2>3, <2>5, <2>7, <2>8 DEF OInv, Handlers
<1>3. QED BY <1>1, <1>2

\* A message that has been sent is freed.
LEMMA SentOwned ==
    ASSUME IInv, OInv, NEW s \in Sending, NEW outcome, NEW next \in Elsewhere,
           Sent(s, outcome, next)
    PROVE  OInv'
<1>1. /\ pe.state = s /\ UNCHANGED <<rx, dpm, fault, box>>
      /\ pool' = <<pe.sending>> \o pool /\ mem' = [mem EXCEPT ![pe.sending] = Junk]
      /\ pe' = [pe EXCEPT !.state = next, !.sending = NoBuf]
  BY DEF Sent, Awake, At, peUnchanged, Freed
<1>2. /\ pool \in Seq(Buf) /\ Held \in Pointers /\ box.PE \in Seq(Buf)
      /\ Held["sending"] = pe.sending /\ "sending" \in Slot /\ pe.sending # NoBuf
      /\ pe.sending \in Buf
  BY <1>1, HeldFacts DEF IInv, Policy, PEType, Slot
<1>3. Owned(<<pe.sending>> \o pool, box.PE, [Held EXCEPT !["sending"] = NoBuf])
  BY <1>2, FreeOwned DEF OInv, Buffers
<1>4. /\ pe'.state = next /\ pe'.sending = NoBuf /\ pe'.request = pe.request
      /\ next # "PESinkEvalCap" /\ s # "PESinkEvalCap" /\ next \notin Sending
  BY <1>1 DEF IInv, Policy, PEType, Sending, Elsewhere
<1>5. Held' = [Held EXCEPT !["sending"] = NoBuf]
  <2>1. Moves({"sending"})
    BY <1>1, <1>4 DEF Moves
  <2>2. Held'["sending"] = NoBuf
    BY <1>4 DEF Held, Pointer, Slot
  <2>3. QED BY <1>2, <2>1, <2>2, HeldMoves
<1>6. Buffers'
  BY <1>1, <1>3, <1>5 DEF Buffers
<1>7. Contents'
  <2>1. \A c \in Buf : c # pe.sending => mem'[c] = mem[c]
    BY <1>1 DEF IInv, Kernel, MemType
  <2>2. /\ pe.request # NoBuf => pe.request \in Buf /\ pe.request # pe.sending
        /\ dpm.caps # NoBuf => dpm.caps \in Buf /\ dpm.caps # pe.sending
    BY <1>2, Apart, HeldFacts DEF Slot
  <2>3. QED BY <1>1, <1>4, <2>1, <2>2 DEF OInv, Contents
<1>8. QED BY <1>1, <1>4, <1>6, <1>7 DEF OInv, Handlers

\* EvalCap allocates the Request the first time, and replaces the capabilities
\* it remembers, freeing them, by new ones.
LEMMA EvalCapOwned == ASSUME IInv, OInv, EvalCap PROVE OInv'
<1> DEFINE new == pe.message # NoBuf
           caps == IF new THEN pe.message ELSE dpm.caps
           req == IF pe.request = NoBuf THEN Head(pool) ELSE pe.request
           rest == IF pe.request = NoBuf THEN Tail(pool) ELSE pool
           offer == OfferIn(mem[caps])
           first == IF new THEN FirstPps(offer) ELSE pe.ppsIndex
           last == IF pe.request = NoBuf THEN IF new THEN NoPps ELSE pe.lastPps
                   ELSE IF mem[pe.request].obj >= first THEN mem[pe.request].obj
                   ELSE NoPps
           cfgState == IF button.state <= 3 THEN button.state ELSE 0
           e == Evaluation(Scfg, OutputEnabled, offer, cfgState)
           old == new /\ dpm.caps # NoBuf
<1>1. pe.state = "PESinkEvalCap" /\ ~(pe.message = NoBuf /\ dpm.caps = NoBuf)
  BY DEF EvalCap, At, OInv, Handlers
<1>2. CASE pe.request = NoBuf /\ pool = <<>>
  <2>1. fault' = "nullAlloc" /\ UNCHANGED <<pool, mem, rx, box, pe, dpm>>
    BY <1>2, Zenon DEF EvalCap, Fault
  <2>2. QED BY <2>1, ElseOwned
<1>3. CASE ~(pe.request = NoBuf /\ pool = <<>>)
  <2>1. /\ pool' = IF old THEN <<dpm.caps>> \o rest ELSE rest
        /\ mem' = [b \in Buf |-> IF b = req THEN Message("Request", e.pos)
                                 ELSE IF old /\ b = dpm.caps THEN Junk ELSE mem[b]]
        /\ dpm' = [dpm EXCEPT !.caps = caps, !.requested = e.mv, !.match = e.match]
        /\ pe' = [pe EXCEPT !.state = "PESinkSelectCap", !.message = NoBuf,
                            !.request = req, !.ppsIndex = first, !.lastPps = last]
        /\ UNCHANGED <<box, fault, rx>>
    BY <1>1, <1>3, Zenon DEF EvalCap, At, peUnchanged
  <2> HIDE DEF offer, first, last, cfgState, e
  <2>2. /\ pe'.state = "PESinkSelectCap" /\ pe'.request = req
        /\ pe'.sending = pe.sending /\ dpm'.caps = caps
    BY <2>1 DEF IInv, Policy, PEType, DPMType
  <2>3. /\ Held \in Pointers /\ pool \in Seq(Buf) /\ box.PE \in Seq(Buf)
        /\ Owned(pool, box.PE, Held)
        /\ Held["request"] = pe.request /\ Held["caps"] = dpm.caps
        /\ Held["message"] = pe.message
    BY <1>1, HeldFacts DEF OInv, Buffers
  \* The Request, ...
  <2> DEFINE H1 == IF pe.request = NoBuf THEN [Held EXCEPT !["request"] = Head(pool)]
                   ELSE Held
  <2>4. /\ H1 \in Pointers /\ rest \in Seq(Buf) /\ Owned(rest, box.PE, H1)
        /\ H1["request"] = req /\ req # NoBuf /\ req \in Buf
        /\ \A s \in Slot \ {"request"} : H1[s] = Held[s]
    <3>1. CASE pe.request # NoBuf
      BY <2>3, <3>1 DEF Pointers, Slot
    <3>2. CASE pe.request = NoBuf
      <4>1. pool # <<>> /\ "request" \in Slot
        BY <1>3, <3>2 DEF Slot
      <4>2. /\ Head(pool) \in Buf /\ Tail(pool) \in Seq(Buf)
            /\ [Held EXCEPT !["request"] = Head(pool)] \in Pointers
            /\ Owned(Tail(pool), box.PE, [Held EXCEPT !["request"] = Head(pool)])
        BY <2>3, <3>2, <4>1, AllocOwned
      <4>3. QED BY <2>3, <3>2, <4>1, <4>2, NoBufOutside DEF Pointers
    <3>3. QED BY <3>1, <3>2
  <2> HIDE DEF H1, rest, req
  \* ... the capabilities that are no longer needed ...
  <2> DEFINE H2 == IF old THEN [H1 EXCEPT !["caps"] = NoBuf] ELSE H1
  <2>5. H1["caps"] = dpm.caps /\ H1["message"] = pe.message
        /\ "caps" \in Slot /\ "message" \in Slot
    BY <2>3, <2>4 DEF Slot
  <2>6. /\ H2 \in Pointers /\ pool' \in Seq(Buf) /\ Owned(pool', box.PE, H2)
        /\ H2["caps"] = (IF old THEN NoBuf ELSE dpm.caps)
        /\ \A s \in Slot \ {"caps"} : H2[s] = H1[s]
    <3>1. CASE ~old
      BY <2>1, <2>4, <2>5, <3>1
    <3>2. CASE old
      <4>1. /\ <<H1["caps"]>> \o rest \in Seq(Buf)
            /\ [H1 EXCEPT !["caps"] = NoBuf] \in Pointers
            /\ Owned(<<H1["caps"]>> \o rest, box.PE, [H1 EXCEPT !["caps"] = NoBuf])
        <5>1. box.PE \in Seq(Buf) /\ H1["caps"] # NoBuf
          BY <2>3, <2>5, <3>2
        <5>2. QED BY <2>4, <2>5, <5>1, FreeOwned
      <4>2. pool' = <<H1["caps"]>> \o rest
        BY <2>1, <2>5, <3>2
      <4>3. QED BY <2>4, <2>5, <3>2, <4>1, <4>2 DEF Pointers
    <3>3. QED BY <3>1, <3>2
  <2> HIDE DEF H2
  \* ... and the new ones.
  <2> DEFINE H3 == IF new THEN [H2 EXCEPT !["message"] = NoBuf, !["caps"] = H2["message"]]
                   ELSE H2
  <2>7. /\ H3 \in Pointers /\ Owned(pool', box.PE, H3)
        /\ H3["caps"] = caps /\ H3["message"] = NoBuf
        /\ \A s \in Slot \ {"caps", "message"} : H3[s] = H2[s]
    <3>1. H2["message"] = pe.message
      BY <2>5, <2>6
    <3>2. CASE ~new
      BY <2>6, <3>1, <3>2
    <3>3. CASE new
      <4>1. box.PE \in Seq(Buf) /\ H2["message"] # NoBuf /\ H2["caps"] = NoBuf
        BY <2>3, <2>6, <3>1, <3>3
      <4>2. /\ [H2 EXCEPT !["message"] = NoBuf, !["caps"] = H2["message"]] \in Pointers
            /\ Owned(pool', box.PE, [H2 EXCEPT !["message"] = NoBuf, !["caps"] = H2["message"]])
        BY <2>5, <2>6, <4>1, HandOwned
      <4>3. QED BY <2>5, <2>6, <3>1, <3>3, <4>2 DEF Pointers
    <3>4. QED BY <3>2, <3>3
  <2> HIDE DEF H3
  <2>8. Held' = H3
    <3>1. \A s \in Slot : Held'[s] = H3[s]
      <4>1. /\ Held'["request"] = req /\ Held'["sending"] = pe.sending
            /\ Held'["caps"] = caps /\ Held'["message"] = NoBuf
            /\ Held'["rx"] = Held["rx"] /\ Held["sending"] = pe.sending
        BY <2>1, <2>2 DEF Held, Pointer, Slot
      <4>2. /\ H3["request"] = H2["request"] /\ H3["sending"] = H2["sending"]
            /\ H3["rx"] = H2["rx"] /\ H2["request"] = H1["request"]
            /\ H2["sending"] = H1["sending"] /\ H2["rx"] = H1["rx"]
            /\ H1["sending"] = Held["sending"] /\ H1["rx"] = Held["rx"]
        BY <2>4, <2>6, <2>7 DEF Slot
      <4>3. QED BY <2>4, <2>7, <4>1, <4>2 DEF Slot
    <3>2. QED BY <2>7, <3>1, HeldFunction DEF Pointers
  <2>9. Buffers'
    BY <2>1, <2>7, <2>8 DEF Buffers
  <2>10. caps \in Buf /\ caps # req /\ ~(old /\ caps = dpm.caps)
         /\ mem[caps].type = "SourceCap"
    <3>1. caps \in Buf /\ caps # NoBuf
      BY <1>1, NoBufOutside DEF IInv, Policy, PEType, DPMType
    <3>2. H3["request"] = req /\ H3["caps"] = caps
      BY <2>4, <2>6, <2>7 DEF Slot
    <3>3. caps # req
      BY <2>7, <3>1, <3>2 DEF Owned, Slot
    <3>4. ~(old /\ caps = dpm.caps)
      BY <2>3 DEF Owned, Slot
    <3>5. mem[caps].type = "SourceCap"
      BY <1>1 DEF OInv, Contents
    <3>6. QED BY <3>1, <3>3, <3>4, <3>5
  <2> HIDE DEF caps, old, new
  <2>11. mem'[req].type = "Request" /\ mem'[caps] = mem[caps]
    BY <2>1, <2>4, <2>10 DEF Message
  <2>12. Contents'
    BY <2>2, <2>10, <2>11 DEF Contents
  <2>13. Handlers'
    BY <1>1, <2>1, <2>2 DEF OInv, Handlers, Sending
  <2>14. QED BY <2>9, <2>12, <2>13 DEF OInv
<1>4. QED BY <1>2, <1>3

-----------------------------------------------------------------------------
(* The handlers one by one.                                                *)

\* A wait cut short by reset signaling or by its timer.
LEMMA LeavesOwned ==
    ASSUME IInv, OInv, NEW s \in Elsewhere, NEW next \in Elsewhere,
           OnReset(s) \/ TimesOut(s, next)
    PROVE  OInv'
<1>1. /\ UNCHANGED <<pool, mem, rx, fault, box, dpm>> /\ pe.state = s
      /\ pe' = [pe EXCEPT !.state = "PESinkTransitionDefault"]
           \/ pe' = [pe EXCEPT !.state = next]
  BY DEF OnReset, TimesOut, Awake, At, Goto, peUnchanged, kernelVars
<1>2. /\ pe'.request = pe.request /\ pe'.sending = pe.sending
      /\ pe'.state \in {"PESinkTransitionDefault", next}
  BY <1>1 DEF IInv, Policy, PEType
<1>3. QED BY <1>1, <1>2, QuietOwned DEF OInv, Handlers, Elsewhere, Sending

\* A handler that only goes to another state, in the frame of its other
\* changes.
LEMMA GoesOwned ==
    ASSUME IInv, OInv, UNCHANGED <<pool, mem, rx, fault>>, box'.PE = box.PE,
           dpm'.caps = dpm.caps, pe.state \in Elsewhere, pe'.state \in Elsewhere,
           pe'.request = pe.request, pe'.sending = pe.sending
    PROVE  OInv'
BY QuietOwned DEF OInv, Handlers, Elsewhere

LEMMA WaitCapOwned == ASSUME IInv, OInv, WaitCap PROVE OInv'
<1> DEFINE s == "PESinkWaitCap"
           urgent == {"RESET", "I_OVRTEMP"}
<1>1. /\ s \in Elsewhere /\ "PESinkHardReset" \in Elsewhere
      /\ "PESinkSoftReset" \in Elsewhere /\ pe \in PEType
  BY DEF Elsewhere, PEState, Sending, IInv, Policy
<1>2. CASE TimesOut(s, "PESinkHardReset") \/ OnReset(s)
  BY <1>1, <1>2, LeavesOwned
<1>3. CASE /\ Awake(s)
           /\ UNCHANGED <<sched, box, pool, mem, fault, pe, dpm, partnerVars>>
           /\ peUnchanged
  BY <1>1, <1>3, GoesOwned DEF Awake, At, peUnchanged
<1>4. ASSUME NEW b \in Buf, Fetch(s, urgent, b), mem[b].type = "SourceCap",
             pe' = [pe EXCEPT !.state = "PESinkEvalCap", !.message = b,
                              !.rev = IF @ = 1 THEN SrcRev ELSE @],
             UNCHANGED <<pool, mem, dpm>>
      PROVE  OInv'
  <2>1. /\ pe'.state = "PESinkEvalCap" /\ pe'.message = b
        /\ pe'.request = pe.request /\ pe'.sending = pe.sending
    BY <1>1, <1>4 DEF PEType
  <2>2. QED BY <1>1, <1>4, <2>1, OfferedOwned
<1>5. CASE Consume(s, urgent, {"SoftReset"}, "PESinkSoftReset", pe) /\ UNCHANGED dpm
  BY <1>1, <1>5, ConsumedOwned
<1>6. ASSUME NEW b \in Buf, Fetch(s, urgent, b), Freed(b), UNCHANGED dpm,
             pe' = [pe EXCEPT !.state = "PESinkHardReset", !.message = b]
      PROVE  OInv'
  <2>1. /\ pe'.state = "PESinkHardReset"
        /\ pe'.request = pe.request /\ pe'.sending = pe.sending
    BY <1>1, <1>6 DEF PEType
  <2>2. QED BY <1>1, <1>6, <2>1, DroppedOwned
<1>7. QED BY <1>2, <1>3, <1>4, <1>5, <1>6 DEF WaitCap

\* A Request that has been sent stays allocated.
LEMMA SelectCapOwned == ASSUME IInv, OInv, SelectCap PROVE OInv'
<1> DEFINE s == "PESinkSelectCapRx"
           reset == {"RESET"}
<1>1. /\ {s, "PESinkSelectCap", "PESinkSelectCapTx", "PESinkTransitionSink",
           "PESinkSoftReset", "PESinkWaitCap", "PESinkReady", "PESinkHardReset",
           "PESinkSendSoftReset"} \subseteq Elsewhere
      /\ pe \in PEType /\ dpm \in DPMType
  BY DEF Elsewhere, PEState, Sending, IInv, Policy
<1>2. CASE SelectCapSend
  <2>1. /\ pe.state = "PESinkSelectCap" /\ pe.request \in Buf
        /\ pe' = [pe EXCEPT !.state = "PESinkSelectCapTx"]
        /\ UNCHANGED <<pool, mem, fault, dpm, rx>>
        /\ box' = Posted("TX", pe.request)
    BY <1>1, <1>2 DEF SelectCapSend, At, Goto, Transmit, peUnchanged, IInv, Policy,
                      PEType, Asking
  <2>2. box'.PE = box.PE
    BY <2>1, PostedType DEF IInv, Kernel
  <2>3. /\ pe'.state = "PESinkSelectCapTx" /\ pe'.request = pe.request
        /\ pe'.sending = pe.sending
    BY <1>1, <2>1 DEF PEType
  <2>4. QED BY <1>1, <2>1, <2>2, <2>3, GoesOwned
<1>3. CASE SelectCapSent
  <2>1. /\ pe.state = "PESinkSelectCapTx" /\ UNCHANGED <<pool, mem, fault, dpm, rx, box>>
        /\ pe'.state \in {"PESinkSelectCapRx", "PESinkHardReset"}
        /\ pe'.request = pe.request /\ pe'.sending = pe.sending
    BY <1>1, <1>3 DEF SelectCapSent, Awake, At, peUnchanged, PEType
  <2>2. QED BY <1>1, <2>1, GoesOwned
<1>4. CASE OnReset("PESinkSelectCapTx") \/ OnReset(s) \/ TimesOut(s, "PESinkHardReset")
  BY <1>1, <1>4, LeavesOwned
<1>5. CASE SelectCapAnswer
  <2>1. ASSUME Consume(s, reset, {"Accept"}, "PESinkTransitionSink",
                       [pe EXCEPT !.minPower = FALSE]),
               dpm' = IF mem[pe.request].obj # pe.lastPps
                      THEN transition_standby ELSE dpm
        PROVE  OInv'
    <3>1. /\ [pe EXCEPT !.minPower = FALSE] \in PEType
          /\ [pe EXCEPT !.minPower = FALSE].request = pe.request
          /\ [pe EXCEPT !.minPower = FALSE].sending = pe.sending
      BY <1>1 DEF PEType
    <3>2. dpm'.caps = dpm.caps
      BY <1>1, <2>1, TransitionType
    <3>3. QED BY <1>1, <2>1, <3>1, <3>2, ConsumedOwned
  <2>2. ASSUME NEW types, NEW next \in {"PESinkSoftReset", "PESinkWaitCap",
                                        "PESinkSendSoftReset"},
               Consume(s, reset, types, next, pe), UNCHANGED dpm
        PROVE  OInv'
    BY <1>1, <2>2, ConsumedOwned
  <2>3. ASSUME NEW t \in {"Reject", "Wait"}, UNCHANGED dpm,
               Consume(s, reset, {t}, "PESinkReady", [pe EXCEPT !.minPower = (t = "Wait")])
        PROVE  OInv'
    <3> DEFINE q == [pe EXCEPT !.minPower = (t = "Wait")]
    <3>1. q \in PEType /\ q.request = pe.request /\ q.sending = pe.sending
      <4>1. (t = "Wait") \in BOOLEAN
        OBVIOUS
      <4>2. QED BY <1>1, <4>1 DEF PEType
    <3>2. Consume(s, reset, {t}, "PESinkReady", q)
      BY <2>3
    <3> HIDE DEF q
    <3>3. QED BY <1>1, <2>3, <3>1, <3>2, ConsumedOwned
  <2>4. QED BY <1>5, <2>1, <2>2, <2>3 DEF SelectCapAnswer
<1>6. QED BY <1>2, <1>3, <1>4, <1>5 DEF SelectCap

LEMMA TransitionSinkOwned == ASSUME IInv, OInv, TransitionSink PROVE OInv'
<1> DEFINE s == "PESinkTransitionSink"
           reset == {"RESET"}
<1>1. /\ {s, "PESinkReady", "PESinkHardReset"} \subseteq Elsewhere
      /\ pe \in PEType /\ dpm \in DPMType
  BY DEF Elsewhere, PEState, Sending, IInv, Policy
<1>2. CASE OnReset(s) \/ TimesOut(s, "PESinkHardReset")
  BY <1>1, <1>2, LeavesOwned
<1>3. ASSUME Consume(s, reset, {"PsRdy"}, "PESinkReady", [pe EXCEPT !.contract = TRUE]),
             dpm' = IF pe.minPower THEN dpm ELSE transition_requested
      PROVE  OInv'
  <2>1. /\ [pe EXCEPT !.contract = TRUE] \in PEType
        /\ [pe EXCEPT !.contract = TRUE].request = pe.request
        /\ [pe EXCEPT !.contract = TRUE].sending = pe.sending
    BY <1>1 DEF PEType
  <2>2. dpm'.caps = dpm.caps
    BY <1>1, <1>3, TransitionType
  <2>3. QED BY <1>1, <1>3, <2>1, <2>2, ConsumedOwned
<1>4. ASSUME Consume(s, reset, MsgType \ {"PsRdy"}, "PESinkHardReset", pe),
             dpm' = transition_default
      PROVE  OInv'
  BY <1>1, <1>4, TransitionType, ConsumedOwned
<1>5. QED BY <1>2, <1>3, <1>4 DEF TransitionSink

\* A NEW_POWER finds no message to free: what it evaluates is what the DPM
\* remembers.
LEMMA ReadyStartsOwned ==
    ASSUME IInv, OInv, NEW flag, NEW above,
           NEW next \in {"PESinkGetSourceCap", "PESinkEvalCap", "PESinkSelectCap"},
           ReadyStarts(flag, above, next),
           next = "PESinkEvalCap" => flag = "NEW_POWER"
    PROVE  OInv'
<1>1. pe.state = "PESinkReady" /\ pe \in PEType /\ pe.message = NoBuf /\ dpm.caps # NoBuf
  BY DEF ReadyStarts, At, IInv, Policy, Asking, Settled
<1>2. /\ UNCHANGED <<pool, mem, box, fault, dpm, rx>> /\ pe'.state = next
      /\ pe'.request = pe.request /\ pe'.sending = pe.sending /\ pe'.message = NoBuf
  BY <1>1 DEF ReadyStarts, peUnchanged, PEType
<1>3. CASE next # "PESinkEvalCap"
  <2>1. pe.state \in Elsewhere /\ pe'.state \in Elsewhere
    BY <1>1, <1>2, <1>3 DEF Elsewhere, PEState, Sending
  <2>2. QED BY <1>2, <2>1, GoesOwned
<1>4. CASE next = "PESinkEvalCap"
  <2>1. Moves({"message"})
    BY <1>1, <1>2 DEF Moves
  <2>2. /\ Held'["message"] = NoBuf /\ Held["message"] = NoBuf /\ "message" \in Slot
        /\ Held \in Pointers
    BY <1>1, <1>2, HeldFacts DEF Held, Pointer, Slot
  <2>3. Held' = Held
    BY <2>1, <2>2, HeldMoves DEF Pointers
  <2>4. Buffers'
    BY <1>2, <2>3 DEF OInv, Buffers
  <2>5. Contents' /\ Handlers'
    BY <1>1, <1>2, <1>4 DEF OInv, Contents, Handlers, Sending
  <2>6. QED BY <2>4, <2>5 DEF OInv
<1>5. QED BY <1>3, <1>4

LEMMA ReadyOwned == ASSUME IInv, OInv, Ready PROVE OInv'
<1> DEFINE s == "PESinkReady"
<1>1. /\ {s, "PESinkSelectCap", "PESinkHardReset", "PESinkSendNotSupported",
           "PESinkTransitionSink", "PESinkGiveSinkCap", "PESinkSoftReset",
           "PESinkChunkReceived", "PESinkNotSupportedReceived",
           "PESinkSendSoftReset"} \subseteq Elsewhere
      /\ pe \in PEType /\ dpm \in DPMType
  BY DEF Elsewhere, PEState, Sending, IInv, Policy
<1>2. CASE OnReset(s) \/ (pe.minPower /\ TimesOut(s, "PESinkSelectCap"))
  BY <1>1, <1>2, LeavesOwned
<1>3. CASE /\ ReadyWakes("I_OVRTEMP", {"RESET"})
           /\ Goto("PESinkHardReset")
           /\ UNCHANGED <<sched, box, pool, mem, fault, dpm, partnerVars>>
           /\ peUnchanged
  <2>1. /\ pe.state = s /\ UNCHANGED <<pool, mem, rx, fault, box, dpm>>
        /\ pe'.state = "PESinkHardReset"
        /\ pe'.request = pe.request /\ pe'.sending = pe.sending
    BY <1>1, <1>3 DEF ReadyWakes, Awake, At, Goto, peUnchanged, PEType
  <2>2. QED BY <1>1, <2>1, GoesOwned
<1>4. ASSUME NEW flag \in {"GET_SOURCE_CAP", "NEW_POWER", "PPS_REQUEST"}, NEW above,
             NEW next \in {"PESinkGetSourceCap", "PESinkEvalCap", "PESinkSelectCap"},
             ReadyStarts(flag, above, next),
             next = "PESinkEvalCap" => flag = "NEW_POWER"
      PROVE  OInv'
  BY <1>4, ReadyStartsOwned
<1>5. ASSUME NEW types, NEW next \in Elsewhere, ReadyFrees(types, next) PROVE OInv'
  BY <1>1, <1>5, ConsumedOwned DEF ReadyFrees
<1>6. ASSUME Consume(s, ReadyUrgent, {"GotoMin"}, "PESinkTransitionSink",
                     [pe EXCEPT !.minPower = TRUE]),
             dpm' = transition_min
      PROVE  OInv'
  <2>1. /\ [pe EXCEPT !.minPower = TRUE] \in PEType
        /\ [pe EXCEPT !.minPower = TRUE].request = pe.request
        /\ [pe EXCEPT !.minPower = TRUE].sending = pe.sending
    BY <1>1 DEF PEType
  <2>2. dpm'.caps = dpm.caps
    BY <1>1, <1>6, TransitionType
  <2>3. QED BY <1>1, <1>6, <2>1, <2>2, ConsumedOwned
<1>7. ASSUME NEW b \in Buf, Fetch(s, ReadyUrgent, b), mem[b].type = "SourceCap",
             pe' = [pe EXCEPT !.state = "PESinkEvalCap", !.message = b],
             UNCHANGED <<pool, mem, dpm>>
      PROVE  OInv'
  <2>1. /\ pe'.state = "PESinkEvalCap" /\ pe'.message = b
        /\ pe'.request = pe.request /\ pe'.sending = pe.sending
    BY <1>1, <1>7 DEF PEType
  <2>2. QED BY <1>1, <1>7, <2>1, OfferedOwned
<1>8. QED
  <2>1. CASE \/ ReadyStarts("GET_SOURCE_CAP", {"RESET", "I_OVRTEMP"}, "PESinkGetSourceCap")
             \/ ReadyStarts("NEW_POWER", {"RESET", "I_OVRTEMP", "GET_SOURCE_CAP"},
                            "PESinkEvalCap")
             \/ ReadyStarts("PPS_REQUEST", {"RESET", "I_OVRTEMP", "GET_SOURCE_CAP",
                                            "NEW_POWER"}, "PESinkSelectCap")
    BY <1>4, <2>1
  <2>2. CASE \/ ReadyFrees({"VDM", "Ping"}, s)
             \/ ReadyFrees(Unsupported, "PESinkSendNotSupported")
             \/ ReadyFrees({"GotoMin"}, "PESinkSendNotSupported")
             \/ ReadyFrees({"GetSinkCap"}, "PESinkGiveSinkCap")
             \/ ReadyFrees({"SoftReset"}, "PESinkSoftReset")
             \/ ReadyFrees({"Chunked"}, "PESinkChunkReceived")
             \/ ReadyFrees({"NotSupported"}, "PESinkNotSupportedReceived")
             \/ ReadyFrees(Unknown \cup (IF pe.rev = 3 THEN {} ELSE UnknownIn2),
                           "PESinkSendSoftReset")
    BY <1>1, <1>5, <2>2
  <2>3. QED BY <1>2, <1>3, <1>6, <1>7, <2>1, <2>2 DEF Ready

\* The handlers that send a message of their own and free it afterwards.
LEMMA SendersOwned ==
    ASSUME IInv, OInv,
           \/ GetSourceCap \/ GiveSinkCap \/ SoftReset \/ SendSoftReset
           \/ SendNotSupported
    PROVE  OInv'
<1>1. /\ {"PESinkGetSourceCap", "PESinkGiveSinkCap", "PESinkSoftReset",
           "PESinkSendSoftReset", "PESinkSendNotSupported", "PESinkReady",
           "PESinkHardReset", "PESinkWaitCap", "PESinkSendSoftResetRx",
           "PESinkTransitionDefault"} \subseteq Elsewhere
      /\ pe \in PEType
  BY DEF Elsewhere, PEState, Sending, IInv, Policy
<1>2. ASSUME NEW s \in Sending, NEW done \in Elsewhere, NEW failed \in Elsewhere,
             SentOr(s, done, failed)
      PROVE  OInv'
  BY <1>1, <1>2, SentOwned DEF SentOr
<1>3. CASE GetSourceCap
  BY <1>1, <1>2, <1>3, SendNewOwned DEF GetSourceCap, Sending
<1>4. CASE GiveSinkCap
  BY <1>1, <1>2, <1>4, SendNewOwned DEF GiveSinkCap, Sending
<1>5. CASE SoftReset
  BY <1>1, <1>2, <1>5, SendNewOwned DEF SoftReset, Sending
<1>6. CASE SendNotSupported
  BY <1>1, <1>2, <1>6, SendNewOwned DEF SendNotSupported, Sending
<1>7. CASE SendSoftReset
  <2> DEFINE rxs == "PESinkSendSoftResetRx"
             reset == {"RESET"}
  <2>1. CASE SendNew("PESinkSendSoftReset", "SoftReset", "PESinkSendSoftResetTx")
    BY <1>1, <2>1, SendNewOwned DEF Sending
  <2>2. CASE SentOr("PESinkSendSoftResetTx", rxs, "PESinkHardReset")
    BY <1>1, <1>2, <2>2 DEF Sending
  <2>3. CASE OnReset(rxs) \/ TimesOut(rxs, "PESinkHardReset")
    BY <1>1, <2>3, LeavesOwned
  <2>4. ASSUME NEW types, NEW next \in {"PESinkWaitCap", "PESinkSoftReset",
                                        "PESinkHardReset"},
               Consume(rxs, reset, types, next, pe), UNCHANGED dpm
        PROVE  OInv'
    BY <1>1, <2>4, ConsumedOwned
  <2>5. QED BY <1>7, <2>1, <2>2, <2>3, <2>4 DEF SendSoftReset
<1>8. QED BY <1>3, <1>4, <1>5, <1>6, <1>7

\* The handlers that neither send nor receive.
LEMMA OthersOwned ==
    ASSUME IInv, OInv,
           \/ Startup \/ Discovery \/ HardReset \/ TransitionDefault
           \/ ChunkReceived \/ NotSupportedReceived \/ SourceUnresponsive
    PROVE  OInv'
<1>1. /\ {"PESinkStartup", "PESinkDiscovery", "PESinkWaitCap", "PESinkHardReset",
           "PESinkSourceUnresponsive", "PESinkHardResetSent",
           "PESinkTransitionDefault", "PESinkChunkReceived",
           "PESinkSendNotSupported", "PESinkNotSupportedReceived",
           "PESinkReady"} \subseteq Elsewhere
      /\ pe \in PEType /\ dpm \in DPMType
  BY DEF Elsewhere, PEState, Sending, IInv, Policy
<1>2. CASE Startup \/ Discovery
  <2>1. /\ UNCHANGED <<pool, mem, rx, fault, box, dpm>>
        /\ pe.state \in {"PESinkStartup", "PESinkDiscovery"}
        /\ pe'.state \in {"PESinkDiscovery", "PESinkWaitCap"}
        /\ pe'.request = pe.request /\ pe'.sending = pe.sending
    BY <1>1, <1>2 DEF Startup, Discovery, At, Goto, peUnchanged, kernelVars, PEType
  <2>2. QED BY <1>1, <2>1, GoesOwned
<1>3. CASE HardReset
  <2>1. /\ UNCHANGED <<pool, mem, rx, fault, box, dpm>>
        /\ pe.state \in {"PESinkHardReset", "PESinkHardResetSent"}
        /\ pe'.state \in {"PESinkSourceUnresponsive", "PESinkHardResetSent",
                          "PESinkTransitionDefault"}
        /\ pe'.request = pe.request /\ pe'.sending = pe.sending
    BY <1>1, <1>3 DEF HardReset, Awake, At, Goto, peUnchanged, kernelVars, PEType
  <2>2. QED BY <1>1, <2>1, GoesOwned
<1>4. CASE TransitionDefault
  <2>1. /\ UNCHANGED <<pool, mem, rx, fault, box>> /\ dpm'.caps = dpm.caps
        /\ pe.state = "PESinkTransitionDefault" /\ pe'.state = "PESinkStartup"
        /\ pe'.request = pe.request /\ pe'.sending = pe.sending
    BY <1>1, <1>4, TransitionType DEF TransitionDefault, At, peUnchanged, PEType
  <2>2. QED BY <1>1, <2>1, GoesOwned
<1>5. CASE ChunkReceived
  BY <1>1, <1>5, LeavesOwned DEF ChunkReceived
<1>6. CASE NotSupportedReceived
  <2>1. /\ UNCHANGED <<pool, mem, rx, fault, box, dpm>>
        /\ pe.state = "PESinkNotSupportedReceived" /\ pe'.state = "PESinkReady"
        /\ pe'.request = pe.request /\ pe'.sending = pe.sending
    BY <1>1, <1>6 DEF NotSupportedReceived, At, Goto, peUnchanged, kernelVars, PEType
  <2>2. QED BY <1>1, <2>1, GoesOwned
<1>7. CASE SourceUnresponsive
  <2>1. /\ UNCHANGED <<pool, mem, rx, fault, box>>
        /\ pe.state = "PESinkSourceUnresponsive" /\ pe'.state = pe.state
        /\ pe'.request = pe.request /\ pe'.sending = pe.sending
    BY <1>1, <1>7 DEF SourceUnresponsive, At, peUnchanged, kernelVars, PEType
  <2>2. dpm'.caps = dpm.caps
    BY <1>1, <1>7 DEF SourceUnresponsive, transition_typec, evaluate_typec_current,
                      OutputSet, DPMType
  <2>3. QED BY <1>1, <2>1, <2>2, GoesOwned
<1>8. QED BY <1>2, <1>3, <1>4, <1>5, <1>6, <1>7

LEMMA PpsTimerOwned == ASSUME IInv, OInv, PpsTimer PROVE OInv'
<1>1. /\ UNCHANGED <<pool, mem, rx, fault, box, dpm>>
      /\ pe'.state = pe.state /\ pe'.message = pe.message
      /\ pe'.request = pe.request /\ pe'.sending = pe.sending
  BY DEF PpsTimer, peUnchanged, IInv, Policy, PEType
<1>2. Moves({})
  BY <1>1 DEF Moves
<1>3. QED BY <1>1, <1>2, HeldSame DEF OInv, Buffers, Contents, Handlers

-----------------------------------------------------------------------------
(* The invariant.                                                          *)

\* pdb_msg_pool_init: every buffer is free.
LEMMA InitOInv == ASSUME Init PROVE OInv
<1>1. PoolSize \in Nat /\ PoolSize >= 1
  BY PoolAssumption
<1>2. /\ pool = [i \in 1..PoolSize |-> PoolSize + 1 - i]
      /\ Len(pool) = PoolSize /\ box.PE = <<>> /\ Len(box.PE) = 0
  BY <1>1 DEF Init
<1>3. Once(pool) /\ Once(box.PE) /\ \A b : ~In(box.PE, b)
  BY <1>1, <1>2 DEF Once, In
<1>4. \A b \in Buf : In(pool, b)
  <2>1. SUFFICES ASSUME NEW b \in Buf PROVE In(pool, b)
    OBVIOUS
  <2>2. PoolSize + 1 - b \in 1..Len(pool) /\ pool[PoolSize + 1 - b] = b
    BY <1>1, <1>2 DEF Buf
  <2>3. QED BY <2>2 DEF In
<1>5. \A s \in Slot : Held[s] = NoBuf
  BY DEF Init, PEInit, DPMInit, RXInit, Held, Pointer, Slot
<1>6. Buffers
  BY <1>3, <1>4, <1>5 DEF Buffers, Owned
<1>7. QED BY <1>6 DEF OInv, Contents, Handlers, Init, PEInit, DPMInit

LEMMA StepOInv == ASSUME IInv, OInv, [Next]_vars PROVE OInv'
<1>1. CASE PENext
  BY <1>1, WaitCapOwned, EvalCapOwned, SelectCapOwned, TransitionSinkOwned,
     ReadyOwned, SendersOwned, OthersOwned, PpsTimerOwned DEF PENext
<1>2. CASE UNCHANGED vars
  <2>1. UNCHANGED <<pool, box, mem, fault, pe, dpm, rx>>
    BY <1>2 DEF vars, kernelVars
  <2>2. QED BY <2>1, ElseOwned DEF OInv, Handlers
<1>3. QED BY <1>1, <1>2, RXOwned, TXOwned, HROwned, PortOwned DEF Next

\* The invariant holds in every environment.
LEMMA Ownership == Spec => [](IInv /\ OInv)
<1>1. Init => IInv /\ OInv
  BY InitIInv, InitOInv
<1>2. IInv /\ OInv /\ [Next]_vars => (IInv /\ OInv)'
  BY StepIInv, StepOInv
<1>3. QED BY <1>1, <1>2, PTL DEF Spec

-----------------------------------------------------------------------------
(* What it says of the runs' properties.                                   *)

\* How often a buffer is in a queue, ...
LEMMA CountIn ==
    ASSUME NEW q \in Seq(Buf), Once(q), NEW b
    PROVE  Cardinality({i \in 1..Len(q) : q[i] = b}) = IF In(q, b) THEN 1 ELSE 0
<1>1. CASE In(q, b)
  <2>1. PICK i \in 1..Len(q) : q[i] = b
    BY <1>1 DEF In
  <2>2. {j \in 1..Len(q) : q[j] = b} = {i}
    BY <2>1 DEF Once
  <2>3. QED BY <1>1, <2>2, FS_Singleton
<1>2. CASE ~In(q, b)
  <2>1. {j \in 1..Len(q) : q[j] = b} = {}
    BY <1>2 DEF In
  <2>2. QED BY <1>2, <2>1, FS_EmptySet
<1>3. QED BY <1>1, <1>2

\* ... and in a pointer.
LEMMA CountOf ==
    ASSUME NEW P \in BOOLEAN
    PROVE  Cardinality({r \in {1} : P}) = IF P THEN 1 ELSE 0
<1>1. CASE P
  <2>1. {r \in {1} : P} = {1}
    BY <1>1
  <2>2. QED BY <1>1, <2>1, FS_Singleton
<1>2. CASE ~P
  <2>1. {r \in {1} : P} = {}
    BY <1>2
  <2>2. QED BY <1>2, <2>1, FS_EmptySet
<1>3. QED BY <1>1, <1>2

\* Every message buffer has exactly one owner at any time, in every
\* environment: the free list, the Policy Engine's mailbox, the receiving
\* thread, one of the Policy Engine's pointers or the DPM.  None leaks and none
\* is freed twice.
THEOREM NoLeakNoDoubleFree == Spec => []BuffersConserved
<1>1. IInv /\ OInv => BuffersConserved
  <2>1. SUFFICES ASSUME IInv, OInv, NEW b \in Buf PROVE Owners(b) = 1
    BY DEF BuffersConserved
  <2>2. /\ pool \in Seq(Buf) /\ box.PE \in Seq(Buf) /\ Once(pool) /\ Once(box.PE)
        /\ b # NoBuf
    BY <2>1, HeldFacts, NoBufOutside DEF OInv, Buffers, Owned
  <2> DEFINE a1 == In(pool, b)
             a2 == In(box.PE, b)
             a3 == pe.request = b
             a4 == pe.sending = b
             a5 == dpm.caps = b
             a6 == pe.message = b /\ pe.state = "PESinkEvalCap"
             a7 == rx.message = b /\ rx.state # "PRLRxWaitPHY"
  <2>3. /\ a3 <=> Held["request"] = b
        /\ a4 <=> Held["sending"] = b
        /\ a5 <=> Held["caps"] = b
        /\ a6 <=> Held["message"] = b
        /\ a7 <=> Held["rx"] = b
    BY <2>1, <2>2, HeldFacts
  <2>4. /\ a1 \/ a2 \/ \E s \in Slot : Held[s] = b
        /\ ~(a1 /\ a2)
        /\ \A s \in Slot : Held[s] = b => ~a1 /\ ~a2
        /\ \A s, t \in Slot : Held[s] = b /\ Held[t] = b => s = t
    BY <2>1, <2>2 DEF OInv, Buffers, Owned
  <2>5. /\ Cardinality({i \in 1..Len(pool) : pool[i] = b}) = IF a1 THEN 1 ELSE 0
        /\ Cardinality({i \in 1..Len(box.PE) : box.PE[i] = b}) = IF a2 THEN 1 ELSE 0
    BY <2>2, CountIn
  <2>6. /\ Cardinality({r \in {1} : pe.request = b}) = IF a3 THEN 1 ELSE 0
        /\ Cardinality({r \in {1} : pe.sending = b}) = IF a4 THEN 1 ELSE 0
        /\ Cardinality({r \in {1} : dpm.caps = b}) = IF a5 THEN 1 ELSE 0
    <3>1. a3 \in BOOLEAN /\ a4 \in BOOLEAN /\ a5 \in BOOLEAN
      OBVIOUS
    <3>2. Cardinality({r \in {1} : a3}) = IF a3 THEN 1 ELSE 0
      BY <3>1, CountOf, Zenon
    <3>3. Cardinality({r \in {1} : a4}) = IF a4 THEN 1 ELSE 0
      BY <3>1, CountOf, Zenon
    <3>4. Cardinality({r \in {1} : a5}) = IF a5 THEN 1 ELSE 0
      BY <3>1, CountOf, Zenon
    <3>5. QED BY <3>2, <3>3, <3>4
  <2>7. /\ Cardinality({r \in {1} : pe.message = b /\ pe.state = "PESinkEvalCap"})
             = IF a6 THEN 1 ELSE 0
        /\ Cardinality({r \in {1} : rx.message = b /\ rx.state # "PRLRxWaitPHY"})
             = IF a7 THEN 1 ELSE 0
    <3>1. a6 \in BOOLEAN /\ a7 \in BOOLEAN
      OBVIOUS
    <3>2. Cardinality({r \in {1} : a6}) = IF a6 THEN 1 ELSE 0
      BY <3>1, CountOf, Zenon
    <3>3. Cardinality({r \in {1} : a7}) = IF a7 THEN 1 ELSE 0
      BY <3>1, CountOf, Zenon
    <3>4. QED BY <3>2, <3>3
  <2> HIDE DEF a1, a2, a3, a4, a5, a6, a7
  <2>8. Owners(b) = (IF a1 THEN 1 ELSE 0) + (IF a2 THEN 1 ELSE 0)
                    + (IF a3 THEN 1 ELSE 0) + (IF a4 THEN 1 ELSE 0)
                    + (IF a5 THEN 1 ELSE 0) + (IF a6 THEN 1 ELSE 0)
                    + (IF a7 THEN 1 ELSE 0)
    BY <2>5, <2>6, <2>7 DEF Owners
  <2>9. /\ a1 \/ a2 \/ a3 \/ a4 \/ a5 \/ a6 \/ a7
        /\ a1 => ~(a2 \/ a3 \/ a4 \/ a5 \/ a6 \/ a7)
        /\ a2 => ~(a3 \/ a4 \/ a5 \/ a6 \/ a7)
        /\ a3 => ~(a4 \/ a5 \/ a6 \/ a7)
        /\ a4 => ~(a5 \/ a6 \/ a7)
        /\ a5 => ~(a6 \/ a7)
        /\ a6 => ~a7
    BY <2>3, <2>4 DEF Slot
  <2>10. QED BY <2>8, <2>9
<1>2. QED BY <1>1, Ownership, PTL

\* In PE_SNK_Ready the Request that a PPS_REQUEST or a Wait will send again is
\* still a Request, and the capabilities a NEW_POWER will evaluate again are
\* still Source_Capabilities, in every environment.
THEOREM ReadyKeepsRequestAlways == Spec => []ReadyKeepsRequest
<1>1. IInv /\ OInv => ReadyKeepsRequest
  BY DEF IInv, Policy, Asking, Settled, OInv, Contents, ReadyKeepsRequest
<1>2. QED BY <1>1, Ownership, PTL

\* While the receiving thread has a message, there is room for it.
MailFits == rx.state # "PRLRxWaitPHY" => Len(box.PE) < PoolSize

\* The DPM never evaluates capabilities that are not there (the model has a
\* fault for it), and the receiving thread's chMBPost, whose result it does not
\* look at, never fails: the mailbox is as long as the pool.
THEOREM NoNullMessage == Spec => [](fault # "nullMessage" /\ MailFits)
<1>1. IInv /\ OInv => fault # "nullMessage" /\ MailFits
  <2>1. SUFFICES ASSUME IInv, OInv, rx.state # "PRLRxWaitPHY"
                 PROVE  Len(box.PE) < PoolSize
    BY DEF OInv, Handlers, MailFits
  <2>2. Held["rx"] = rx.message /\ rx.message \in Buf /\ "rx" \in Slot
    BY <2>1, HeldFacts DEF IInv, Link, RXType, Slot
  <2>3. ~In(box.PE, rx.message) /\ Once(box.PE) /\ box.PE \in Seq(Buf)
    BY <2>1, <2>2, HeldFacts, NoBufOutside DEF OInv, Buffers, Owned
  <2>4. QED BY <2>2, <2>3, RoomLeft
<1>2. QED BY <1>1, Ownership, PTL

-----------------------------------------------------------------------------
(* The pool runs empty.                                                    *)

\* When the free list is empty and only three pointers can hold a buffer, all
\* the others are in the mailbox.
LEMMA RestInMail ==
    ASSUME NEW M \in Seq(Buf), NEW H \in Pointers, Owned(<<>>, M, H),
           NEW r \in Slot, NEW s \in Slot, NEW t \in Slot,
           \A u \in Slot : H[u] # NoBuf => u \in {r, s, t}
    PROVE  Len(M) + 3 >= PoolSize
<1> SUFFICES ASSUME Len(M) + 3 < PoolSize PROVE FALSE
  BY PoolAssumption
<1> DEFINE N == Len(M)
           Place(b) == CHOOSE i \in 1..Len(M) : M[i] = b
           Label(b) == IF In(M, b) THEN Place(b) ELSE IF H[r] = b THEN N + 1
                       ELSE IF H[s] = b THEN N + 2 ELSE N + 3
           g == [b \in Buf |-> Label(b)]
<1>1. PoolSize \in Nat /\ N \in Nat /\ N + 3 \in Nat
  BY PoolAssumption
<1>2. \A b \in Buf : In(M, b) => Place(b) \in 1..N /\ M[Place(b)] = b
  BY DEF In
<1>3. \A b \in Buf : In(M, b) \/ H[r] = b \/ H[s] = b \/ H[t] = b
  <2>1. \A b : ~In(<<>>, b)
    BY DEF In
  <2>2. QED BY <2>1, NoBufOutside DEF Owned
<1> HIDE DEF Place, N
<1>4. g \in [Buf -> 1..(N + 3)]
  <2>1. ASSUME NEW b \in Buf PROVE Label(b) \in 1..(N + 3)
    <3>1. CASE In(M, b)
      BY <1>1, <1>2, <3>1
    <3>2. CASE ~In(M, b)
      BY <1>1, <3>2
    <3>3. QED BY <3>1, <3>2
  <2>2. QED BY <2>1
<1>5. ASSUME NEW b \in Buf, NEW c \in Buf, Label(b) = Label(c) PROVE b = c
  <2>1. CASE In(M, b) \/ In(M, c)
    <3>1. In(M, b) /\ In(M, c)
      BY <1>1, <1>2, <1>5, <2>1
    <3>2. QED BY <1>2, <1>5, <3>1
  <2>2. CASE ~In(M, b) /\ ~In(M, c)
    BY <1>1, <1>3, <1>5, <2>2
  <2>3. QED BY <2>1, <2>2
<1>6. IsFiniteSet(Buf) /\ Cardinality(Buf) = PoolSize
  BY <1>1, FS_Interval DEF Buf
<1>7. IsFiniteSet(1..(N + 3)) /\ Cardinality(1..(N + 3)) = N + 3
  <2> DEFINE n == N + 3
  <2>1. 1 \in Int /\ n \in Int /\ n >= 1
    BY <1>1
  <2> HIDE DEF n
  <2>2. /\ IsFiniteSet(1..n)
        /\ Cardinality(1..n) = IF 1 > n THEN 0 ELSE n - 1 + 1
    BY <2>1, FS_Interval
  <2>3. Cardinality(1..n) = n
    BY <2>1, <2>2
  <2>4. QED BY <2>2, <2>3 DEF n
<1>8. \E b, c \in Buf : b # c /\ g[b] = g[c]
  <2>1. Cardinality(1..(N + 3)) < Cardinality(Buf)
    BY <1>6, <1>7 DEF N
  <2> HIDE DEF g
  <2>2. QED BY <1>4, <1>6, <1>7, <2>1, FS_PigeonHole
<1>9. QED BY <1>5, <1>8

\* Nothing moves after a fault.
LEMMA FaultStops == ASSUME Next PROVE fault = "none"
<1> USE DEF At, Awake, OnReset, TimesOut, Fetch, Consume, SendNew, SentOr, Sent
<1>1. CASE PENext
  <2>1. CASE Startup \/ Discovery \/ HardReset \/ TransitionDefault \/ ChunkReceived
             \/ NotSupportedReceived \/ SourceUnresponsive \/ PpsTimer
    BY <2>1 DEF Startup, Discovery, HardReset, TransitionDefault, ChunkReceived,
                NotSupportedReceived, SourceUnresponsive, PpsTimer
  <2>2. CASE EvalCap
    BY <2>2, Zenon DEF EvalCap
  <2>3. CASE WaitCap
    BY <2>3, Zenon DEF WaitCap
  <2>4. CASE SelectCap
    BY <2>4 DEF SelectCap, SelectCapSend, SelectCapSent, SelectCapAnswer
  <2>5. CASE TransitionSink \/ SendSoftReset
    BY <2>5 DEF TransitionSink, SendSoftReset
  <2>6. CASE Ready
    BY <2>6, Zenon DEF Ready, ReadyWakes, ReadyStarts, ReadyFrees
  <2>7. CASE GetSourceCap \/ GiveSinkCap \/ SoftReset \/ SendNotSupported
    BY <2>7 DEF GetSourceCap, GiveSinkCap, SoftReset, SendNotSupported
  <2>8. QED BY <1>1, <2>1, <2>2, <2>3, <2>4, <2>5, <2>6, <2>7 DEF PENext
<1>2. CASE RXNext
  BY <1>2 DEF RXNext, RxWaitPHY, RxRead, RxReset, RxResetYielded, RxCheckMessageID,
     RxStoreMessageID, RxStoreYielded, RXAt, Runs
<1>3. CASE TXNext
  BY <1>3 DEF TXNext, TxPHYReset, TxWaitMessage, TxReset, TxConstructMessage, TxSinkTx,
     TxSend, TxWaitResponse, TxMatchMessageID, TxTransmissionError, TxMessageSent,
     TxOver, TxDiscardMessage, TXAt, Runs
<1>4. CASE HRNext
  BY <1>4 DEF HRNext, HrResetLayer, HrResetYielded, HrIndicateHardReset, HrTellPE,
     HrRequestHardReset, HrWaitPHY, HrTimeout, HrHardResetRequested, HrWaitPE, HRAt, Runs
<1>5. CASE I2CDone \/ IntN \/ Application
  BY <1>5 DEF I2CDone, IntN, IntNPoll, IntNTellRX, IntNTellTX, IntNTellHR, IntNTell,
     IntNTellPE, Idle, Application, MainBoot, ButtonPress, ButtonRelease, AskSourceCap,
     TellPE
<1>6. CASE Source \/ Transceiver
  <2>1. Idle
    <3>1. SrcSend \/ SrcStart => Idle
      BY Zenon DEF SrcSend, SrcStart
    <3>2. QED BY <1>6, <3>1 DEF Source, SrcTransition, SrcSoftReset, SrcHardReset,
             SrcRecover, SinkQuiet, Transceiver, PhySent, PhyRetryFail, PhyHardSent, Overheat
  <2>2. QED BY <2>1 DEF Idle
<1>7. QED BY <1>1, <1>2, <1>3, <1>4, <1>5, <1>6 DEF Next

\* The pool runs empty only while messages the Policy Engine has not fetched
\* hold all but three of its buffers: never when it keeps up with the source,
\* if the pool has four.
EmptyMeansBehind == fault = "nullAlloc" => Len(box.PE) + 3 >= PoolSize

\* Who takes a buffer from an empty pool leaves two of the five pointers null.
LEMMA AllocBehind ==
    ASSUME IInv, OInv, Next, fault' = "nullAlloc"
    PROVE  Len(box'.PE) + 3 >= PoolSize
<1>1. fault = "none"
  BY FaultStops
<1> DEFINE Free(s, t) == s # t /\ Held[s] = NoBuf /\ Held[t] = NoBuf
<1>2. ASSUME pool = <<>>, box' = box, NEW s \in Slot, NEW t \in Slot, Free(s, t)
      PROVE  Len(box'.PE) + 3 >= PoolSize
  <2>1. /\ Held \in Pointers /\ box.PE \in Seq(Buf) /\ Owned(<<>>, box.PE, Held)
    BY <1>2, HeldFacts DEF OInv, Buffers
  <2>2. PICK r1 \in Slot, r2 \in Slot, r3 \in Slot : Slot = {s, t, r1, r2, r3}
    BY <1>2 DEF Slot
  <2>3. \A u \in Slot : Held[u] # NoBuf => u \in {r1, r2, r3}
    BY <1>2, <2>2
  <2>4. QED BY <1>2, <2>1, <2>3, RestInMail
<1>3. ASSUME NEW s \in Elsewhere, NEW type, NEW wait, SendNew(s, type, wait)
      PROVE  Len(box'.PE) + 3 >= PoolSize
  <2>1. pool = <<>> /\ box' = box
    BY <1>1, <1>3 DEF SendNew, Fault
  <2>2. Free("sending", "message") /\ "sending" \in Slot /\ "message" \in Slot
    BY <1>3, HeldFacts DEF SendNew, At, OInv, Handlers, Elsewhere, Slot
  <2>3. QED BY <1>2, <2>1, <2>2
<1>4. CASE PENext
  <2>1. CASE EvalCap
    <3>1. pe.state = "PESinkEvalCap" /\ pe.request = NoBuf /\ pool = <<>> /\ box' = box
      BY <1>1, <2>1, Zenon DEF EvalCap, At, Fault
    <3>2. pe.sending = NoBuf
      BY <3>1 DEF OInv, Handlers, Sending
    <3>3. Free("request", "sending") /\ "sending" \in Slot /\ "request" \in Slot
      BY <3>1, <3>2, HeldFacts DEF Slot
    <3>4. QED BY <1>2, <3>1, <3>3
  <2>2. CASE GetSourceCap \/ GiveSinkCap \/ SoftReset \/ SendNotSupported \/ SendSoftReset
    <3>1. ASSUME NEW s, NEW done, NEW failed, SentOr(s, done, failed) PROVE FALSE
      BY <1>1, <3>1 DEF SentOr, Sent
    <3>2. /\ "PESinkGetSourceCap" \in Elsewhere /\ "PESinkGiveSinkCap" \in Elsewhere
          /\ "PESinkSoftReset" \in Elsewhere /\ "PESinkSendNotSupported" \in Elsewhere
          /\ "PESinkSendSoftReset" \in Elsewhere
      BY DEF Elsewhere, PEState, Sending
    <3>3. CASE GetSourceCap \/ GiveSinkCap \/ SoftReset \/ SendNotSupported
      BY <1>3, <3>1, <3>2, <3>3 DEF GetSourceCap, GiveSinkCap, SoftReset, SendNotSupported
    <3>4. CASE SendSoftReset
      BY <1>1, <1>3, <3>1, <3>2, <3>4
         DEF SendSoftReset, OnReset, TimesOut, Consume, Fetch, kernelVars
    <3>5. QED BY <2>2, <3>3, <3>4
  <2>3. CASE WaitCap \/ SelectCap \/ TransitionSink \/ Ready \/ ChunkReceived
    <3>1. fault' = fault
      <4>1. WaitCap => fault' = fault
        BY Zenon DEF WaitCap, TimesOut, OnReset, Fetch, Consume, kernelVars
      <4>2. SelectCap => fault' = fault
        BY DEF SelectCap, SelectCapSend, SelectCapSent, SelectCapAnswer, OnReset, TimesOut,
               Fetch, Consume, kernelVars
      <4>3. TransitionSink => fault' = fault
        BY DEF TransitionSink, TimesOut, OnReset, Fetch, Consume, kernelVars
      <4>4. Ready => fault' = fault
        BY Zenon DEF Ready, ReadyWakes, ReadyStarts, ReadyFrees, TimesOut, OnReset, Fetch,
                     Consume, kernelVars
      <4>5. ChunkReceived => fault' = fault
        BY DEF ChunkReceived, TimesOut, OnReset, kernelVars
      <4>6. QED BY <2>3, <4>1, <4>2, <4>3, <4>4, <4>5
    <3>2. QED BY <1>1, <3>1
  <2>4. CASE Startup \/ Discovery \/ HardReset \/ TransitionDefault
             \/ NotSupportedReceived \/ SourceUnresponsive \/ PpsTimer
    BY <1>1, <2>4 DEF Startup, Discovery, HardReset, TransitionDefault,
       NotSupportedReceived, SourceUnresponsive, PpsTimer, kernelVars
  <2>5. QED BY <1>4, <2>1, <2>2, <2>3, <2>4 DEF PENext
<1>5. CASE RXNext
  <2>1. RxWaitPHY
    BY <1>1, <1>5 DEF RXNext, RxRead, RxReset, RxResetYielded, RxCheckMessageID,
       RxStoreMessageID, RxStoreYielded, rxUnchanged
  <2>2. pool = <<>> /\ box' = box /\ rx.state = "PRLRxWaitPHY" /\ ~PERunnable
    BY <1>1, <2>1 DEF RxWaitPHY, Fault, rxUnchanged, RXAt, Runs
  <2>3. pe.state # "PESinkEvalCap"
    BY <2>2 DEF PERunnable, Waiting, WaitMask
  <2>4. Free("message", "rx") /\ "message" \in Slot /\ "rx" \in Slot
    BY <2>2, <2>3, HeldFacts DEF Slot
  <2>5. QED BY <1>2, <2>2, <2>4
<1>6. CASE TXNext
  BY <1>1, <1>6 DEF TXNext, TxPHYReset, TxWaitMessage, TxReset, TxConstructMessage, TxSinkTx,
     TxSend, TxWaitResponse, TxMatchMessageID, TxTransmissionError, TxMessageSent,
     TxOver, TxDiscardMessage, txUnchanged, Fault
<1>7. CASE HRNext
  BY <1>1, <1>7 DEF HRNext, HrResetLayer, HrResetYielded, HrIndicateHardReset, HrTellPE,
     HrRequestHardReset, HrWaitPHY, HrTimeout, HrHardResetRequested, HrWaitPE, hrUnchanged
<1>8. CASE I2CDone \/ IntN \/ Application
  BY <1>1, <1>8 DEF I2CDone, IntN, IntNPoll, IntNTellRX, IntNTellTX, IntNTellHR, IntNTell,
     IntNTellPE, Application, MainBoot, ButtonPress, ButtonRelease, AskSourceCap,
     TellPE, threadsUnchanged
<1>9. CASE Source \/ Transceiver
  <2>1. SrcSend \/ SrcStart => portUnchanged
    BY Zenon DEF SrcSend, SrcStart
  <2>2. QED BY <1>1, <1>9, <2>1 DEF Source, SrcTransition, SrcSoftReset, SrcHardReset,
           SrcRecover, Transceiver, PhySent, PhyRetryFail, PhyHardSent, Overheat,
           portUnchanged, threadsUnchanged
<1>10. QED BY <1>4, <1>5, <1>6, <1>7, <1>8, <1>9 DEF Next

\* protocol_rx.c says of its allocation that it cannot fail, "because we have a
\* big enough pool". How big is: an allocation fails, of whichever thread, only
\* if all but three of the buffers hold messages that wait in the Policy Engine's
\* mailbox, in every environment. The bound is met: in the run pool_exhausted
\* one message waits, and the pool has four.
THEOREM PoolEmptiesBehind == Spec => []EmptyMeansBehind
<1>1. Init => EmptyMeansBehind
  BY DEF Init, EmptyMeansBehind
<1>2. IInv /\ OInv /\ EmptyMeansBehind /\ [Next]_vars => EmptyMeansBehind'
  BY AllocBehind DEF EmptyMeansBehind, vars, kernelVars
<1>3. QED BY <1>1, <1>2, Ownership, PTL DEF Spec

=============================================================================
