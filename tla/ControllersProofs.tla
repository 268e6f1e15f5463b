------------------------- MODULE ControllersProofs -------------------------
(* Proofs about the parts that carry out what was asked of the pool: the     *)
(* command dispatcher, the salt cell, the start-up, the spa-side remotes and *)
(* the emulated iAqualink with its writers, each from an inductive invariant *)
(* of its own, and their composition.                                        *)
EXTENDS MCControllers, FiniteSetTheorems, SequenceTheorems, WellFoundedInduction, TLAPS

(***************************************************************************)
(* The command dispatcher.                                                 *)
(***************************************************************************)

(* How many of the toggles of a queue are for r.                           *)
Places(q, r) == {i \in 1..Len(q) : q[i] = r}
Count(q, r) == Cardinality(Places(q, r))

LEMMA CountIsNat ==
  ASSUME NEW S, NEW q \in Seq(S), NEW r
  PROVE  IsFiniteSet(Places(q, r)) /\ Count(q, r) \in Nat
<1>1. Len(q) \in Nat
  OBVIOUS
<1>2. IsFiniteSet(1..Len(q))
  BY <1>1, FS_Interval
<1>3. Places(q, r) \subseteq 1..Len(q)
  BY DEF Places
<1>4. IsFiniteSet(Places(q, r))
  BY <1>2, <1>3, FS_Subset
<1>5. Cardinality(Places(q, r)) \in Nat
  BY <1>4, FS_CardinalityType
<1> QED BY <1>4, <1>5 DEF Count

LEMMA CountOfNone ==
  ASSUME NEW r
  PROVE  Count(<<>>, r) = 0
<1>1. Places(<<>>, r) = {}
  BY DEF Places
<1> QED BY <1>1, FS_EmptySet DEF Count

LEMMA CountOfAppend ==
  ASSUME NEW S, NEW q \in Seq(S), NEW x \in S, NEW r
  PROVE  Count(Append(q, x), r) = IF x = r THEN Count(q, r) + 1 ELSE Count(q, r)
<1> DEFINE n == Len(q) + 1
<1>1. Len(q) \in Nat /\ Len(Append(q, x)) = n /\ Append(q, x)[n] = x
      /\ \A i \in 1..Len(q) : Append(q, x)[i] = q[i]
  OBVIOUS
<1>2. CASE x # r
  <2>1. Places(Append(q, x), r) = Places(q, r)
    BY <1>1, <1>2 DEF Places
  <2> QED BY <1>2, <2>1 DEF Count
<1>3. CASE x = r
  <2>1. Places(Append(q, x), r) = Places(q, r) \cup {n}
    BY <1>1, <1>3 DEF Places
  <2>2. n \notin Places(q, r)
    BY <1>1 DEF Places
  <2>3. IsFiniteSet(Places(q, r))
    BY CountIsNat
  <2> HIDE DEF n
  <2>4. Cardinality(Places(q, r) \cup {n}) = Cardinality(Places(q, r)) + 1
    BY <2>2, <2>3, FS_AddElement
  <2> QED BY <1>3, <2>1, <2>4 DEF Count
<1> QED BY <1>2, <1>3

LEMMA CountOfTail ==
  ASSUME NEW S, NEW q \in Seq(S), q # <<>>, NEW r
  PROVE  Count(q, r) = IF Head(q) = r THEN Count(Tail(q), r) + 1 ELSE Count(Tail(q), r)
<1> DEFINE Later == {i \in 2..Len(q) : q[i] = r}
           T == Places(Tail(q), r)
           next == [i \in T |-> i + 1]
<1>1. /\ Len(q) \in Nat /\ Len(q) >= 1 /\ Len(Tail(q)) = Len(q) - 1 /\ Head(q) = q[1]
      /\ Tail(q) \in Seq(S)
      /\ \A i \in 1..(Len(q) - 1) : Tail(q)[i] = q[i + 1]
  OBVIOUS
<1>2. \A i \in T : i \in Nat /\ i + 1 \in Later
  BY <1>1 DEF Places
<1>3. \A j \in Later : j - 1 \in T /\ (j - 1) + 1 = j
  BY <1>1 DEF Places
<1>4. next \in Bijection(T, Later)
  <2>1. next \in [T -> Later]
    BY <1>2
  <2>2. \A i, j \in T : next[i] = next[j] => i = j
    BY <1>2
  <2>3. \A j \in Later : \E i \in T : next[i] = j
    BY <1>3
  <2> QED BY <2>1, <2>2, <2>3 DEF Bijection, Injection, Surjection, IsInjective
<1>5. IsFiniteSet(T) /\ Cardinality(T) \in Nat
  BY <1>1, CountIsNat DEF Count
<1>6. IsFiniteSet(Later) /\ Cardinality(Later) = Cardinality(T)
  <2>1. ExistsBijection(T, Later)
    BY <1>4 DEF ExistsBijection
  <2> HIDE DEF Later, T, next
  <2> QED BY <1>5, <2>1, FS_Bijection
<1>7. CASE q[1] = r
  <2>1. Places(q, r) = Later \cup {1} /\ 1 \notin Later
    BY <1>1, <1>7 DEF Places
  <2> HIDE DEF Later, T
  <2>2. Cardinality(Later \cup {1}) = Cardinality(Later) + 1
    BY <1>6, <2>1, FS_AddElement
  <2>3. Count(q, r) = Cardinality(T) + 1
    BY <1>6, <2>1, <2>2 DEF Count
  <2> QED BY <1>1, <1>7, <2>3 DEF T, Count
<1>8. CASE q[1] # r
  <2>1. Places(q, r) = Later
    BY <1>1, <1>8 DEF Places
  <2> QED BY <1>1, <1>6, <1>8, <2>1 DEF Count
<1> QED BY <1>7, <1>8

(* Whether the toggles of r that were accepted and not emitted are even in *)
(* number: then the relay is as it will be left.                           *)
Waiting(q, r) == Count(q["serial_adapter"], r) + Count(q["iaq"], r) + Count(q["onetouch"], r)
InStep(r) == (wanted[r] = relay[r]) <=> Waiting(queued, r) % 2 = 0

DispatchInv ==
  /\ DOMAIN controllers \subseteq Controller
  /\ controllers \in [DOMAIN controllers -> {"idle", "passive", "busy"}]
  /\ queued \in [Controller -> Seq(Relays)]
  /\ DispatchTypeOK
  /\ \A r \in Relays : InStep(r)

LEMMA DispatchTakers ==
  ASSUME DispatchInv, NEW cap, NEW r,
         NEW d, d = DispatchToCapable(cap, r)
  PROVE  \/ d.takers = {} /\ d.result # "Success"
         \/ \E c \in DOMAIN controllers :
               d.takers = {c} /\ d.result = "Success" /\ controllers[c] = "idle"
<1> DEFINE stops == Stopping(cap, r)
           first == FirstOf(stops)
<1>1. Unserved(cap, r) # "Success"
  BY DEF Unserved, WhenNone
<1>2. \A c \in stops : c \in DOMAIN controllers /\ controllers[c] = "idle" /\ Answer(c, cap, r) = "Accepted"
  BY DEF Stopping, Candidates, Answer, DispatchInv
<1>3. ASSUME stops # {} PROVE first \in stops
  <2>1. stops \subseteq Controller
    BY DEF Stopping, Candidates, DispatchInv
  <2> HIDE DEF stops
  <2>2. \E c \in stops : \A e \in stops : ActuationPriority[c] <= ActuationPriority[e]
    <3>1. CASE "serial_adapter" \in stops
      BY <2>1, <3>1 DEF Controller, ActuationPriority
    <3>2. CASE "serial_adapter" \notin stops /\ "iaq" \in stops
      BY <2>1, <3>2 DEF Controller, ActuationPriority
    <3>3. CASE "serial_adapter" \notin stops /\ "iaq" \notin stops
      <4>1. \A e \in stops : e = "onetouch"
        BY <2>1, <3>3 DEF Controller
      <4>2. ActuationPriority["onetouch"] = 2
        BY DEF ActuationPriority
      <4> QED BY <1>3, <4>1, <4>2
    <3> QED BY <3>1, <3>2, <3>3
  <2> QED BY <2>2 DEF FirstOf
<1>4. CASE stops = {}
  <2>1. d = [result |-> Unserved(cap, r), takers |-> {}]
    BY <1>4 DEF DispatchToCapable
  <2> QED BY <1>1, <2>1
<1>5. CASE stops # {}
  <2>1. Answer(first, cap, r) = "Accepted" /\ first \in DOMAIN controllers /\ controllers[first] = "idle"
    BY <1>2, <1>3, <1>5
  <2>2. d = [result |-> "Success", takers |-> {first}]
    BY <1>5, <2>1 DEF DispatchToCapable
  <2> QED BY <2>1, <2>2
<1> QED BY <1>4, <1>5

LEMMA ParityOfOneMore ==
  ASSUME NEW n \in Nat
  PROVE  (n + 1) % 2 = 0 <=> ~(n % 2 = 0)
OBVIOUS

LEMMA CommandKept ==
  ASSUME DispatchInv, NEW r \in Relays, CommandByUuid(r), requests' \in 0..MaxRequests, UNCHANGED relay
  PROVE  DispatchInv'
<1> DEFINE d == DispatchToCapable("DeviceActuator", r)
<1>1. /\ queued' = [c \in Controller |-> IF c \in d.takers THEN Append(queued[c], r) ELSE queued[c]]
      /\ controllers' = [c \in DOMAIN controllers |->
                           IF c \in d.takers /\ c # "serial_adapter" THEN "busy" ELSE controllers[c]]
      /\ wanted' = IF d.result = "Success" THEN [wanted EXCEPT ![r] = ~@] ELSE wanted
  BY DEF CommandByUuid
<1>2. \/ d.takers = {} /\ d.result # "Success"
      \/ \E c \in DOMAIN controllers : d.takers = {c} /\ d.result = "Success" /\ controllers[c] = "idle"
  BY DispatchTakers
<1> HIDE DEF d
<1>3. CASE d.takers = {} /\ d.result # "Success"
  <2>1. queued' = queued /\ controllers' = controllers /\ wanted' = wanted
    BY <1>1, <1>3 DEF DispatchInv
  <2> QED BY <2>1 DEF DispatchInv, DispatchTypeOK, InStep, Waiting
<1>4. ASSUME NEW c \in DOMAIN controllers, d.takers = {c}, d.result = "Success", controllers[c] = "idle"
      PROVE  DispatchInv'
  <2>0. c \in Controller
    BY DEF DispatchInv
  <2>1. queued' = [queued EXCEPT ![c] = Append(@, r)] /\ wanted' = [wanted EXCEPT ![r] = ~@]
    BY <1>1, <1>4 DEF DispatchInv
  <2>2. DOMAIN controllers' = DOMAIN controllers
        /\ controllers'[c] = (IF c # "serial_adapter" THEN "busy" ELSE "idle")
        /\ \A e \in DOMAIN controllers \ {c} : controllers'[e] = controllers[e]
    BY <1>1, <1>4
  <2>3. queued' \in [Controller -> Seq(Relays)]
    <3>1. Append(queued[c], r) \in Seq(Relays)
      BY <2>0 DEF DispatchInv
    <3> QED BY <2>1, <3>1 DEF DispatchInv
  <2>4. controllers' \in [DOMAIN controllers' -> {"idle", "passive", "busy"}]
    BY <1>1 DEF DispatchInv
  <2>5. DispatchTypeOK'
    <3>1. c # "serial_adapter" => queued[c] = <<>>
      BY <1>4 DEF DispatchInv, DispatchTypeOK
    <3>2. c # "serial_adapter" => Len(queued'[c]) <= 1
      BY <2>0, <2>1, <3>1 DEF DispatchInv
    <3>3. wanted' \in [Relays -> BOOLEAN] /\ relay' \in [Relays -> BOOLEAN]
      BY <2>1 DEF DispatchInv, DispatchTypeOK
    <3>4. \A e \in Controller \ {c} : queued'[e] = queued[e]
      BY <2>1 DEF DispatchInv
    <3> QED BY <2>0, <2>2, <3>2, <3>3, <3>4, <2>4 DEF DispatchInv, DispatchTypeOK
  <2>6. ASSUME NEW x \in Relays PROVE InStep(x)'
    <3>1. \A e \in Controller : Count(queued[e], x) \in Nat
      BY CountIsNat DEF DispatchInv
    <3>2. Count(queued'[c], x) = IF r = x THEN Count(queued[c], x) + 1 ELSE Count(queued[c], x)
      <4>1. queued'[c] = Append(queued[c], r) /\ queued[c] \in Seq(Relays)
        BY <2>0, <2>1 DEF DispatchInv
      <4> QED BY <4>1, CountOfAppend
    <3>3. \A e \in Controller \ {c} : queued'[e] = queued[e]
      BY <2>1 DEF DispatchInv
    <3>4. Waiting(queued, x) \in Nat
          /\ Waiting(queued', x) = IF r = x THEN Waiting(queued, x) + 1 ELSE Waiting(queued, x)
      BY <2>0, <3>1, <3>2, <3>3 DEF Waiting, Controller
    <3>5. (Waiting(queued, x) + 1) % 2 = 0 <=> ~(Waiting(queued, x) % 2 = 0)
      BY <3>4, ParityOfOneMore
    <3>6. wanted'[x] = (IF r = x THEN ~wanted[x] ELSE wanted[x]) /\ wanted[x] \in BOOLEAN /\ relay[x] \in BOOLEAN
      BY <2>1 DEF DispatchInv, DispatchTypeOK
    <3>7. (wanted[x] = relay[x]) <=> Waiting(queued, x) % 2 = 0
      BY DEF DispatchInv, InStep
    <3>8. CASE r = x
      <4>1. Waiting(queued', x) % 2 = 0 <=> ~(Waiting(queued, x) % 2 = 0)
        BY <3>4, <3>5, <3>8
      <4>2. (wanted'[x] = relay'[x]) <=> ~(wanted[x] = relay[x])
        BY <3>6, <3>8
      <4> QED BY <4>1, <4>2, <3>7 DEF InStep
    <3>9. CASE r # x
      BY <3>4, <3>6, <3>7, <3>9 DEF InStep
    <3> QED BY <3>8, <3>9
  <2> QED BY <2>2, <2>3, <2>4, <2>5, <2>6 DEF DispatchInv
<1> QED BY <1>2, <1>3, <1>4

LEMMA OtherRequestKept ==
  ASSUME DispatchInv, OtherRequest, DispatchConstants
  PROVE  DispatchInv'
<1>1. PICK cap : \E d \in {DispatchToCapable(cap, "none")} :
        controllers' = [c \in DOMAIN controllers |->
                          IF c \in d.takers /\ c # "serial_adapter" THEN "busy" ELSE controllers[c]]
  BY DEF OtherRequest
<1> DEFINE d == DispatchToCapable(cap, "none")
<1>2. d.takers = {} \/ \E c \in DOMAIN controllers : d.takers = {c} /\ controllers[c] = "idle"
  BY DispatchTakers
<1>3. controllers' = [c \in DOMAIN controllers |->
                        IF c \in d.takers /\ c # "serial_adapter" THEN "busy" ELSE controllers[c]]
  BY <1>1
<1> HIDE DEF d
<1>4. UNCHANGED <<queued, relay, wanted>> /\ requests > 0 /\ requests' = requests - 1
  BY DEF OtherRequest
<1>5. requests' \in 0..MaxRequests
  BY <1>4, DispatchConstants DEF DispatchInv, DispatchTypeOK
<1>6. DispatchTypeOK'
  <2>1. DOMAIN controllers' = DOMAIN controllers
        /\ \A c \in DOMAIN controllers : controllers'[c] = controllers[c]
                                         \/ (controllers[c] = "idle" /\ controllers'[c] = "busy")
    <3>1. CASE d.takers = {}
      BY <1>3, <3>1
    <3>2. ASSUME NEW e \in DOMAIN controllers, d.takers = {e}, controllers[e] = "idle"
          PROVE  \A c \in DOMAIN controllers : controllers'[c] = controllers[c]
                                              \/ (controllers[c] = "idle" /\ controllers'[c] = "busy")
      BY <1>3, <3>2
    <3> QED BY <1>2, <1>3, <3>1, <3>2
  <2> QED BY <1>4, <1>5, <2>1 DEF DispatchInv, DispatchTypeOK
<1>7. DOMAIN controllers' \subseteq Controller /\ controllers' \in [DOMAIN controllers' -> {"idle", "passive", "busy"}]
  BY <1>3 DEF DispatchInv
<1> QED BY <1>4, <1>6, <1>7 DEF DispatchInv, InStep, Waiting

LEMMA EmitKept ==
  ASSUME DispatchInv, NEW c \in Controller, Emit(c)
  PROVE  DispatchInv'
<1>1. /\ c \in DOMAIN controllers
      /\ controllers' = [controllers EXCEPT ![c] = "idle"] /\ UNCHANGED <<wanted, requests>>
  BY DEF Emit
<1>2. DOMAIN controllers' \subseteq Controller
      /\ controllers' \in [DOMAIN controllers' -> {"idle", "passive", "busy"}]
  BY <1>1 DEF DispatchInv
<1>3. CASE queued[c] = <<>>
  <2>1. controllers[c] = "busy" /\ UNCHANGED <<relay, queued>>
    BY <1>3 DEF Emit
  <2>2. DispatchTypeOK'
    BY <1>1, <1>3, <2>1 DEF DispatchInv, DispatchTypeOK
  <2> QED BY <1>1, <1>2, <2>1, <2>2 DEF DispatchInv, InStep, Waiting
<1>4. CASE queued[c] # <<>>
  <2> DEFINE q == queued[c]
  <2>1. relay' = [relay EXCEPT ![Head(q)] = ~@] /\ queued' = [queued EXCEPT ![c] = Tail(@)]
    BY <1>4 DEF Emit
  <2>2. q \in Seq(Relays) /\ q # <<>> /\ Head(q) \in Relays /\ Tail(q) \in Seq(Relays)
        /\ Len(Tail(q)) = Len(q) - 1 /\ Len(q) \in Nat
    BY <1>4 DEF DispatchInv
  <2>3. queued' \in [Controller -> Seq(Relays)] /\ queued'[c] = Tail(q)
        /\ \A e \in Controller \ {c} : queued'[e] = queued[e]
    BY <2>1, <2>2 DEF DispatchInv
  <2>4. DispatchTypeOK'
    <3>1. relay' \in [Relays -> BOOLEAN]
      BY <2>1, <2>2 DEF DispatchInv, DispatchTypeOK
    <3>2. c # "serial_adapter" => Tail(q) = <<>>
      BY <1>1, <2>2 DEF DispatchInv, DispatchTypeOK
    <3>3. c # "serial_adapter" => Len(Tail(q)) <= 1
      BY <1>1, <2>2 DEF DispatchInv, DispatchTypeOK
    <3>4. \A e \in DOMAIN controllers \ {c} : controllers'[e] = controllers[e]
      BY <1>1
    <3>5. controllers'[c] = "idle" /\ DOMAIN controllers' = DOMAIN controllers
      BY <1>1
    <3> QED BY <1>1, <2>3, <3>1, <3>2, <3>3, <3>4, <3>5 DEF DispatchInv, DispatchTypeOK
  <2>5. ASSUME NEW x \in Relays PROVE InStep(x)'
    <3>1. \A e \in Controller : Count(queued[e], x) \in Nat
      BY CountIsNat DEF DispatchInv
    <3>2. Count(queued[c], x) = IF Head(q) = x THEN Count(queued'[c], x) + 1 ELSE Count(queued'[c], x)
      BY <2>2, <2>3, CountOfTail
    <3>3. Count(queued'[c], x) \in Nat
      BY <2>2, <2>3, CountIsNat
    <3>4. Waiting(queued', x) \in Nat
          /\ Waiting(queued, x) = IF Head(q) = x THEN Waiting(queued', x) + 1 ELSE Waiting(queued', x)
      <4>0. \A e \in Controller \ {c} : Count(queued[e], x) = Count(queued'[e], x) /\ Count(queued'[e], x) \in Nat
        BY <2>3, <3>1
      <4>1. CASE c = "serial_adapter"
        <5>1. Count(queued["iaq"], x) = Count(queued'["iaq"], x) /\ Count(queued'["iaq"], x) \in Nat
              /\ Count(queued["onetouch"], x) = Count(queued'["onetouch"], x) /\ Count(queued'["onetouch"], x) \in Nat
          BY <4>0, <4>1 DEF Controller
        <5> QED BY <3>2, <3>3, <4>1, <5>1 DEF Waiting
      <4>2. CASE c = "iaq"
        <5>1. Count(queued["serial_adapter"], x) = Count(queued'["serial_adapter"], x)
              /\ Count(queued'["serial_adapter"], x) \in Nat
              /\ Count(queued["onetouch"], x) = Count(queued'["onetouch"], x) /\ Count(queued'["onetouch"], x) \in Nat
          BY <4>0, <4>2 DEF Controller
        <5> QED BY <3>2, <3>3, <4>2, <5>1 DEF Waiting
      <4>3. CASE c = "onetouch"
        <5>1. Count(queued["serial_adapter"], x) = Count(queued'["serial_adapter"], x)
              /\ Count(queued'["serial_adapter"], x) \in Nat
              /\ Count(queued["iaq"], x) = Count(queued'["iaq"], x) /\ Count(queued'["iaq"], x) \in Nat
          BY <4>0, <4>3 DEF Controller
        <5> QED BY <3>2, <3>3, <4>3, <5>1 DEF Waiting
      <4> QED BY <4>1, <4>2, <4>3 DEF Controller
    <3>5. (Waiting(queued', x) + 1) % 2 = 0 <=> ~(Waiting(queued', x) % 2 = 0)
      BY <3>4, ParityOfOneMore
    <3>6. relay'[x] = (IF Head(q) = x THEN ~relay[x] ELSE relay[x]) /\ wanted[x] \in BOOLEAN /\ relay[x] \in BOOLEAN
      BY <2>1, <2>2 DEF DispatchInv, DispatchTypeOK
    <3>7. (wanted[x] = relay[x]) <=> Waiting(queued, x) % 2 = 0
      BY DEF DispatchInv, InStep
    <3>8. CASE Head(q) = x
      <4>1. Waiting(queued, x) % 2 = 0 <=> ~(Waiting(queued', x) % 2 = 0)
        BY <3>4, <3>5, <3>8
      <4>2. (wanted'[x] = relay'[x]) <=> ~(wanted[x] = relay[x])
        BY <1>1, <3>6, <3>8
      <4> QED BY <4>1, <4>2, <3>7 DEF InStep
    <3>9. CASE Head(q) # x
      BY <1>1, <3>4, <3>6, <3>7, <3>9 DEF InStep
    <3> QED BY <3>8, <3>9
  <2> QED BY <1>2, <2>3, <2>4, <2>5 DEF DispatchInv
<1> QED BY <1>3, <1>4

LEMMA DispatchStarts == DispatchInit => DispatchInv
<1> SUFFICES ASSUME DispatchInit PROVE DispatchInv
  OBVIOUS
<1>1. /\ DOMAIN controllers \subseteq Controller
      /\ controllers \in [DOMAIN controllers -> {"idle", "passive", "busy"}]
  BY DEF DispatchInit
<1>2. /\ queued = [c \in Controller |-> <<>>] /\ relay = [r \in Relays |-> FALSE] /\ wanted = relay
      /\ requests = MaxRequests
  BY DEF DispatchInit
<1>3. DispatchTypeOK
  BY <1>1, <1>2, DispatchConstants DEF DispatchTypeOK
<1>4. ASSUME NEW r \in Relays PROVE InStep(r)
  <2>1. Waiting(queued, r) = 0
    BY <1>2, CountOfNone DEF Waiting, Controller
  <2> QED BY <1>2, <2>1 DEF InStep
<1> QED BY <1>1, <1>2, <1>3, <1>4 DEF DispatchInv

LEMMA DispatchKept ==
  ASSUME DispatchInv, [DispatchNext]_dispatchVars
  PROVE  DispatchInv'
<1>1. ASSUME Command PROVE DispatchInv'
  <2>1. requests' \in 0..MaxRequests
    BY <1>1, DispatchConstants DEF Command, DispatchInv, DispatchTypeOK
  <2> QED BY <1>1, <2>1, CommandKept DEF Command
<1>2. ASSUME OtherRequest PROVE DispatchInv'
  BY <1>2, OtherRequestKept, DispatchConstants
<1>3. ASSUME NEW c \in Controller, Emit(c) PROVE DispatchInv'
  BY <1>3, EmitKept
<1>4. ASSUME NEW c \in Controller, Learn(c) PROVE DispatchInv'
  BY <1>4 DEF Learn, DispatchInv, DispatchTypeOK, InStep, Waiting
<1>5. ASSUME UNCHANGED dispatchVars PROVE DispatchInv'
  BY <1>5 DEF dispatchVars, DispatchInv, DispatchTypeOK, InStep, Waiting
<1> QED BY <1>1, <1>2, <1>3, <1>4, <1>5 DEF DispatchNext

LEMMA DispatchInvIsSafe == DispatchInv => DispatchSafe
<1> SUFFICES ASSUME DispatchInv, \A c \in Controller : queued[c] = <<>> PROVE relay = wanted
  BY DEF DispatchInv, DispatchSafe, CarriedOutOnce
<1>1. ASSUME NEW r \in Relays PROVE relay[r] = wanted[r]
  <2>1. Waiting(queued, r) = 0
    BY CountOfNone DEF Waiting, Controller
  <2> QED BY <2>1 DEF DispatchInv, InStep
<1> QED BY <1>1 DEF DispatchInv, DispatchTypeOK

(* Every accepted toggle is carried out once, by one controller that may:  *)
(* when the queues have drained the relays are as the accepted toggles     *)
(* leave them.                                                             *)
THEOREM AcceptedIsDoneOnce == DispatchSpec => []DispatchSafe
BY DispatchStarts, DispatchKept, DispatchInvIsSafe, PTL DEF DispatchSpec

(***************************************************************************)
(* The salt cell.                                                          *)
(***************************************************************************)
LEMMA LeastNumber ==
  ASSUME NEW S \in SUBSET Nat, S # {}
  PROVE  \E x \in S : \A y \in S : x <= y
<1> DEFINE R == OpToRel(<, Nat)
<1>1. IsWellFoundedOn(R, Nat)
  BY NatLessThanWellFounded
<1>2. \A i, j \in Nat : i < j => <<i, j>> \in R
  BY DEF OpToRel
<1> HIDE DEF R
<1>3. PICK x \in S : \A y \in S : ~ (<<y, x>> \in R)
  BY <1>1, WFMin, Zenon
<1>4. ASSUME NEW y \in S PROVE x <= y
  <2>1. ~(y < x)
    BY <1>2, <1>3, Zenon
  <2> QED BY <2>1
<1> QED BY <1>4

(* Of any places of a sequence of numbers one holds the least of them, and *)
(* one the greatest.                                                       *)
LEMMA LeastPlace ==
  ASSUME NEW w \in Seq(Nat), NEW P \in SUBSET (1..Len(w)), P # {}
  PROVE  \E i \in P : \A j \in P : w[i] <= w[j]
<1>1. {w[i] : i \in P} \in SUBSET Nat /\ {w[i] : i \in P} # {}
  OBVIOUS
<1>2. PICK x \in {w[i] : i \in P} : \A y \in {w[i] : i \in P} : x <= y
  BY <1>1, LeastNumber
<1> QED BY <1>2

LEMMA GreatestPlace ==
  ASSUME NEW w \in Seq(Nat), NEW P \in SUBSET (1..Len(w)), P # {}
  PROVE  \E i \in P : \A j \in P : w[j] <= w[i]
<1> DEFINE Over(i) == {j \in P : w[j] > w[i]}
           Sizes == {Cardinality(Over(i)) : i \in P}
<1>1. IsFiniteSet(P)
  <2>1. Len(w) \in Nat /\ IsFiniteSet(1..Len(w))
    BY FS_Interval
  <2> QED BY <2>1, FS_Subset
<1>2. ASSUME NEW i \in P PROVE IsFiniteSet(Over(i)) /\ Cardinality(Over(i)) \in Nat
  <2>1. Over(i) \in SUBSET P
    OBVIOUS
  <2>2. IsFiniteSet(Over(i))
    BY <1>1, <2>1, FS_Subset
  <2> QED BY <2>2, FS_CardinalityType
<1>3. Sizes \in SUBSET Nat /\ Sizes # {}
  BY <1>2
<1>4. PICK i \in P : \A j \in P : Cardinality(Over(i)) <= Cardinality(Over(j))
  <2> HIDE DEF Over
  <2>1. PICK x \in Sizes : \A y \in Sizes : x <= y
    BY <1>3, LeastNumber
  <2> QED BY <2>1
<1>5. \A j \in P : w[j] \in Nat
  OBVIOUS
<1>6. ASSUME NEW j \in P, ~(w[j] <= w[i]) PROVE FALSE
  <2>1. Over(j) \in SUBSET Over(i)
    <3> SUFFICES ASSUME NEW k \in Over(j) PROVE k \in Over(i)
      OBVIOUS
    <3>1. k \in P /\ w[k] > w[j] /\ w[k] \in Nat /\ w[j] \in Nat /\ w[i] \in Nat
      BY <1>5
    <3>2. w[k] > w[i]
      BY <1>6, <3>1
    <3> QED BY <3>1, <3>2
  <2>2. j \in Over(i) /\ j \notin Over(j)
    BY <1>5, <1>6
  <2>3. IsFiniteSet(Over(i)) /\ Cardinality(Over(i)) \in Nat /\ Cardinality(Over(j)) \in Nat
    BY <1>2
  <2> HIDE DEF Over
  <2>4. Cardinality(Over(j)) <= Cardinality(Over(i)) /\ (Cardinality(Over(i)) = Cardinality(Over(j)) => Over(i) = Over(j))
    BY <2>1, <2>3, FS_Subset
  <2> QED BY <1>4, <2>2, <2>3, <2>4
<1> QED BY <1>6

SamplesBelow(w, v) == {i \in DOMAIN w : w[i] < v}
SamplesUpTo(w, v)  == {i \in DOMAIN w : w[i] <= v}
IsMedian(w, v) ==
  /\ v \in ToSet(w)
  /\ Cardinality(SamplesBelow(w, v)) <= Len(w) \div 2
  /\ Len(w) \div 2 < Cardinality(SamplesUpTo(w, v))

LEMMA CountsOfSamples ==
  ASSUME NEW w \in Seq(Nat), NEW P \in SUBSET (1..Len(w))
  PROVE  /\ IsFiniteSet(P) /\ Cardinality(P) \in Nat
         /\ \A Q \in SUBSET P : Cardinality(Q) <= Cardinality(P)
<1>1. Len(w) \in Nat /\ IsFiniteSet(1..Len(w))
  BY FS_Interval
<1>2. IsFiniteSet(P)
  BY <1>1, FS_Subset
<1>3. \A Q \in SUBSET P : Cardinality(Q) <= Cardinality(P)
  BY <1>2, FS_Subset
<1> QED BY <1>2, <1>3, FS_CardinalityType

(* A window that is not empty has a median, and the filter finds one.      *)
LEMMA MedianExists ==
  ASSUME NEW w \in Seq(Nat), w # <<>>
  PROVE  IsMedian(w, MedianFilteredSalt(w))
<1> DEFINE n == Len(w)
           m == n \div 2
           P == {i \in 1..n : m < Cardinality(SamplesUpTo(w, w[i]))}
<1>1. /\ n \in Nat /\ n >= 1 /\ DOMAIN w = 1..n /\ \A i \in 1..n : w[i] \in Nat
      /\ m \in Nat /\ m < n
  OBVIOUS
<1>2. P \in SUBSET (1..n)
  OBVIOUS
<1>3. P # {}
  <2>1. 1 \in 1..n
    BY <1>1
  <2>2. PICK i \in 1..n : \A j \in 1..n : w[j] <= w[i]
    BY <2>1, GreatestPlace
  <2>3. SamplesUpTo(w, w[i]) = 1..n
    BY <1>1, <2>2 DEF SamplesUpTo
  <2>4. Cardinality(1..n) = n
    <3>1. Cardinality(1..n) = IF 1 > n THEN 0 ELSE n - 1 + 1
      BY <1>1, FS_Interval
    <3> QED BY <1>1, <3>1
  <2> QED BY <1>1, <2>3, <2>4
<1>4. PICK i \in P : \A j \in P : w[i] <= w[j]
  <2> HIDE DEF P
  <2> QED BY <1>2, <1>3, LeastPlace
<1>5. Cardinality(SamplesBelow(w, w[i])) <= m
  <2>1. SamplesBelow(w, w[i]) \in SUBSET (1..n)
    BY <1>1 DEF SamplesBelow
  <2>2. Cardinality(SamplesBelow(w, w[i])) \in Nat
    BY <2>1, CountsOfSamples
  <2> SUFFICES ASSUME Cardinality(SamplesBelow(w, w[i])) > m PROVE FALSE
    BY <1>1, <2>2
  <2>3. SamplesBelow(w, w[i]) # {}
    <3> SUFFICES ASSUME SamplesBelow(w, w[i]) = {} PROVE FALSE
      OBVIOUS
    <3>1. Cardinality(SamplesBelow(w, w[i])) = 0
      BY FS_EmptySet
    <3> QED BY <1>1, <3>1
  <2>4. PICK u \in SamplesBelow(w, w[i]) : \A j \in SamplesBelow(w, w[i]) : w[j] <= w[u]
    BY <2>1, <2>3, GreatestPlace
  <2>5. u \in 1..n /\ w[u] < w[i]
    BY <2>1, <2>4 DEF SamplesBelow
  <2>6. SamplesBelow(w, w[i]) \in SUBSET SamplesUpTo(w, w[u])
    BY <1>1, <2>4 DEF SamplesBelow, SamplesUpTo
  <2>7. SamplesUpTo(w, w[u]) \in SUBSET (1..n)
    BY <1>1 DEF SamplesUpTo
  <2>8. Cardinality(SamplesBelow(w, w[i])) <= Cardinality(SamplesUpTo(w, w[u]))
        /\ Cardinality(SamplesUpTo(w, w[u])) \in Nat
    BY <2>6, <2>7, CountsOfSamples
  <2>9. u \in P
    BY <1>1, <2>2, <2>5, <2>8
  <2>10. w[i] <= w[u] /\ w[i] \in Nat /\ w[u] \in Nat
    BY <1>1, <1>4, <2>5, <2>9
  <2> QED BY <2>5, <2>10
<1>6. IsMedian(w, w[i])
  BY <1>1, <1>4, <1>5 DEF IsMedian, ToSet
<1>7. MedianFilteredSalt(w) = CHOOSE v \in ToSet(w) : /\ Cardinality(SamplesBelow(w, v)) <= Len(w) \div 2
                                                     /\ Len(w) \div 2 < Cardinality(SamplesUpTo(w, v))
  BY Zenon DEF MedianFilteredSalt, SamplesBelow, SamplesUpTo
<1> QED BY <1>6, <1>7, Zenon DEF IsMedian

(* One outlier is never the median of three samples or more.               *)
LEMMA MedianIgnoresOutlier ==
  ASSUME NEW w \in Seq(Nat), Len(w) >= 3, NEW i \in 1..Len(w), NEW a \in Nat,
         \A j \in 1..Len(w) \ {i} : w[j] = a,
         NEW v, IsMedian(w, v)
  PROVE  v = a
<1> DEFINE n == Len(w)
<1>1. n \in Nat /\ DOMAIN w = 1..n /\ \A j \in 1..n : w[j] \in Nat
  OBVIOUS
<1>2. SUFFICES ASSUME v # a PROVE FALSE
  OBVIOUS
<1>3. v = w[i] /\ v \in Nat
  BY <1>1, <1>2 DEF IsMedian, ToSet
<1>4. CASE v < a
  <2>1. SamplesUpTo(w, v) = {i}
    BY <1>1, <1>3, <1>4 DEF SamplesUpTo
  <2>2. Cardinality({i}) = 1
    BY FS_Singleton
  <2>3. n \div 2 < 1
    BY <2>1, <2>2 DEF IsMedian
  <2> QED BY <1>1, <2>3
<1>5. CASE v > a
  <2>1. SamplesBelow(w, v) = (1..n) \ {i}
    BY <1>1, <1>3, <1>5 DEF SamplesBelow
  <2>2. IsFiniteSet(1..n) /\ Cardinality(1..n) = n
    <3>1. IsFiniteSet(1..n) /\ Cardinality(1..n) = IF 1 > n THEN 0 ELSE n - 1 + 1
      BY <1>1, FS_Interval
    <3> QED BY <1>1, <3>1
  <2>3. Cardinality((1..n) \ {i}) = n - 1
    BY <2>2, FS_RemoveElement
  <2>4. n - 1 <= n \div 2
    BY <2>1, <2>3 DEF IsMedian
  <2> QED BY <1>1, <2>4
<1> QED BY <1>1, <1>2, <1>3, <1>4, <1>5

HealthValues == Flags \cup {"Ok"}
Statuses == {"Unknown", "Off", "On"}

CellRecords ==
  /\ cell \in [init : BOOLEAN, shown : HealthValues, candidate : HealthValues, count : 0..ClearFrames,
               window : Seq(Salts), watching : BOOLEAN]
  /\ chlor \in [exists : BOOLEAN, gen : Percents, boost : BOOLEAN, last : Percents \ {0}, pool : Percents,
                spa : Percents, status : Statuses, health : HealthValues, flags : SUBSET HealthValues]
  /\ streak \in [health : HealthValues, n : Nat]
  /\ Len(cell.window) <= SaltWindow
  /\ cellFrames \in 0..MaxCellFrames /\ cellOthers \in 0..MaxCellOthers

(* The level shown is the median of the window, while there is one.        *)
SaltFiltered ==
  /\ salt \in Salts \cup {0}
  /\ cell.window # <<>> => IsMedian(cell.window, salt)

(* The candidate is what the latest decodable frame carried; while it is   *)
(* not yet shown, its count is the length of its run.                      *)
DwellFollows ==
  /\ cell.init => /\ cell.shown = chlor.health
                  /\ cell.candidate = streak.health
                  /\ chlor.exists
  /\ cell.init /\ cell.shown # streak.health => cell.count = streak.n /\ streak.n < ClearFrames
  /\ ~cell.init => streak.n = 0 /\ streak.health = "Unknown"

CellInv == CellRecords /\ SaltFiltered /\ DwellFollows

LEMMA WorstIsOne ==
  ASSUME NEW fs \in SUBSET Flags
  PROVE  WorstOf(fs) \in Flags /\ ConvertToChlorinatorHealthStatus(WorstOf(fs)) \in HealthValues
<1>1. "Unknown" \in Flags
  BY DEF Flags, ToSet, Severity
<1>2. WorstOf(fs) \in Flags
  <2>1. CASE fs = {}
    BY <1>1, <2>1 DEF WorstOf
  <2>2. CASE fs # {}
    <3>1. ASSUME NEW f \in Flags PROVE SeverityRank(f) \in Nat
      <4>1. CASE f = "Off"
        BY <4>1 DEF SeverityRank
      <4>2. CASE f # "Off"
        <5>1. Len(Severity) = 12 /\ DOMAIN Severity = 1..12
          BY DEF Severity
        <5>2. \E i \in 1..Len(Severity) : Severity[i] = f
          BY <4>2, <5>1 DEF Flags, ToSet
        <5>3. SeverityRank(f) \in 1..Len(Severity)
          BY <4>2, <5>2 DEF SeverityRank
        <5> QED BY <5>1, <5>3
      <4> QED BY <4>1, <4>2
    <3>2. {SeverityRank(f) : f \in fs} \in SUBSET Nat /\ {SeverityRank(f) : f \in fs} # {}
      BY <2>2, <3>1
    <3>3. PICK x \in {SeverityRank(f) : f \in fs} : \A y \in {SeverityRank(f) : f \in fs} : x <= y
      BY <3>2, LeastNumber
    <3>4. \E f \in fs : \A g \in fs : SeverityRank(f) <= SeverityRank(g)
      BY <3>3
    <3>5. WorstOf(fs) \in fs
      BY <2>2, <3>4 DEF WorstOf
    <3> QED BY <3>5
  <2> QED BY <2>1, <2>2
<1> QED BY <1>2 DEF ConvertToChlorinatorHealthStatus, HealthValues

LEMMA DwellThresholdBounded ==
  ASSUME CellConstants, NEW h, NEW raw
  PROVE  DwellThreshold(h, raw) \in Nat /\ DwellThreshold(h, raw) <= ClearFrames
BY DEF CellConstants, DwellThreshold

(* What a step may do to the health displayed.                             *)
ShownAfterRun ==
  cell.init /\ cell'.init /\ chlor'.health # chlor.health =>
     /\ streak'.health = chlor'.health
     /\ streak'.n >= DwellThreshold(chlor.health, chlor'.health)

LEMMA FrameKept ==
  ASSUME CellConstants, CellInv, Slot_Aquarite_PPM
  PROVE  CellInv' /\ ShownAfterRun
<1>1. PICK m \in PPMFrames :
        \E raw \in {ConvertToChlorinatorHealthStatus(WorstOf(m.flags))} :
        \E dwell \in {DwellChlorinatorHealth(cell, raw)}, w \in {Windowed(cell.window, m.salt)} :
          /\ cell' = [dwell.cell EXCEPT !.window = w, !.watching = TRUE]
          /\ salt' = MedianFilteredSalt(w)
          /\ streak' = Counted(raw)
          /\ LET d == EnsureChlorinatorDeviceExists(chlor)
                 shown == IF dwell.changed
                          THEN [d EXCEPT !.health = raw,
                                         !.flags = {ConvertToChlorinatorHealthStatus(f) : f \in m.flags}]
                          ELSE d
             IN  chlor' = [shown EXCEPT !.status =
                              IF WorstOf(m.flags) \in {"Off", "TurningOff"} THEN "Off" ELSE "On"]
  BY DEF Slot_Aquarite_PPM
<1> DEFINE raw == ConvertToChlorinatorHealthStatus(WorstOf(m.flags))
           dwell == DwellChlorinatorHealth(cell, raw)
           w == Windowed(cell.window, m.salt)
           d == EnsureChlorinatorDeviceExists(chlor)
           flags == {ConvertToChlorinatorHealthStatus(f) : f \in m.flags}
           status == IF WorstOf(m.flags) \in {"Off", "TurningOff"} THEN "Off" ELSE "On"
<1>2. /\ cell' = [dwell.cell EXCEPT !.window = w, !.watching = TRUE]
      /\ salt' = MedianFilteredSalt(w)
      /\ streak' = Counted(raw)
      /\ chlor' = [(IF dwell.changed THEN [d EXCEPT !.health = raw, !.flags = flags] ELSE d) EXCEPT !.status = status]
      /\ cellFrames' \in 0..MaxCellFrames /\ cellOthers' = cellOthers
  <2>1. MaxCellFrames \in Nat /\ cellFrames \in 0..MaxCellFrames
    BY DEF CellInv, CellRecords, CellConstants
  <2>2. cellFrames > 0 /\ cellFrames' = cellFrames - 1 /\ cellOthers' = cellOthers
    BY DEF Slot_Aquarite_PPM
  <2>3. cellFrames' \in 0..MaxCellFrames
    BY <2>1, <2>2
  <2>4. /\ cell' = [dwell.cell EXCEPT !.window = w, !.watching = TRUE]
        /\ salt' = MedianFilteredSalt(w)
        /\ streak' = Counted(raw)
        /\ chlor' = [(IF dwell.changed THEN [d EXCEPT !.health = raw, !.flags = flags] ELSE d) EXCEPT !.status = status]
    <3>1. cell' = [dwell.cell EXCEPT !.window = w, !.watching = TRUE]
      BY <1>1
    <3>2. salt' = MedianFilteredSalt(w)
      BY <1>1
    <3>3. streak' = Counted(raw)
      BY <1>1
    <3>4. chlor' = [(IF dwell.changed THEN [d EXCEPT !.health = raw, !.flags = flags] ELSE d) EXCEPT !.status = status]
      BY <1>1, ZenonT(60)
    <3> QED BY <3>1, <3>2, <3>3, <3>4
  <2> QED BY <2>2, <2>3, <2>4
<1>3. m.flags \in SUBSET Flags /\ m.salt \in Salts /\ Salts \in SUBSET Nat
  BY DEF CellConstants, Salts
<1>4. raw \in HealthValues /\ flags \in SUBSET HealthValues /\ status \in Statuses
  <2>1. raw \in HealthValues
    BY <1>3, WorstIsOne
  <2>2. flags \in SUBSET HealthValues
    BY <1>3 DEF ConvertToChlorinatorHealthStatus, HealthValues
  <2>3. status \in Statuses
    BY DEF Statuses
  <2> HIDE DEF raw, flags, status
  <2> QED BY <2>1, <2>2, <2>3
<1>5. w \in Seq(Salts) /\ w \in Seq(Nat) /\ w # <<>> /\ Len(w) <= SaltWindow
  <2> DEFINE v == Append(cell.window, m.salt)
  <2>1. cell.window \in Seq(Salts) /\ Len(cell.window) \in Nat /\ Len(cell.window) <= SaltWindow
    BY DEF CellInv, CellRecords
  <2>2. v \in Seq(Salts) /\ Len(v) = Len(cell.window) + 1 /\ v # <<>>
    BY <1>3, <2>1
  <2>3. SaltWindow \in Nat /\ SaltWindow >= 1
    BY DEF CellConstants
  <2>4. CASE Len(v) > SaltWindow
    <3>1. Tail(v) \in Seq(Salts) /\ Len(Tail(v)) = Len(v) - 1
      BY <2>2
    <3>2. Tail(v) # <<>>
      BY <2>1, <2>2, <2>3, <2>4, <3>1
    <3>3. w = Tail(v)
      BY <2>4 DEF Windowed
    <3> HIDE DEF w
    <3>4. w \in Seq(Salts) /\ w # <<>> /\ Len(w) <= SaltWindow
      BY <2>1, <2>2, <2>3, <3>1, <3>2, <3>3
    <3> QED BY <1>3, <3>4, SeqMonotonic
  <2>5. CASE ~(Len(v) > SaltWindow)
    <3>1. w = v
      BY <2>5 DEF Windowed
    <3> HIDE DEF w
    <3>2. w \in Seq(Salts) /\ w # <<>> /\ Len(w) <= SaltWindow
      BY <2>1, <2>2, <2>3, <2>5, <3>1
    <3> QED BY <1>3, <3>2, SeqMonotonic
  <2> QED BY <2>4, <2>5
<1>6. /\ d \in [exists : BOOLEAN, gen : Percents, boost : BOOLEAN, last : Percents \ {0}, pool : Percents,
                spa : Percents, status : Statuses, health : HealthValues, flags : SUBSET HealthValues]
      /\ d.health = chlor.health /\ d.exists = TRUE
  BY DEF CellInv, CellRecords, EnsureChlorinatorDeviceExists, Statuses
<1>7. /\ chlor'.exists = TRUE /\ chlor'.health = (IF dwell.changed THEN raw ELSE chlor.health)
      /\ chlor' \in [exists : BOOLEAN, gen : Percents, boost : BOOLEAN, last : Percents \ {0}, pool : Percents,
                     spa : Percents, status : Statuses, health : HealthValues, flags : SUBSET HealthValues]
  <2> HIDE DEF d, dwell, raw, flags, status
  <2>1. CASE dwell.changed
    <3>1. chlor' = [[d EXCEPT !.health = raw, !.flags = flags] EXCEPT !.status = status]
      BY <1>2, <2>1
    <3>2. chlor' = [d EXCEPT !.health = raw, !.flags = flags, !.status = status]
      BY <1>6, <3>1
    <3>3. chlor'.exists = TRUE /\ chlor'.health = raw
      BY <1>6, <3>2
    <3>4. chlor' \in [exists : BOOLEAN, gen : Percents, boost : BOOLEAN, last : Percents \ {0}, pool : Percents,
                      spa : Percents, status : Statuses, health : HealthValues, flags : SUBSET HealthValues]
      BY <1>4, <1>6, <3>2
    <3> QED BY <2>1, <3>3, <3>4
  <2>2. CASE ~dwell.changed
    <3>1. chlor' = [d EXCEPT !.status = status]
      BY <1>2, <2>2
    <3>2. chlor'.exists = TRUE /\ chlor'.health = chlor.health
      BY <1>6, <3>1
    <3>3. chlor' \in [exists : BOOLEAN, gen : Percents, boost : BOOLEAN, last : Percents \ {0}, pool : Percents,
                      spa : Percents, status : Statuses, health : HealthValues, flags : SUBSET HealthValues]
      BY <1>4, <1>6, <3>1
    <3> QED BY <2>2, <3>2, <3>3
  <2> QED BY <2>1, <2>2
<1>8. cell \in [init : BOOLEAN, shown : HealthValues, candidate : HealthValues, count : 0..ClearFrames,
                window : Seq(Salts), watching : BOOLEAN]
      /\ streak \in [health : HealthValues, n : Nat] /\ ClearFrames \in Nat /\ ClearFrames >= 1
      /\ 0 \in 0..ClearFrames
  BY DEF CellInv, CellRecords, CellConstants
<1>9. /\ dwell.cell \in [init : BOOLEAN, shown : HealthValues, candidate : HealthValues, count : 0..ClearFrames,
                         window : Seq(Salts), watching : BOOLEAN]
      /\ streak' \in [health : HealthValues, n : Nat]
      /\ dwell.cell.init => /\ dwell.cell.shown = IF dwell.changed THEN raw ELSE chlor.health
                            /\ dwell.cell.candidate = streak'.health
      /\ dwell.cell.init /\ dwell.cell.shown # streak'.health =>
            dwell.cell.count = streak'.n /\ streak'.n < ClearFrames
      /\ ~dwell.cell.init => streak'.n = 0 /\ streak'.health = "Unknown"
      /\ cell.init /\ dwell.changed =>
            streak'.health = raw /\ streak'.n >= DwellThreshold(cell.shown, raw)
  <2> HIDE DEF raw, w, d, flags, status
  <2>0. DwellFollows
    BY DEF CellInv
  <2>1. CASE raw = "Unknown"
    <3>1. dwell = [cell |-> cell, changed |-> FALSE]
      BY <2>1 DEF DwellChlorinatorHealth, HoldShown
    <3>2. streak' = streak
      BY <1>2, <2>1 DEF Counted
    <3> HIDE DEF dwell
    <3> QED BY <1>8, <2>0, <3>1, <3>2 DEF DwellFollows
  <2>2. CASE raw # "Unknown" /\ ~cell.init
    <3>1. dwell = [cell |-> [cell EXCEPT !.init = TRUE, !.shown = raw, !.candidate = raw, !.count = 0], changed |-> TRUE]
      BY <2>2 DEF DwellChlorinatorHealth, Show
    <3>2. streak' = [health |-> raw, n |-> 1]
      BY <1>2, <2>0, <2>2 DEF Counted, DwellFollows
    <3> DEFINE c == dwell.cell
    <3>3. c = [cell EXCEPT !.init = TRUE, !.shown = raw, !.candidate = raw, !.count = 0] /\ dwell.changed = TRUE
      BY <3>1
    <3> HIDE DEF dwell, c
    <3>4. /\ c \in [init : BOOLEAN, shown : HealthValues, candidate : HealthValues, count : 0..ClearFrames,
                    window : Seq(Salts), watching : BOOLEAN]
          /\ c.init = TRUE /\ c.shown = raw /\ c.candidate = raw
      BY <1>4, <1>8, <3>3
    <3>5. streak' \in [health : HealthValues, n : Nat] /\ streak'.health = raw
      BY <1>4, <3>2
    <3> QED BY <2>2, <3>3, <3>4, <3>5 DEF c
  <2>3. CASE raw # "Unknown" /\ cell.init /\ raw = cell.shown
    <3>1. dwell = [cell |-> [cell EXCEPT !.candidate = raw, !.count = 0], changed |-> FALSE]
      BY <2>3 DEF DwellChlorinatorHealth, HoldShown
    <3>2. streak' \in [health : {raw}, n : Nat]
      BY <1>2, <1>4, <1>8, <2>3 DEF Counted
    <3> DEFINE c == dwell.cell
    <3>3. c = [cell EXCEPT !.candidate = raw, !.count = 0] /\ dwell.changed = FALSE
      BY <3>1
    <3> HIDE DEF dwell, c
    <3>4. /\ c \in [init : BOOLEAN, shown : HealthValues, candidate : HealthValues, count : 0..ClearFrames,
                    window : Seq(Salts), watching : BOOLEAN]
          /\ c.init = TRUE /\ c.shown = cell.shown /\ c.candidate = raw
      BY <1>4, <1>8, <2>3, <3>3
    <3>5. streak' \in [health : HealthValues, n : Nat] /\ streak'.health = raw
      BY <1>4, <3>2
    <3>6. cell.shown = chlor.health
      BY <2>0, <2>3 DEF DwellFollows
    <3> QED BY <2>3, <3>3, <3>4, <3>5, <3>6 DEF c
  <2>4. CASE raw # "Unknown" /\ cell.init /\ raw # cell.shown
    <3> DEFINE n == IF raw = cell.candidate THEN cell.count + 1 ELSE 1
               t == DwellThreshold(cell.shown, raw)
    <3>1. n \in Nat /\ t \in Nat /\ t <= ClearFrames
      BY <1>8, DwellThresholdBounded
    <3>2. streak' = [health |-> raw, n |-> n]
      <4>1. CASE raw = streak.health
        <5>1. raw = cell.candidate /\ cell.count = streak.n /\ streak.n < ClearFrames
          BY <2>0, <2>4, <4>1 DEF DwellFollows
        <5>2. ~(streak.n > ClearFrames)
          BY <1>8, <5>1
        <5>3. streak' = [streak EXCEPT !.n = streak.n + 1]
          BY <1>2, <2>4, <4>1, <5>2 DEF Counted
        <5> QED BY <1>8, <4>1, <5>1, <5>3
      <4>2. CASE raw # streak.health
        <5>1. raw # cell.candidate
          BY <2>0, <2>4, <4>2 DEF DwellFollows
        <5> QED BY <1>2, <2>4, <4>2, <5>1 DEF Counted
      <4> QED BY <4>1, <4>2
    <3>3. CASE n >= t
      <4>1. dwell = [cell |-> [cell EXCEPT !.init = TRUE, !.shown = raw, !.candidate = raw, !.count = 0], changed |-> TRUE]
        BY <2>4, <3>3 DEF DwellChlorinatorHealth, Show
      <4> DEFINE c == dwell.cell
      <4>2. c = [cell EXCEPT !.init = TRUE, !.shown = raw, !.candidate = raw, !.count = 0] /\ dwell.changed = TRUE
        BY <4>1
      <4> HIDE DEF dwell, n, t, c
      <4>3. /\ c \in [init : BOOLEAN, shown : HealthValues, candidate : HealthValues, count : 0..ClearFrames,
                      window : Seq(Salts), watching : BOOLEAN]
            /\ c.init = TRUE /\ c.shown = raw /\ c.candidate = raw
        BY <1>4, <1>8, <4>2
      <4>4. streak' \in [health : HealthValues, n : Nat] /\ streak'.health = raw /\ streak'.n >= t
        BY <1>4, <3>1, <3>2, <3>3
      <4> QED BY <4>2, <4>3, <4>4 DEF c, t
    <3>4. CASE ~(n >= t)
      <4>1. dwell = [cell |-> [cell EXCEPT !.candidate = raw, !.count = n], changed |-> FALSE]
        BY <2>4, <3>4 DEF DwellChlorinatorHealth, HoldShown
      <4> DEFINE c == dwell.cell
      <4>2. c = [cell EXCEPT !.candidate = raw, !.count = n] /\ dwell.changed = FALSE
        BY <4>1
      <4> HIDE DEF dwell, n, t, c
      <4>3. n \in 0..ClearFrames /\ n < ClearFrames
        BY <1>8, <3>1, <3>4
      <4>4. /\ c \in [init : BOOLEAN, shown : HealthValues, candidate : HealthValues, count : 0..ClearFrames,
                      window : Seq(Salts), watching : BOOLEAN]
            /\ c.init = TRUE /\ c.shown = cell.shown /\ c.candidate = raw /\ c.count = n
        BY <1>4, <1>8, <2>4, <4>2, <4>3
      <4>5. streak' \in [health : HealthValues, n : Nat] /\ streak'.health = raw /\ streak'.n = n
        BY <1>4, <3>1, <3>2
      <4>6. cell.shown = chlor.health
        BY <2>0, <2>4 DEF DwellFollows
      <4> QED BY <4>2, <4>3, <4>4, <4>5, <4>6 DEF c
    <3> QED BY <3>3, <3>4
  <2> QED BY <2>1, <2>2, <2>3, <2>4
<1>10. /\ cell'.init = dwell.cell.init /\ cell'.shown = dwell.cell.shown
       /\ cell'.candidate = dwell.cell.candidate /\ cell'.count = dwell.cell.count
       /\ cell'.window = w
       /\ cell' \in [init : BOOLEAN, shown : HealthValues, candidate : HealthValues, count : 0..ClearFrames,
                     window : Seq(Salts), watching : BOOLEAN]
  <2> HIDE DEF dwell, w
  <2> QED BY <1>2, <1>5, <1>9
<1>11. DwellFollows'
  <2> HIDE DEF dwell, raw
  <2> QED BY <1>7, <1>9, <1>10 DEF DwellFollows
<1>12. SaltFiltered'
  <2>1. IsMedian(w, MedianFilteredSalt(w))
    BY <1>5, MedianExists
  <2>2. ToSet(w) \in SUBSET Salts
    BY <1>5 DEF ToSet
  <2> HIDE DEF w
  <2> QED BY <1>2, <1>10, <2>1, <2>2 DEF SaltFiltered, IsMedian
<1>13. CellRecords'
  <2> HIDE DEF w, dwell
  <2>1. Len(cell'.window) <= SaltWindow /\ cellOthers' \in 0..MaxCellOthers
    BY <1>2, <1>5, <1>10 DEF CellInv, CellRecords
  <2>2. streak' \in [health : HealthValues, n : Nat]
    BY <1>9
  <2> QED BY <1>2, <1>7, <1>10, <2>1, <2>2 DEF CellRecords
<1>14. ShownAfterRun
  <2> HIDE DEF raw, dwell
  <2>1. cell.init => cell.shown = chlor.health
    BY DEF CellInv, DwellFollows
  <2> QED BY <1>7, <1>9, <2>1 DEF ShownAfterRun
<1> QED BY <1>11, <1>12, <1>13, <1>14 DEF CellInv

LEMMA CellDeviceKept ==
  ASSUME CellInv, DwellFollows => DwellFollows',
         UNCHANGED <<salt, streak>>, cell'.window = cell.window,
         cell' \in [init : BOOLEAN, shown : HealthValues, candidate : HealthValues, count : 0..ClearFrames,
                    window : Seq(Salts), watching : BOOLEAN],
         chlor' \in [exists : BOOLEAN, gen : Percents, boost : BOOLEAN, last : Percents \ {0}, pool : Percents,
                     spa : Percents, status : Statuses, health : HealthValues, flags : SUBSET HealthValues],
         cellFrames' = cellFrames, cellOthers' \in 0..MaxCellOthers
  PROVE  CellInv'
BY DEF CellInv, CellRecords, SaltFiltered

LEMMA SilenceKept ==
  ASSUME CellInv, CellTimedOut, CellConstants
  PROVE  CellInv'
<1>1. /\ cell' = [cell EXCEPT !.watching = FALSE, !.init = FALSE, !.count = 0, !.window = <<>>]
      /\ chlor' = IF chlor.exists
                  THEN [chlor EXCEPT !.status = "Off", !.health = "Unknown", !.flags = {"Unknown"}]
                  ELSE chlor
      /\ streak' = [health |-> "Unknown", n |-> 0]
      /\ UNCHANGED <<salt, cellFrames, cellOthers>>
  BY DEF CellTimedOut
<1>2. "Unknown" \in HealthValues /\ {"Unknown"} \in SUBSET HealthValues /\ "Off" \in Statuses
  BY DEF HealthValues, Flags, ToSet, Severity, Statuses
<1>3. 0 \in 0..ClearFrames /\ SaltWindow \in Nat /\ 0 \in Nat
  BY DEF CellConstants
<1>4. <<>> \in Seq(Salts) /\ Len(<<>>) = 0
  OBVIOUS
<1>5. /\ cell' \in [init : BOOLEAN, shown : HealthValues, candidate : HealthValues, count : 0..ClearFrames,
                    window : Seq(Salts), watching : BOOLEAN]
      /\ cell'.init = FALSE /\ cell'.window = <<>>
  BY <1>1, <1>3, <1>4 DEF CellInv, CellRecords
<1>6. chlor' \in [exists : BOOLEAN, gen : Percents, boost : BOOLEAN, last : Percents \ {0}, pool : Percents,
                  spa : Percents, status : Statuses, health : HealthValues, flags : SUBSET HealthValues]
  BY <1>1, <1>2 DEF CellInv, CellRecords
<1>7. streak' \in [health : HealthValues, n : Nat] /\ streak'.n = 0 /\ streak'.health = "Unknown"
  BY <1>1, <1>2, <1>3
<1> QED BY <1>1, <1>3, <1>4, <1>5, <1>6, <1>7 DEF CellInv, CellRecords, SaltFiltered, DwellFollows

LEMMA OtherInputKept ==
  ASSUME CellInv, Slot_Aquarite_Percent \/ PageProcessor_SetAquaPure \/ DispatchPercentage \/ Elsewhere, CellConstants
  PROVE  CellInv' /\ chlor'.health = chlor.health
<1>1. cellOthers' \in 0..MaxCellOthers /\ cellFrames' = cellFrames /\ UNCHANGED <<salt, streak>>
  <2>1. MaxCellOthers \in Nat /\ cellOthers \in 0..MaxCellOthers
    BY DEF CellInv, CellRecords, CellConstants
  <2>2. cellOthers > 0 /\ cellOthers' = cellOthers - 1 /\ cellFrames' = cellFrames /\ UNCHANGED <<salt, streak>>
    BY DEF Slot_Aquarite_Percent, PageProcessor_SetAquaPure, DispatchPercentage, Elsewhere
  <2> QED BY <2>1, <2>2
<1> DEFINE Kept == /\ chlor' \in [exists : BOOLEAN, gen : Percents, boost : BOOLEAN, last : Percents \ {0},
                                  pool : Percents, spa : Percents, status : Statuses, health : HealthValues,
                                  flags : SUBSET HealthValues]
                   /\ chlor'.health = chlor.health /\ (chlor.exists => chlor'.exists)
<1>2. chlor \in [exists : BOOLEAN, gen : Percents, boost : BOOLEAN, last : Percents \ {0}, pool : Percents,
                 spa : Percents, status : Statuses, health : HealthValues, flags : SUBSET HealthValues]
      /\ cell \in [init : BOOLEAN, shown : HealthValues, candidate : HealthValues, count : 0..ClearFrames,
                   window : Seq(Salts), watching : BOOLEAN]
  BY DEF CellInv, CellRecords
<1> DEFINE d == EnsureChlorinatorDeviceExists(chlor)
<1>3. /\ d \in [exists : BOOLEAN, gen : Percents, boost : BOOLEAN, last : Percents \ {0}, pool : Percents,
                spa : Percents, status : Statuses, health : HealthValues, flags : SUBSET HealthValues]
      /\ d.health = chlor.health /\ d.exists = TRUE
  BY <1>2 DEF EnsureChlorinatorDeviceExists, Statuses
<1> HIDE DEF d
<1>4. CASE Slot_Aquarite_Percent
  <2>1. PICK p \in {0, 1, 101}, boost, service \in BOOLEAN : chlor' = SetGenerating(d, p, boost, service)
    BY <1>4 DEF Slot_Aquarite_Percent, d
  <2> DEFINE clamped == IF service THEN 0 ELSE IF p > 100 THEN 100 ELSE p
             last == IF ~boost /\ ~service /\ clamped >= 1 THEN clamped ELSE d.last
  <2>2. clamped \in Percents /\ last \in Percents \ {0}
    BY <1>3 DEF Percents
  <2>3. chlor' = [d EXCEPT !.gen = clamped, !.boost = boost, !.last = last]
    BY <1>3, <2>1 DEF SetGenerating
  <2> HIDE DEF clamped, last
  <2>4. Kept
    BY <1>3, <2>2, <2>3
  <2>5. cell' = [cell EXCEPT !.watching = TRUE]
    BY <1>4 DEF Slot_Aquarite_Percent
  <2>6. /\ cell'.window = cell.window /\ cell'.init = cell.init /\ cell'.shown = cell.shown
        /\ cell'.candidate = cell.candidate /\ cell'.count = cell.count
        /\ cell' \in [init : BOOLEAN, shown : HealthValues, candidate : HealthValues, count : 0..ClearFrames,
                      window : Seq(Salts), watching : BOOLEAN]
    BY <1>2, <2>5
  <2>7. DwellFollows => DwellFollows'
    BY <1>1, <1>2, <2>4, <2>6 DEF DwellFollows
  <2> QED BY <1>1, <2>4, <2>6, <2>7, CellDeviceKept
<1>5. CASE PageProcessor_SetAquaPure \/ DispatchPercentage \/ Elsewhere
  <2>1. cell' = cell
    BY <1>5 DEF PageProcessor_SetAquaPure, DispatchPercentage, Elsewhere
  <2>2. ASSUME PageProcessor_SetAquaPure PROVE Kept
    <3>1. PICK p, q \in {0, 1, NoPercent} :
             chlor' = [d EXCEPT !.pool = IF p = NoPercent THEN @ ELSE p, !.spa = IF q = NoPercent THEN @ ELSE q]
      BY <2>2 DEF PageProcessor_SetAquaPure, d
    <3>2. p \in Percents /\ q \in Percents
      BY DEF Percents
    <3>3. chlor' \in [exists : BOOLEAN, gen : Percents, boost : BOOLEAN, last : Percents \ {0}, pool : Percents,
                      spa : Percents, status : Statuses, health : HealthValues, flags : SUBSET HealthValues]
      BY <1>3, <3>1, <3>2
    <3>4. chlor'.health = chlor.health /\ chlor'.exists = TRUE
      BY <1>3, <3>1
    <3> QED BY <3>3, <3>4
  <2>3. ASSUME DispatchPercentage PROVE Kept
    <3>1. PICK p \in {0, 1}, body \in {"pool", "spa"} : chlor' = WriteThrough(p, body)
      BY <2>3 DEF DispatchPercentage
    <3>2. p \in Percents
      BY DEF Percents
    <3>3. \/ chlor' = chlor \/ chlor' = [chlor EXCEPT !.spa = p] \/ chlor' = [chlor EXCEPT !.pool = p]
      BY <3>1 DEF WriteThrough
    <3>4. chlor' \in [exists : BOOLEAN, gen : Percents, boost : BOOLEAN, last : Percents \ {0}, pool : Percents,
                      spa : Percents, status : Statuses, health : HealthValues, flags : SUBSET HealthValues]
      BY <1>2, <3>2, <3>3
    <3>5. chlor'.health = chlor.health /\ chlor'.exists = chlor.exists
      BY <1>2, <3>3
    <3> QED BY <3>4, <3>5
  <2>4. ASSUME Elsewhere PROVE Kept
    <3>1. chlor' = chlor
      BY <2>4 DEF Elsewhere
    <3> QED BY <1>2, <3>1
  <2>5. Kept
    BY <1>5, <2>2, <2>3, <2>4
  <2>6. DwellFollows => DwellFollows'
    BY <1>1, <1>2, <2>1, <2>5 DEF DwellFollows
  <2> QED BY <1>1, <1>2, <2>1, <2>5, <2>6, CellDeviceKept
<1> QED BY <1>4, <1>5

LEMMA CellStarts == ASSUME CellConstants, CellInit PROVE CellInv
<1>1. "Ok" \in HealthValues /\ "Unknown" \in HealthValues /\ {"Unknown"} \in SUBSET HealthValues
      /\ "Unknown" \in Statuses /\ NoPercent \in Percents \ {0}
  BY DEF HealthValues, Flags, ToSet, Severity, Statuses, NoPercent, Percents
<1>2. 0 \in 0..ClearFrames /\ 0 \in Nat /\ SaltWindow \in Nat /\ MaxCellFrames \in 0..MaxCellFrames
      /\ MaxCellOthers \in 0..MaxCellOthers
  BY DEF CellConstants
<1>3. <<>> \in Seq(Salts) /\ Len(<<>>) = 0
  OBVIOUS
<1>4. cell = [init |-> FALSE, shown |-> "Ok", candidate |-> "Ok", count |-> 0, window |-> <<>>, watching |-> FALSE]
      /\ streak = [health |-> "Unknown", n |-> 0] /\ salt = 0 /\ chlor = NoDevice
      /\ cellFrames = MaxCellFrames /\ cellOthers = MaxCellOthers
  BY DEF CellInit
<1>5. cell \in [init : BOOLEAN, shown : HealthValues, candidate : HealthValues, count : 0..ClearFrames,
                window : Seq(Salts), watching : BOOLEAN]
  BY <1>1, <1>2, <1>3, <1>4
<1>6. chlor \in [exists : BOOLEAN, gen : Percents, boost : BOOLEAN, last : Percents \ {0}, pool : Percents,
                 spa : Percents, status : Statuses, health : HealthValues, flags : SUBSET HealthValues]
  BY <1>1, <1>4 DEF NoDevice
<1> QED BY <1>1, <1>2, <1>3, <1>4, <1>5, <1>6 DEF CellInv, CellRecords, SaltFiltered, DwellFollows

LEMMA CellKept ==
  ASSUME CellConstants, CellInv, [CellNext]_chlorVars
  PROVE  CellInv' /\ ShownAfterRun
<1>1. CASE Slot_Aquarite_PPM
  BY <1>1, FrameKept
<1>2. CASE CellTimedOut
  <2>1. ~cell'.init
    BY <1>2 DEF CellTimedOut, CellInv, CellRecords
  <2> QED BY <1>2, <2>1, SilenceKept DEF ShownAfterRun
<1>3. CASE Slot_Aquarite_Percent \/ PageProcessor_SetAquaPure \/ DispatchPercentage \/ Elsewhere
  BY <1>3, OtherInputKept DEF ShownAfterRun
<1>4. CASE ChlorinatorPush \/ UNCHANGED chlorVars
  BY <1>4 DEF ChlorinatorPush, chlorVars, CellInv, CellRecords, SaltFiltered, DwellFollows, ShownAfterRun
<1> QED BY <1>1, <1>2, <1>3, <1>4 DEF CellNext

LEMMA CellInvIsSafe == ASSUME CellConstants, CellInv PROVE CellSafe
<1>1. CellTypeOK
  <2>1. ToSet(cell.window) \subseteq Salts
    BY DEF CellInv, CellRecords, ToSet
  <2>2. chlor.last # 0 /\ {chlor.gen, chlor.last, chlor.pool, chlor.spa} \subseteq Percents
    BY DEF CellInv, CellRecords
  <2> QED BY <2>1, <2>2 DEF CellInv, CellRecords, SaltFiltered, CellTypeOK, HealthValues
<1>2. PersistentHealthShown
  <2> SUFFICES ASSUME streak.n >= ClearFrames PROVE chlor.health = streak.health
    BY DEF PersistentHealthShown
  <2>1. ClearFrames \in Nat /\ ClearFrames >= 1 /\ streak.n \in Nat
    BY DEF CellConstants, CellInv, CellRecords
  <2>2. cell.init \in BOOLEAN
    BY DEF CellInv, CellRecords
  <2> QED BY <2>1, <2>2 DEF CellInv, DwellFollows
<1>3. OutlierIgnored
  <2> DEFINE w == cell.window
  <2> SUFFICES ASSUME Len(w) = SaltWindow, SaltWindow >= 3, NEW i \in 1..SaltWindow,
                      \A j, k \in 1..SaltWindow \ {i} : w[j] = w[k]
               PROVE  salt = w[IF i = 1 THEN 2 ELSE 1]
    BY DEF OutlierIgnored
  <2> DEFINE o == IF i = 1 THEN 2 ELSE 1
  <2>1. w \in Seq(Nat)
    <3>1. w \in Seq(Salts) /\ Salts \subseteq Nat
      BY DEF CellInv, CellRecords, CellConstants, Salts
    <3> QED BY <3>1, SeqMonotonic
  <2>2. o \in 1..Len(w) \ {i} /\ i \in 1..Len(w) /\ w # <<>>
    BY <2>1
  <2>3. IsMedian(w, salt)
    BY <2>2 DEF CellInv, SaltFiltered
  <2>4. w[o] \in Nat /\ \A j \in 1..Len(w) \ {i} : w[j] = w[o]
    BY <2>1, <2>2
  <2> HIDE DEF w, o
  <2>5. salt = w[o]
    BY <2>1, <2>2, <2>3, <2>4, MedianIgnoresOutlier
  <2> QED BY <2>5 DEF o, w
<1> QED BY <1>1, <1>2, <1>3 DEF CellSafe

(* For any window and any dwell: the salt level is a median of the window, *)
(* which one outlier among equal samples never moves, and a condition that *)
(* lasts is shown.                                                         *)
THEOREM CellIsSteady == CellSpec => []CellSafe
BY CellConstants, CellStarts, CellKept, CellInvIsSafe, PTL DEF CellSpec

(* A displayed health changes only after enough equal frames in a row,     *)
(* counted from the frames and not from the filter's own counter.          *)
THEOREM HealthIsSteady == CellSpec => HealthSteady
<1>1. CellInv /\ [CellNext]_chlorVars => [cell.init /\ cell'.init /\ chlor'.health # chlor.health =>
         /\ streak'.health = chlor'.health
         /\ streak'.n >= DwellThreshold(chlor.health, chlor'.health)]_chlorVars
  BY CellConstants, CellKept DEF ShownAfterRun
<1> QED BY <1>1, CellConstants, CellStarts, CellKept, PTL DEF CellSpec, HealthSteady

(***************************************************************************)
(* The start-up.                                                           *)
(***************************************************************************)
Known == UNION {Addresses(InstanceAddresses[c]) : c \in DOMAIN InstanceAddresses}
ControllerKinds == {"IAQ", "OneTouch", "PDA"}

LEMMA AddressClasses ==
  /\ Addresses(InstanceAddresses["IAQ"]) = {48, 49, 50, 51}
  /\ Addresses(InstanceAddresses["OneTouch"]) = {64, 65, 66, 67}
  /\ Addresses(InstanceAddresses["PDA"]) = {96, 97, 98, 99}
  /\ Addresses(InstanceAddresses["SerialAdapter"]) = {72, 73}
  /\ DOMAIN InstanceAddresses = {"IAQ", "OneTouch", "PDA", "SerialAdapter"}
  /\ Addresses(Preferred["IAQ"]) = {48, 49, 50, 51}
  /\ Addresses(Preferred["OneTouch"]) = {64, 65, 66}
  /\ Addresses(Preferred["PDA"]) = {96, 97, 98, 99}
  /\ \A c \in DOMAIN InstanceAddresses : InstanceAddresses[c] \in Seq(Nat) /\ Preferred[c] \in Seq(Nat)
  /\ Preferred["SerialAdapter"][1] = 72
<1>1. Preferred["SerialAdapter"][1] = 72
  BY DEF Preferred
<1>2. /\ InstanceAddresses["IAQ"] = <<48, 49, 50, 51>> /\ InstanceAddresses["OneTouch"] = <<64, 65, 66, 67>>
      /\ InstanceAddresses["PDA"] = <<96, 97, 98, 99>> /\ InstanceAddresses["SerialAdapter"] = <<72, 73>>
      /\ DOMAIN InstanceAddresses = {"IAQ", "OneTouch", "PDA", "SerialAdapter"}
  BY DEF InstanceAddresses
<1>3. /\ Preferred["IAQ"] = <<51, 50, 49, 48>> /\ Preferred["OneTouch"] = <<65, 64, 66>>
      /\ Preferred["PDA"] = <<96, 97, 98, 99>> /\ Preferred["SerialAdapter"] = <<72, 73>>
  BY DEF Preferred
<1>4. /\ Addresses(<<48, 49, 50, 51>>) = {48, 49, 50, 51} /\ Addresses(<<64, 65, 66, 67>>) = {64, 65, 66, 67}
      /\ Addresses(<<96, 97, 98, 99>>) = {96, 97, 98, 99} /\ Addresses(<<72, 73>>) = {72, 73}
  BY DEF Addresses
<1>5. Addresses(<<51, 50, 49, 48>>) = {48, 49, 50, 51} /\ Addresses(<<65, 64, 66>>) = {64, 65, 66}
  BY DEF Addresses
<1>6. \A c \in DOMAIN InstanceAddresses : InstanceAddresses[c] \in Seq(Nat) /\ Preferred[c] \in Seq(Nat)
  <2>1. /\ <<48, 49, 50, 51>> \in Seq(Nat) /\ <<64, 65, 66, 67>> \in Seq(Nat) /\ <<96, 97, 98, 99>> \in Seq(Nat)
        /\ <<72, 73>> \in Seq(Nat) /\ <<51, 50, 49, 48>> \in Seq(Nat) /\ <<65, 64, 66>> \in Seq(Nat)
    OBVIOUS
  <2> SUFFICES ASSUME NEW c \in DOMAIN InstanceAddresses
               PROVE  InstanceAddresses[c] \in Seq(Nat) /\ Preferred[c] \in Seq(Nat)
    OBVIOUS
  <2>2. c = "IAQ" \/ c = "OneTouch" \/ c = "PDA" \/ c = "SerialAdapter"
    BY <1>2
  <2>3. CASE c = "IAQ"
    BY <1>2, <1>3, <2>1, <2>3
  <2>4. CASE c = "OneTouch"
    BY <1>2, <1>3, <2>1, <2>4
  <2>5. CASE c = "PDA"
    BY <1>2, <1>3, <2>1, <2>5
  <2>6. CASE c = "SerialAdapter"
    BY <1>2, <1>3, <2>1, <2>6
  <2> QED BY <2>2, <2>3, <2>4, <2>5, <2>6
<1> QED BY <1>1, <1>2, <1>3, <1>4, <1>5, <1>6, Zenon

LEMMA ClassesAreDisjoint ==
  ASSUME NEW c \in DOMAIN InstanceAddresses, NEW a \in Addresses(InstanceAddresses[c])
  PROVE  ClassOf(a) = c /\ a \in Known /\ a # 0 /\ a \in Nat
<1>1. a \in Known
  BY DEF Known
<1>2. ClassOf(a) \in DOMAIN InstanceAddresses /\ a \in Addresses(InstanceAddresses[ClassOf(a)])
  BY DEF ClassOf
<1>3. ASSUME NEW d \in DOMAIN InstanceAddresses, a \in Addresses(InstanceAddresses[d]) PROVE d = c
  <2> DEFINE kinds == {"IAQ", "OneTouch", "PDA", "SerialAdapter"}
             where == [k \in kinds |-> Addresses(InstanceAddresses[k])]
  <2>1. d \in kinds /\ c \in kinds /\ a \in where[c] /\ a \in where[d]
    BY <1>3, AddressClasses
  <2>2. /\ where["IAQ"] = {48, 49, 50, 51} /\ where["OneTouch"] = {64, 65, 66, 67}
        /\ where["PDA"] = {96, 97, 98, 99} /\ where["SerialAdapter"] = {72, 73}
    BY AddressClasses, Zenon
  <2> HIDE DEF where
  <2> QED BY <2>1, <2>2
<1>4. a # 0 /\ a \in Nat
  <2>1. a \in {48, 49, 50, 51} \/ a \in {64, 65, 66, 67} \/ a \in {96, 97, 98, 99} \/ a \in {72, 73}
    <3>1. c = "IAQ" \/ c = "OneTouch" \/ c = "PDA" \/ c = "SerialAdapter"
      BY AddressClasses
    <3>2. ASSUME c = "IAQ" PROVE a \in {48, 49, 50, 51}
      BY <3>2, AddressClasses, Zenon
    <3>3. ASSUME c = "OneTouch" PROVE a \in {64, 65, 66, 67}
      BY <3>3, AddressClasses, Zenon
    <3>4. ASSUME c = "PDA" PROVE a \in {96, 97, 98, 99}
      BY <3>4, AddressClasses, Zenon
    <3>5. ASSUME c = "SerialAdapter" PROVE a \in {72, 73}
      BY <3>5, AddressClasses, Zenon
    <3> QED BY <3>1, <3>2, <3>3, <3>4, <3>5
  <2> QED BY <2>1
<1> QED BY <1>1, <1>2, <1>3, <1>4

LEMMA KnownHasClass ==
  ASSUME NEW a \in Known
  PROVE  /\ ClassOf(a) \in DOMAIN InstanceAddresses /\ a \in Addresses(InstanceAddresses[ClassOf(a)])
         /\ a # 0 /\ a \in Nat
<1>1. PICK c \in DOMAIN InstanceAddresses : a \in Addresses(InstanceAddresses[c])
  BY DEF Known
<1> QED BY <1>1, ClassesAreDisjoint

LEMMA FirstFreeIsFree ==
  ASSUME NEW q \in Seq(Nat), NEW taken
  PROVE  \/ FirstFree(q, taken) = 0
         \/ FirstFree(q, taken) \in Addresses(q) /\ FirstFree(q, taken) \notin taken
<1> DEFINE free == {i \in DOMAIN q : q[i] \notin taken}
<1>1. CASE free = {}
  BY <1>1 DEF FirstFree
<1>2. CASE free # {}
  <2>1. free \in SUBSET Nat
    OBVIOUS
  <2> HIDE DEF free
  <2>2. PICK i \in free : \A j \in free : i <= j
    BY <1>2, <2>1, LeastNumber
  <2>3. FirstFree(q, taken) = q[CHOOSE k \in free : \A j \in free : k <= j]
    BY <1>2 DEF FirstFree, free
  <2>4. (CHOOSE k \in free : \A j \in free : k <= j) \in free
    BY <2>2
  <2> QED BY <2>3, <2>4 DEF free, Addresses
<1> QED BY <1>1, <1>2

LEMMA PlanIsController ==
  Plan = "ObserveOnly" \/ Plan \in ControllerKinds
BY DEF Plan, Wanted, ControllerKinds

Devices == [emulated : BOOLEAN, suppressed : BOOLEAN, claimed : BOOLEAN, known : BOOLEAN]

LEMMA NewDevice ==
  ASSUME NEW e, NEW a
  PROVE  LET d == Device(e, a)
         IN  d.emulated = e /\ ~d.suppressed /\ ~d.claimed /\ (d.known <=> a \in bus.heard)
BY DEF Device

LEMMA AddedTable ==
  ASSUME table \in [DOMAIN table -> Devices], NEW a, NEW e \in BOOLEAN, table' = AddDevice(table, a, e)
  PROVE  /\ table' \in [DOMAIN table \cup {a} -> Devices] /\ DOMAIN table' = DOMAIN table \cup {a}
         /\ \A x \in DOMAIN table : table'[x] = table[x]
         /\ a \notin DOMAIN table => /\ table'[a].emulated = e /\ ~table'[a].suppressed /\ ~table'[a].claimed
                                    /\ (table'[a].known <=> a \in bus.heard)
<1> DEFINE D == DOMAIN table
<1>1. table \in [D -> Devices]
  OBVIOUS
<1> HIDE DEF D
<1>2. /\ table' \in [D \cup {a} -> Devices]
      /\ \A x \in D : table'[x] = table[x]
      /\ a \notin D => table'[a] = Device(e, a)
  <2>1. table' = [x \in D \cup {a} |-> IF x \in D THEN table[x] ELSE Device(e, a)]
    BY DEF AddDevice, D
  <2>2. Device(e, a) \in Devices
    BY DEF Device, Devices
  <2> QED BY <1>1, <2>1, <2>2
<1>3. DOMAIN table' = D \cup {a}
  BY <1>2
<1>4. a \notin D => /\ table'[a].emulated = e /\ ~table'[a].suppressed /\ ~table'[a].claimed
                    /\ (table'[a].known <=> a \in bus.heard)
  BY <1>2, NewDevice
<1> QED BY <1>2, <1>3, <1>4 DEF D

StarterType ==
  starter \in [phase : {"Idle", "Detecting", "Running"}, ticks : Nat, timer : {"none", "armed", "queued"},
               stopped : BOOLEAN, left : {"Idle", "Detecting", "Running"}, engaged : Seq(Known)]
WatchType ==
  watch \in [probed : SUBSET Known, last : Known \cup {0}, responded : SUBSET Known, ours : SUBSET Known,
             revision : Nat]
BusType ==
  bus \in [real : SUBSET Known, firmware : Nat, frames : Nat, heard : SUBSET Known, talks : SUBSET Known]

(* The phase, the timer and the decision go together.                      *)
PhaseInv ==
  /\ starter.phase = "Idle" => /\ starter.ticks = 0 /\ ~starter.stopped
                               /\ bus.heard = {} /\ DOMAIN table = {}
  /\ starter.phase # "Running" => /\ starter.engaged = <<>>
                                  /\ \A a \in watch.ours : ~IsController(a)
                                  /\ starter.ticks < DETECTION_WINDOW_TICKS
  /\ starter.phase # "Detecting" => starter.timer = "none"
  /\ Len(starter.engaged) <= 1
  /\ starter.stopped => starter.phase = starter.left

(* Whoever was heard is in the planner's view, or a listener holds his     *)
(* address; an adapter that has not answered yet has heard nobody there.   *)
HeardInv ==
  /\ watch.responded \subseteq watch.probed
  /\ watch.last # 0 => watch.last \in watch.probed
  /\ bus.heard \subseteq watch.responded \cup DOMAIN table
  /\ {a \in DOMAIN table : table[a].emulated} \subseteq watch.ours
  /\ \A a \in DOMAIN table :
        Emulating(a) /\ ~IsController(a) /\ ~table[a].claimed => a \notin bus.heard

StartInv ==
  /\ StarterType /\ WatchType /\ BusType
  /\ table \in [DOMAIN table -> Devices] /\ DOMAIN table \subseteq Known
  /\ PhaseInv /\ HeardInv /\ OneVoice /\ KnownLeftAlone

LEMMA StartInvIsSafe == StartInv => StartUpSafe
<1> SUFFICES ASSUME StartInv PROVE StartUpSafe
  OBVIOUS
<1>1. StartTypeOK
  BY DEF StartInv, StarterType, PhaseInv, HeardInv, StartTypeOK, Known
<1>2. DecidedOnce
  <2>1. starter.ticks \in Nat
    BY DEF StartInv, StarterType
  <2>2. starter.ticks >= DETECTION_WINDOW_TICKS => starter.phase = "Running"
    BY <2>1 DEF StartInv, PhaseInv, DETECTION_WINDOW_TICKS
  <2> QED BY <2>2 DEF StartInv, PhaseInv, DecidedOnce
<1> QED BY <1>1, <1>2 DEF StartInv, StartUpSafe

LEMMA ScannedIsKnown ==
  ASSUME StartUpConstants, NEW a \in Scanned
  PROVE  a \in Known /\ a # 0
<1>1. a \in Known
  BY DEF StartUpConstants, Known
<1> QED BY <1>1, KnownHasClass

LEMMA StartUpStarts == ASSUME StartUpConstants, StartInit PROVE StartInv
<1>1. /\ starter = [phase |-> "Idle", ticks |-> 0, timer |-> "none", stopped |-> FALSE, left |-> "Idle", engaged |-> <<>>]
      /\ watch = [probed |-> {}, last |-> 0, responded |-> {}, ours |-> {}, revision |-> 0]
      /\ table = <<>>
  BY DEF StartInit
<1>2. PICK real \in Layouts, habit \in Habits, firmware \in Firmware :
        bus = [real |-> real, firmware |-> firmware, frames |-> 0, heard |-> {},
               talks |-> IF habit = "warm" THEN real ELSE {}]
  BY DEF StartInit
<1>3. real \in SUBSET Known /\ firmware \in Nat
  <2>1. real \subseteq Scanned /\ Scanned \subseteq Known /\ Firmware \subseteq 0..26
    BY DEF StartUpConstants, Known
  <2> QED BY <2>1
<1>4. StarterType
  <2>1. <<>> \in Seq(Known)
    OBVIOUS
  <2> QED BY <1>1, <2>1 DEF StarterType
<1>5. WatchType /\ BusType
  BY <1>1, <1>2, <1>3 DEF WatchType, BusType
<1>6. DOMAIN table = {} /\ table \in [DOMAIN table -> Devices]
  BY <1>1
<1>7. PhaseInv
  <2>1. Len(starter.engaged) = 0 /\ bus.heard = {} /\ watch.ours = {}
    BY <1>1, <1>2
  <2> QED BY <1>1, <1>6, <2>1 DEF PhaseInv, DETECTION_WINDOW_TICKS
<1>8. HeardInv
  BY <1>1, <1>2, <1>6 DEF HeardInv
<1> QED BY <1>4, <1>5, <1>6, <1>7, <1>8 DEF StartInv, OneVoice, KnownLeftAlone

LEMMA SerialAddress ==
  /\ 72 \in Known /\ ~IsController(72)
  /\ \A a \in Known : IsController(a) \/ a \in {72, 73}
  /\ \A a \in {72, 73} : a \in Known /\ a # 0 /\ ~IsController(a) /\ InstanceAddresses[ClassOf(a)] \in Seq(Nat)
                         /\ Addresses(InstanceAddresses[ClassOf(a)]) = {72, 73}
<1>1. \A a \in {72, 73} : ClassOf(a) = "SerialAdapter" /\ a \in Known
  BY AddressClasses, ClassesAreDisjoint
<1>2. \A a \in Known : ClassOf(a) = "SerialAdapter" => a \in {72, 73}
  BY AddressClasses, KnownHasClass
<1>3. InstanceAddresses["SerialAdapter"] \in Seq(Nat) /\ Addresses(InstanceAddresses["SerialAdapter"]) = {72, 73}
  BY AddressClasses
<1> QED BY <1>1, <1>2, <1>3 DEF IsController

LEMMA PlannedAddress ==
  ASSUME Plan # "ObserveOnly", NEW taken, NEW a, a = FirstFree(Preferred[Plan], taken), a # 0
  PROVE  a \in Known /\ a \notin taken /\ IsController(a)
<1>1. Plan \in ControllerKinds
  BY PlanIsController
<1>2. Preferred[Plan] \in Seq(Nat) /\ Addresses(Preferred[Plan]) \subseteq Addresses(InstanceAddresses[Plan])
      /\ Plan \in DOMAIN InstanceAddresses
  <2>1. CASE Plan = "IAQ"
    BY <2>1, AddressClasses
  <2>2. CASE Plan = "OneTouch"
    BY <2>2, AddressClasses
  <2>3. CASE Plan = "PDA"
    BY <2>3, AddressClasses
  <2> QED BY <1>1, <2>1, <2>2, <2>3 DEF ControllerKinds
<1>3. a \in Addresses(Preferred[Plan]) /\ a \notin taken
  BY <1>2, FirstFreeIsFree
<1>4. ClassOf(a) = Plan /\ a \in Known
  BY <1>2, <1>3, ClassesAreDisjoint
<1> QED BY <1>1, <1>3, <1>4 DEF IsController, ControllerKinds

LEMMA BeginKept == ASSUME StartInv, Start PROVE StartInv'
<1>1. /\ starter.phase = "Idle" /\ table' = AddDevice(table, 72, TRUE)
      /\ watch' = [watch EXCEPT !.ours = @ \cup {72}]
      /\ starter' = [starter EXCEPT !.phase = "Detecting", !.ticks = 1, !.timer = "armed"] /\ bus' = bus
  BY AddressClasses DEF Start, EmulateDevice
<1>2. bus.heard = {} /\ DOMAIN table = {} /\ ~starter.stopped /\ starter.engaged = <<>>
  BY <1>1 DEF StartInv, PhaseInv
<1>3. table' \in [DOMAIN table \cup {72} -> Devices] /\ DOMAIN table' = {72}
      /\ 72 \notin DOMAIN table
  <2>1. table \in [DOMAIN table -> Devices]
    BY DEF StartInv
  <2> QED BY <1>1, <1>2, <2>1, AddedTable
<1>4. ~table'[72].suppressed /\ ~table'[72].claimed /\ ~table'[72].known
  <2>1. table \in [DOMAIN table -> Devices]
    BY DEF StartInv
  <2> QED BY <1>1, <1>2, <1>3, <2>1, AddedTable
<1>5. StarterType' /\ BusType'
  BY <1>1 DEF StartInv, StarterType, BusType
<1>6. WatchType'
  BY <1>1, SerialAddress DEF StartInv, WatchType
<1>7. watch'.ours = watch.ours \cup {72} /\ watch'.responded = watch.responded /\ watch'.probed = watch.probed
      /\ watch'.last = watch.last
  BY <1>1 DEF StartInv, WatchType
<1>8. starter'.phase = "Detecting" /\ starter'.ticks = 1 /\ starter'.engaged = <<>> /\ ~starter'.stopped
  BY <1>1, <1>2 DEF StartInv, StarterType
<1>9. PhaseInv'
  <2>1. \A a \in watch'.ours : ~IsController(a)
    BY <1>1, <1>7, SerialAddress DEF StartInv, PhaseInv
  <2>2. Len(<<>>) = 0
    OBVIOUS
  <2> QED BY <1>8, <2>1, <2>2 DEF PhaseInv, DETECTION_WINDOW_TICKS
<1>10. HeardInv'
  BY <1>1, <1>2, <1>3, <1>4, <1>7 DEF StartInv, HeardInv
<1>11. OneVoice' /\ KnownLeftAlone'
  BY <1>3, <1>4 DEF OneVoice, KnownLeftAlone
<1>12. table' \in [DOMAIN table' -> Devices] /\ DOMAIN table' \subseteq Known
  <2>1. DOMAIN table \cup {72} = {72}
    BY <1>2
  <2> QED BY <1>3, <2>1, SerialAddress
<1> QED BY <1>5, <1>6, <1>9, <1>10, <1>11, <1>12 DEF StartInv

LEMMA EngageKept ==
  ASSUME StartInv, Engage, UNCHANGED bus, starter.phase = "Detecting", ~starter.stopped
  PROVE  StartInv'
<1> DEFINE a == IF Plan = "ObserveOnly" THEN 0 ELSE FirstFree(Preferred[Plan], OccupiedAddresses)
<1>1. /\ table' = IF a = 0 THEN table ELSE AddDevice(table, a, TRUE)
      /\ watch' = IF a = 0 THEN watch ELSE [watch EXCEPT !.ours = @ \cup {a}]
      /\ starter' = [starter EXCEPT !.phase = "Running", !.timer = "none", !.ticks = @ + 1,
                       !.engaged = IF a = 0 THEN @ ELSE Append(@, a)]
  BY DEF Engage, EmulateDevice
<1>2. a # 0 => a \in Known /\ a \notin OccupiedAddresses /\ IsController(a)
  <2> SUFFICES ASSUME a # 0 PROVE a \in Known /\ a \notin OccupiedAddresses /\ IsController(a)
    OBVIOUS
  <2>1. Plan # "ObserveOnly" /\ a = FirstFree(Preferred[Plan], OccupiedAddresses)
    OBVIOUS
  <2> HIDE DEF a
  <2> QED BY <2>1, PlannedAddress
<1> HIDE DEF a
<1>3. starter.engaged = <<>> /\ \A x \in watch.ours : ~IsController(x)
  BY DEF StartInv, PhaseInv
<1>4. /\ StarterType' /\ starter'.phase = "Running" /\ starter'.timer = "none" /\ Len(starter'.engaged) <= 1
      /\ starter'.stopped = starter.stopped
  <2>1. starter.ticks + 1 \in Nat
    BY DEF StartInv, StarterType
  <2>2. a # 0 => Append(<<>>, a) \in Seq(Known) /\ Len(Append(<<>>, a)) = 1
    BY <1>2
  <2>3. Len(<<>>) = 0
    OBVIOUS
  <2> DEFINE e == IF a = 0 THEN <<>> ELSE Append(<<>>, a)
  <2>4. starter' = [starter EXCEPT !.phase = "Running", !.timer = "none", !.ticks = starter.ticks + 1, !.engaged = e]
    BY <1>1, <1>3 DEF StartInv, StarterType
  <2>5. e \in Seq(Known) /\ Len(e) <= 1
    <3>1. CASE a = 0
      BY <2>3, <3>1
    <3>2. CASE a # 0
      BY <2>2, <3>2
    <3> QED BY <3>1, <3>2
  <2> HIDE DEF e
  <2> QED BY <2>1, <2>4, <2>5 DEF StartInv, StarterType
<1>5. PhaseInv'
  BY <1>4 DEF PhaseInv
<1>6. CASE a = 0
  BY <1>1, <1>4, <1>5, <1>6 DEF StartInv, WatchType, BusType, HeardInv, OneVoice, KnownLeftAlone, Emulating
<1>7. CASE a # 0
  <2>1. table' = AddDevice(table, a, TRUE) /\ watch' = [watch EXCEPT !.ours = @ \cup {a}]
    BY <1>1, <1>7
  <2>2. /\ table' \in [DOMAIN table \cup {a} -> Devices]
        /\ \A x \in DOMAIN table : table'[x] = table[x]
        /\ a \notin DOMAIN table => ~table'[a].suppressed /\ ~table'[a].claimed
                                   /\ (table'[a].known <=> a \in bus.heard)
    <3>1. table \in [DOMAIN table -> Devices]
      BY DEF StartInv
    <3> QED BY <2>1, <3>1, AddedTable
  <2>3. WatchType' /\ watch'.ours = watch.ours \cup {a} /\ watch'.responded = watch.responded
        /\ watch'.probed = watch.probed /\ watch'.last = watch.last
    BY <1>2, <1>7, <2>1 DEF StartInv, WatchType
  <2>4. a \notin watch.ours /\ a \notin watch.responded
    BY <1>2, <1>3, <1>7 DEF OccupiedAddresses
  <2>5. a \notin DOMAIN table => /\ a \notin bus.heard
                                 /\ ~table'[a].known /\ ~table'[a].suppressed /\ ~table'[a].claimed
    BY <2>2, <2>4 DEF StartInv, HeardInv
  <2>6. DOMAIN table' = DOMAIN table \cup {a} /\ DOMAIN table' \subseteq Known
    BY <1>2, <1>7, <2>2 DEF StartInv
  <2>7. \A x \in DOMAIN table : Emulating(x)' = Emulating(x) /\ (Emulating(x) => ~IsController(x))
    BY <1>3, <2>2, <2>6 DEF StartInv, HeardInv, Emulating
  <2>8. a \in DOMAIN table => ~Emulating(a)
    BY <2>4 DEF StartInv, HeardInv, Emulating
  <2>9. HeardInv'
    BY <1>2, <1>7, <2>2, <2>3, <2>6, <2>7 DEF StartInv, HeardInv
  <2>10. OneVoice'
    <3>1. \A x, y \in DOMAIN table : Emulating(x)' /\ Emulating(y)' /\ ClassOf(x) = ClassOf(y) => x = y
      BY <2>7 DEF StartInv, OneVoice
    <3>2. \A x \in DOMAIN table : Emulating(x)' => ClassOf(x) # ClassOf(a)
      BY <1>2, <1>7, <2>7 DEF IsController
    <3> QED BY <2>6, <3>1, <3>2 DEF OneVoice
  <2>11. KnownLeftAlone'
    BY <2>2, <2>5, <2>6, <2>7 DEF StartInv, KnownLeftAlone
  <2>12. BusType'
    BY DEF StartInv, BusType
  <2> QED BY <1>4, <1>5, <2>2, <2>3, <2>6, <2>9, <2>10, <2>11, <2>12 DEF StartInv
<1> QED BY <1>6, <1>7

LEMMA ServiceKept ==
  ASSUME StartInv, TimerExpires \/ HandlerRuns \/ Stop
  PROVE  StartInv'
<1> DEFINE OnlyStarter == UNCHANGED <<watch, table, bus>>
<1>0. ASSUME OnlyStarter, StarterType', PhaseInv' PROVE StartInv'
  BY <1>0 DEF StartInv, WatchType, BusType, HeardInv, OneVoice, KnownLeftAlone, Emulating
<1>1. CASE TimerExpires
  <2>1. starter.phase = "Detecting" /\ starter' = [starter EXCEPT !.timer = "queued"] /\ OnlyStarter
    BY <1>1 DEF TimerExpires, StartInv, PhaseInv
  <2>2. StarterType' /\ PhaseInv'
    BY <2>1 DEF StartInv, StarterType, PhaseInv
  <2> QED BY <1>0, <2>1, <2>2
<1>2. CASE HandlerRuns
  <2>1. starter.timer = "queued" /\ Tick /\ bus' = bus /\ starter.phase = "Detecting"
    BY <1>2 DEF HandlerRuns, StartInv, PhaseInv
  <2>2. CASE starter.stopped
    <3>1. starter' = [starter EXCEPT !.timer = "none"] /\ OnlyStarter
      BY <2>1, <2>2 DEF Tick
    <3>2. StarterType' /\ PhaseInv'
      BY <2>1, <3>1 DEF StartInv, StarterType, PhaseInv
    <3> QED BY <1>0, <3>1, <3>2
  <2>3. CASE ~starter.stopped /\ (HaveControllerSignal \/ starter.ticks + 1 >= DETECTION_WINDOW_TICKS)
    <3>1. Engage
      BY <2>1, <2>3 DEF Tick
    <3> QED BY <2>1, <2>3, <3>1, EngageKept
  <2>4. CASE ~starter.stopped /\ ~(HaveControllerSignal \/ starter.ticks + 1 >= DETECTION_WINDOW_TICKS)
    <3>1. starter' = [starter EXCEPT !.ticks = @ + 1, !.timer = "armed"] /\ OnlyStarter
      BY <2>1, <2>4 DEF Tick
    <3>2. starter.ticks + 1 \in Nat /\ starter.ticks + 1 < DETECTION_WINDOW_TICKS
      BY <2>4 DEF StartInv, StarterType, DETECTION_WINDOW_TICKS
    <3>3. StarterType' /\ PhaseInv'
      BY <2>1, <2>4, <3>1, <3>2 DEF StartInv, StarterType, PhaseInv
    <3> QED BY <1>0, <3>1, <3>3
  <2> QED BY <2>2, <2>3, <2>4
<1>3. CASE Stop
  <2>1. /\ starter.phase # "Idle"
        /\ starter' = [starter EXCEPT !.stopped = TRUE, !.left = starter.phase,
                         !.timer = IF @ = "armed" THEN "none" ELSE @] /\ OnlyStarter
    BY <1>3 DEF Stop
  <2>2. StarterType' /\ PhaseInv'
    BY <2>1 DEF StartInv, StarterType, PhaseInv
  <2> QED BY <1>0, <2>1, <2>2
<1> QED BY <1>1, <1>2, <1>3

LEMMA ProbeKept ==
  ASSUME StartUpConstants, StartInv, NEW a \in Scanned, Probe(a)
  PROVE  StartInv'
<1>0. a \in Known /\ a # 0
  BY ScannedIsKnown
<1>1. PICK heard \in BOOLEAN :
         /\ watch' = Answered(watch.probed \cup {a}, a, heard)
         /\ bus' = [bus EXCEPT !.frames = @ + 1,
                      !.talks = IF a \in bus.real \/ Emulating(a) THEN @ \cup {a} ELSE @ \ {a},
                      !.heard = IF heard THEN @ \cup {a} ELSE @]
  BY DEF Probe, MasterHears, Heard
<1>2. starter' = starter /\ table' = Claimed(table, a) /\ starter.phase # "Idle"
  BY DEF Probe
<1>3. /\ WatchType' /\ watch'.probed = watch.probed \cup {a} /\ watch'.last = a /\ watch'.ours = watch.ours
      /\ watch'.responded = watch.responded \cup (IF heard THEN {a} ELSE {})
  <2>1. watch' = [watch EXCEPT !.probed = watch.probed \cup {a}, !.last = a,
                    !.responded = IF heard THEN @ \cup {a} ELSE @]
    BY <1>0, <1>1 DEF Answered
  <2> QED BY <1>0, <2>1 DEF StartInv, WatchType
<1>4. BusType' /\ bus'.heard = bus.heard \cup (IF heard THEN {a} ELSE {})
  <2>1. bus.frames + 1 \in Nat
    BY DEF StartInv, BusType
  <2> DEFINE talks == IF a \in bus.real \/ Emulating(a) THEN bus.talks \cup {a} ELSE bus.talks \ {a}
             hears == IF heard THEN bus.heard \cup {a} ELSE bus.heard
  <2>2. bus' = [bus EXCEPT !.frames = bus.frames + 1, !.talks = talks, !.heard = hears]
    BY <1>1
  <2>3. talks \in SUBSET Known /\ hears \in SUBSET Known
    BY <1>0 DEF StartInv, BusType
  <2>4. hears = bus.heard \cup (IF heard THEN {a} ELSE {})
    OBVIOUS
  <2> HIDE DEF talks, hears
  <2> QED BY <2>1, <2>2, <2>3, <2>4 DEF StartInv, BusType
<1>5. /\ table' \in [DOMAIN table -> Devices] /\ DOMAIN table' = DOMAIN table
      /\ \A x \in DOMAIN table : /\ table'[x].emulated = table[x].emulated
                                 /\ table'[x].suppressed = table[x].suppressed
                                 /\ x # a => table'[x] = table[x]
      /\ Emulating(a) => ~table'[a].known
      /\ Emulating(a) /\ ~IsController(a) => table'[a].claimed
  <2>1. CASE IsController(a) \/ ~Emulating(a) \/ table[a].claimed
    <3>1. table' = table
      BY <1>2, <2>1 DEF Claimed
    <3> QED BY <2>1, <3>1 DEF StartInv, KnownLeftAlone, Emulating
  <2>2. CASE ~IsController(a) /\ Emulating(a) /\ ~table[a].claimed
    <3>1. table' = [table EXCEPT ![a].claimed = TRUE, ![a].known = @ \/ a \in bus.heard]
      BY <1>2, <2>2 DEF Claimed
    <3>2. a \in DOMAIN table /\ ~table[a].known /\ a \notin bus.heard
      BY <2>2 DEF StartInv, HeardInv, KnownLeftAlone, Emulating
    <3>3. table[a].known \in BOOLEAN /\ table \in [DOMAIN table -> Devices]
      BY <3>2 DEF StartInv, Devices
    <3>4. table' = [table EXCEPT ![a] = [table[a] EXCEPT !.claimed = TRUE, !.known = FALSE]]
      <4>1. (table[a].known \/ a \in bus.heard) = FALSE
        BY <3>2, <3>3
      <4> QED BY <3>1, <3>2, <3>3, <4>1 DEF Devices
    <3>5. [table[a] EXCEPT !.claimed = TRUE, !.known = FALSE] \in Devices
      BY <3>2, <3>3 DEF Devices
    <3>6. /\ table' \in [DOMAIN table -> Devices] /\ DOMAIN table' = DOMAIN table
          /\ table'[a] = [table[a] EXCEPT !.claimed = TRUE, !.known = FALSE]
          /\ \A x \in DOMAIN table : x # a => table'[x] = table[x]
      BY <3>2, <3>3, <3>4, <3>5
    <3>7. /\ table'[a].claimed /\ ~table'[a].known /\ table'[a].emulated = table[a].emulated
          /\ table'[a].suppressed = table[a].suppressed
      BY <3>2, <3>3, <3>6 DEF Devices
    <3> QED BY <3>6, <3>7
  <2> QED BY <2>1, <2>2
<1>6. \A x \in DOMAIN table : Emulating(x)' = Emulating(x)
  BY <1>5 DEF Emulating
<1>7. PhaseInv'
  BY <1>2, <1>3 DEF StartInv, PhaseInv
<1>8. HeardInv'
  <2>1. watch'.responded \subseteq watch'.probed /\ watch'.last \in watch'.probed
    BY <1>3 DEF StartInv, HeardInv
  <2>2. bus'.heard \subseteq watch'.responded \cup DOMAIN table'
    BY <1>3, <1>4, <1>5 DEF StartInv, HeardInv
  <2>3. {x \in DOMAIN table' : table'[x].emulated} \subseteq watch'.ours
    BY <1>3, <1>5 DEF StartInv, HeardInv
  <2>4. \A x \in DOMAIN table' : (Emulating(x) /\ ~IsController(x) /\ ~table[x].claimed)' => x \notin bus'.heard
    <3> SUFFICES ASSUME NEW x \in DOMAIN table, Emulating(x)', ~IsController(x), ~table'[x].claimed
                 PROVE  x \notin bus'.heard
      BY <1>5 DEF IsController, ClassOf
    <3>1. Emulating(x) /\ x # a
      BY <1>5, <1>6
    <3>2. x \notin bus.heard
      BY <1>5, <3>1 DEF StartInv, HeardInv
    <3> QED BY <1>4, <3>1, <3>2
  <2> QED BY <2>1, <2>2, <2>3, <2>4 DEF HeardInv
<1>9. OneVoice'
  BY <1>5, <1>6 DEF StartInv, OneVoice
<1>10. KnownLeftAlone'
  BY <1>5, <1>6 DEF StartInv, KnownLeftAlone
<1> QED BY <1>2, <1>3, <1>4, <1>5, <1>7, <1>8, <1>9, <1>10 DEF StartInv, StarterType

LEMMA ListenerKept ==
  ASSUME StartInv, NEW a \in Known, starter.phase # "Idle", UNCHANGED starter, table' = AddDevice(table, a, FALSE),
         WatchType', BusType', watch'.ours = watch.ours, watch.responded \subseteq watch'.responded,
         watch'.responded \subseteq watch'.probed, watch'.last # 0 => watch'.last \in watch'.probed,
         bus'.heard \subseteq bus.heard \cup {a},
         Emulating(a) /\ ~IsController(a) => table[a].claimed
  PROVE  StartInv'
<1>1. table \in [DOMAIN table -> Devices]
  BY DEF StartInv
<1>2. /\ table' \in [DOMAIN table \cup {a} -> Devices] /\ DOMAIN table' = DOMAIN table \cup {a}
      /\ \A x \in DOMAIN table : table'[x] = table[x]
      /\ a \notin DOMAIN table => table'[a].emulated = FALSE
  BY <1>1, AddedTable
<1>3. \A x \in DOMAIN table' : Emulating(x)' => x \in DOMAIN table /\ Emulating(x)
  BY <1>2 DEF Emulating
<1>4. PhaseInv'
  BY DEF StartInv, PhaseInv
<1>5. HeardInv'
  BY <1>2, <1>3 DEF StartInv, HeardInv
<1>6. OneVoice' /\ KnownLeftAlone'
  BY <1>2, <1>3 DEF StartInv, OneVoice, KnownLeftAlone
<1> QED BY <1>2, <1>4, <1>5, <1>6 DEF StartInv, StarterType

LEMMA PollKept ==
  ASSUME StartUpConstants, StartInv, NEW a \in Scanned, ControllerPoll(a)
  PROVE  StartInv'
<1>0. a \in Known /\ a # 0 /\ IsController(a)
  BY ScannedIsKnown DEF ControllerPoll
<1>1. PICK heard \in BOOLEAN, signs \in {{}, {a}} :
         /\ watch' = Answered(watch.probed \cup signs, watch.last, heard)
         /\ bus' = [bus EXCEPT !.frames = @ + 1,
                      !.talks = IF a \in bus.real \/ Emulating(a) THEN @ \cup {a} ELSE @ \ {a},
                      !.heard = IF heard THEN @ \cup {a} ELSE @]
  BY DEF ControllerPoll, MasterHears, Heard
<1>2. starter' = starter /\ table' = AddDevice(table, a, FALSE) /\ starter.phase # "Idle"
  BY DEF ControllerPoll
<1> DEFINE responded == IF heard /\ watch.last # 0 THEN watch.responded \cup {watch.last} ELSE watch.responded
<1>3. /\ WatchType' /\ watch'.probed = watch.probed \cup signs /\ watch'.last = watch.last
      /\ watch'.ours = watch.ours /\ watch'.responded = responded
  <2>1. watch' = [watch EXCEPT !.probed = watch.probed \cup signs, !.last = watch.last, !.responded = responded]
    BY <1>1 DEF Answered
  <2>2. responded \in SUBSET Known /\ watch.probed \cup signs \in SUBSET Known
    BY <1>0 DEF StartInv, WatchType
  <2> HIDE DEF responded
  <2> QED BY <2>1, <2>2 DEF StartInv, WatchType
<1>4. watch.responded \subseteq watch'.responded /\ watch'.responded \subseteq watch'.probed
      /\ (watch'.last # 0 => watch'.last \in watch'.probed)
  BY <1>3 DEF StartInv, HeardInv
<1>5. BusType' /\ bus'.heard \subseteq bus.heard \cup {a}
  <2>1. bus.frames + 1 \in Nat
    BY DEF StartInv, BusType
  <2> DEFINE talks == IF a \in bus.real \/ Emulating(a) THEN bus.talks \cup {a} ELSE bus.talks \ {a}
             hears == IF heard THEN bus.heard \cup {a} ELSE bus.heard
  <2>2. bus' = [bus EXCEPT !.frames = bus.frames + 1, !.talks = talks, !.heard = hears]
    BY <1>1
  <2>3. talks \in SUBSET Known /\ hears \in SUBSET Known /\ hears \subseteq bus.heard \cup {a}
    BY <1>0 DEF StartInv, BusType
  <2> HIDE DEF talks, hears
  <2> QED BY <2>1, <2>2, <2>3 DEF StartInv, BusType
<1> QED BY <1>0, <1>2, <1>3, <1>4, <1>5, ListenerKept

LEMMA StatusKept ==
  ASSUME StartUpConstants, StartInv, NEW a \in Scanned, AdapterStatus(a)
  PROVE  StartInv'
<1>0. a \in Known /\ a # 0 /\ ~IsController(a) /\ a \in {72, 73}
  BY ScannedIsKnown, SerialAddress DEF AdapterStatus
<1> DEFINE t == AddDevice(table, a, FALSE)
           collides == t[a].emulated /\ ~t[a].suppressed /\ ~t[a].claimed
           to == RelocateEmulation(a)
<1>1. /\ starter' = starter /\ starter.phase # "Idle"
      /\ bus' = [bus EXCEPT !.frames = @ + 1, !.heard = @ \cup ({a} \cap bus.real)]
      /\ collides => table' = Collide(t, a)
                     /\ watch' = [watch EXCEPT !.ours = IF to = 0 THEN @ ELSE @ \cup {to}]
      /\ ~collides => table' = t /\ watch' = watch
  BY DEF AdapterStatus
<1>2. BusType' /\ bus'.heard \subseteq bus.heard \cup {a}
  <2>1. bus.frames + 1 \in Nat /\ bus.heard \cup ({a} \cap bus.real) \in SUBSET Known
    BY DEF StartInv, BusType
  <2> QED BY <1>1, <2>1 DEF StartInv, BusType
<1>3. table \in [DOMAIN table -> Devices]
  BY DEF StartInv
<1>4. /\ t = [x \in DOMAIN table \cup {a} |-> IF x \in DOMAIN table THEN table[x] ELSE Device(FALSE, a)]
      /\ a \notin DOMAIN table => ~t[a].emulated
  BY NewDevice DEF AddDevice
<1>5. CASE ~collides
  <2>1. Emulating(a) => table[a].claimed
    BY <1>4, <1>5 DEF Emulating
  <2>2. watch' = watch /\ table' = t
    BY <1>1, <1>5
  <2>3. /\ WatchType' /\ watch'.responded \subseteq watch'.probed
        /\ (watch'.last # 0 => watch'.last \in watch'.probed)
    BY <2>2 DEF StartInv, HeardInv, WatchType
  <2> HIDE DEF to, collides
  <2> QED BY <1>0, <1>1, <1>2, <2>1, <2>2, <2>3, ListenerKept
<1>6. CASE collides
  <2>1. a \in DOMAIN table /\ t = table /\ Emulating(a) /\ ~table[a].claimed
    BY <1>3, <1>4, <1>6 DEF Emulating
  <2>2. to # 0 => to \in {72, 73} /\ to # a /\ to \notin watch.ours /\ to \notin watch.responded
    <3>1. \/ to = 0
          \/ to \in Addresses(InstanceAddresses[ClassOf(a)]) /\ to \notin watch.ours \cup {a} \cup OccupiedAddresses
      BY <1>0, SerialAddress, FirstFreeIsFree DEF RelocateEmulation
    <3> HIDE DEF to
    <3> QED BY <1>0, <3>1, SerialAddress DEF OccupiedAddresses
  <2> DEFINE moved == IF to # 0 THEN AddDevice(table, to, TRUE) ELSE table
             D == DOMAIN table \cup (IF to = 0 THEN {} ELSE {to})
  <2>3. table' = [moved EXCEPT ![a].suppressed = TRUE]
    BY <1>1, <1>6, <2>1 DEF Collide, EmulateDevice
  <2>4. watch' = [watch EXCEPT !.ours = IF to = 0 THEN @ ELSE @ \cup {to}]
    BY <1>1, <1>6
  <2>5. /\ moved \in [D -> Devices] /\ \A x \in DOMAIN table : moved[x] = table[x]
        /\ to # 0 /\ to \notin DOMAIN table => moved[to] = Device(TRUE, to)
    <3> HIDE DEF to
    <3>1. CASE to = 0
      BY <1>3, <3>1
    <3>2. CASE to # 0
      <4>1. moved = [x \in DOMAIN table \cup {to} |-> IF x \in DOMAIN table THEN table[x] ELSE Device(TRUE, to)]
        BY <3>2 DEF AddDevice
      <4>2. Device(TRUE, to) \in Devices
        BY DEF Device, Devices
      <4> QED BY <1>3, <3>2, <4>1, <4>2
    <3> QED BY <3>1, <3>2
  <2> HIDE DEF moved, to, t, collides
  <2>6. [table[a] EXCEPT !.suppressed = TRUE] \in Devices
    BY <1>3, <2>1 DEF Devices
  <2>7. /\ table' \in [D -> Devices] /\ DOMAIN table' = D
        /\ table'[a] = [table[a] EXCEPT !.suppressed = TRUE]
        /\ \A x \in D \ {a} : table'[x] = moved[x]
    BY <2>1, <2>3, <2>5, <2>6
  <2>8. table'[a].suppressed /\ table'[a].emulated = table[a].emulated
    BY <1>3, <2>1, <2>7 DEF Devices
  <2>9. \A x \in DOMAIN table \ {a} : table'[x] = table[x] /\ Emulating(x)' = Emulating(x)
    BY <2>5, <2>7 DEF Emulating
  <2>10. ~Emulating(a)'
    BY <2>8 DEF Emulating
  <2>11. \A x \in DOMAIN table \ {a} : Emulating(x) => IsController(x)
    <3> SUFFICES ASSUME NEW x \in DOMAIN table \ {a}, Emulating(x), ~IsController(x) PROVE FALSE
      OBVIOUS
    <3>1. ClassOf(x) = ClassOf(a)
      BY <1>0 DEF IsController
    <3> QED BY <2>1, <3>1 DEF StartInv, OneVoice
  <2>12. to # 0 => /\ to \in Known /\ ~IsController(to) /\ to # a
                   /\ to \in DOMAIN table => ~Emulating(to)
    BY <2>2, SerialAddress DEF StartInv, HeardInv, Emulating
  <2>13. to # 0 /\ to \notin DOMAIN table => to \notin bus.heard /\ ~table'[to].known
    <3> SUFFICES ASSUME to # 0, to \notin DOMAIN table PROVE to \notin bus.heard /\ ~table'[to].known
      OBVIOUS
    <3>1. to \notin bus.heard
      BY <2>2 DEF StartInv, HeardInv
    <3>2. table'[to] = Device(TRUE, to)
      BY <2>5, <2>7, <2>12
    <3> QED BY <3>1, <3>2, NewDevice
  <2>14. /\ WatchType' /\ watch'.ours = watch.ours \cup (IF to = 0 THEN {} ELSE {to})
         /\ watch'.responded = watch.responded /\ watch'.probed = watch.probed /\ watch'.last = watch.last
    BY <2>4, <2>12 DEF StartInv, WatchType
  <2>15. D \subseteq Known
    BY <2>12 DEF StartInv
  <2>16. PhaseInv'
    BY <1>1, <2>12, <2>14 DEF StartInv, PhaseInv
  <2>17. HeardInv'
    <3>1. bus'.heard \subseteq watch'.responded \cup DOMAIN table'
      BY <1>2, <2>1, <2>7, <2>14 DEF StartInv, HeardInv
    <3>2. {x \in DOMAIN table' : table'[x].emulated} \subseteq watch'.ours
      <4> SUFFICES ASSUME NEW x \in D, table'[x].emulated PROVE x \in watch'.ours
        BY <2>7
      <4>1. CASE x \in DOMAIN table
        BY <2>8, <2>9, <2>14, <4>1 DEF StartInv, HeardInv
      <4>2. CASE x \notin DOMAIN table
        BY <2>14, <4>2
      <4> QED BY <4>1, <4>2
    <3>3. \A x \in DOMAIN table' : (Emulating(x) /\ ~IsController(x) /\ ~table[x].claimed)' => x \notin bus'.heard
      <4> SUFFICES ASSUME NEW x \in D, Emulating(x)', ~IsController(x) PROVE x \notin bus'.heard
        BY <2>7 DEF IsController, ClassOf
      <4>1. x \notin DOMAIN table
        BY <2>9, <2>10, <2>11
      <4>2. x = to /\ to # 0
        BY <4>1
      <4> QED BY <1>2, <2>12, <2>13, <4>1, <4>2
    <3> QED BY <2>14, <3>1, <3>2, <3>3 DEF StartInv, HeardInv
  <2>18. OneVoice'
    <3> SUFFICES ASSUME NEW x \in D, NEW y \in D, Emulating(x)', Emulating(y)', ClassOf(x) = ClassOf(y) PROVE x = y
      BY <2>7 DEF OneVoice, ClassOf
    <3>1. CASE x \in DOMAIN table /\ y \in DOMAIN table
      BY <2>9, <2>10, <3>1 DEF StartInv, OneVoice
    <3>2. CASE x \notin DOMAIN table /\ y \notin DOMAIN table
      BY <3>2
    <3>3. CASE x \in DOMAIN table /\ y \notin DOMAIN table
      BY <2>9, <2>10, <2>11, <2>12, <3>3 DEF IsController
    <3>4. CASE x \notin DOMAIN table /\ y \in DOMAIN table
      BY <2>9, <2>10, <2>11, <2>12, <3>4 DEF IsController
    <3> QED BY <3>1, <3>2, <3>3, <3>4
  <2>19. KnownLeftAlone'
    <3> SUFFICES ASSUME NEW x \in D, Emulating(x)' PROVE ~table'[x].known
      BY <2>7 DEF KnownLeftAlone
    <3>1. CASE x \in DOMAIN table
      BY <2>9, <2>10, <3>1 DEF StartInv, KnownLeftAlone
    <3>2. CASE x \notin DOMAIN table
      BY <2>13, <3>2
    <3> QED BY <3>1, <3>2
  <2> QED BY <1>1, <1>2, <2>7, <2>14, <2>15, <2>16, <2>17, <2>18, <2>19 DEF StartInv, StarterType
<1> QED BY <1>5, <1>6

LEMMA RevisionKept == ASSUME StartInv, LearnRevision PROVE StartInv'
<1>1. /\ watch' = [watch EXCEPT !.revision = bus.firmware] /\ UNCHANGED <<starter, table, bus>>
  BY DEF LearnRevision
<1>2. /\ WatchType' /\ watch'.ours = watch.ours /\ watch'.responded = watch.responded
      /\ watch'.probed = watch.probed /\ watch'.last = watch.last
  BY <1>1 DEF StartInv, WatchType, BusType
<1> QED BY <1>1, <1>2 DEF StartInv, StarterType, BusType, PhaseInv, HeardInv, OneVoice, KnownLeftAlone, Emulating

LEMMA StartUpKept ==
  ASSUME StartUpConstants, StartInv, [StartNext]_startVars
  PROVE  StartInv'
<1>1. CASE Start
  BY <1>1, BeginKept
<1>2. CASE TimerExpires \/ HandlerRuns \/ Stop
  BY <1>2, ServiceKept
<1>3. CASE LearnRevision
  BY <1>3, RevisionKept
<1>4. ASSUME NEW a \in Scanned, Probe(a) \/ ControllerPoll(a) \/ AdapterStatus(a) PROVE StartInv'
  BY <1>4, ProbeKept, PollKept, StatusKept
<1>5. CASE UNCHANGED startVars
  BY <1>5 DEF startVars, StartInv, StarterType, WatchType, BusType, PhaseInv, HeardInv, OneVoice, KnownLeftAlone, Emulating
<1> QED BY <1>1, <1>2, <1>3, <1>4, <1>5 DEF StartNext

(* Of each kind at most one of our devices transmits, none where a real    *)
(* device had been heard, and the choice is made once and in time.         *)
THEOREM StartUpIsSafe == StartSpec => []StartUpSafe
BY StartUpConstants, StartUpStarts, StartUpKept, StartInvIsSafe, PTL DEF StartSpec

(***************************************************************************)
(* The spa-side remotes.                                                   *)
(***************************************************************************)
Button == SpaButtons \cup {0}
AckButton == Button \cup {a[2] : a \in OtherAcks}

OwnType == own \in [pending : Button, pressed : Seq(SpaButtons), reported : Seq(SpaButtons)]

ListenerType == listener \in [RealRemotes -> [awaiting : BOOLEAN, button : AckButton]]

LineType ==
  line \in [turn : RealRemotes \cup {"nobody", "other"}, polls : Nat,
            lost : [RealRemotes -> Nat], wrong : [RealRemotes -> Nat]]

(* A window that stays open although the master waits for somebody else is *)
(* one that a lost answer has left open.                                   *)
WindowsPaid ==
  \A r \in RealRemotes :
    /\ line.wrong[r] <= line.lost[r]
    /\ listener[r].awaiting /\ line.turn # r => line.wrong[r] < line.lost[r]

RemoteInv ==
  /\ OwnType /\ ListenerType /\ LineType
  /\ line.turn \in RealRemotes => listener[line.turn].awaiting
  /\ PressReportedOnce /\ WindowsPaid /\ ProgrammedOnce

LEMMA PressKept ==
  ASSUME OwnType, PressReportedOnce, OwnNext
  PROVE  OwnType' /\ PressReportedOnce' /\ UNCHANGED <<listener, line, programming>>
<1>1. ASSUME NEW a \in RealRemotes \cup {OwnRemote}, NEW b \in SpaButtons \cup {0}, PressButton(a, b)
      PROVE  OwnType' /\ PressReportedOnce' /\ UNCHANGED <<listener, line, programming>>
  <2>1. b \in SpaButtons /\ b # 0
    BY <1>1, RemoteConstants DEF PressButton, PressResult
  <2>2. own' = [own EXCEPT !.pending = b, !.pressed = Append(@, b)] /\ UNCHANGED <<listener, line, programming>>
    BY <1>1 DEF PressButton
  <2>3. OwnType'
    <3>1. Append(own.pressed, b) \in Seq(SpaButtons)
      BY <2>1 DEF OwnType
    <3> QED BY <2>1, <2>2, <3>1 DEF OwnType, Button
  <2>4. /\ Len(Append(own.pressed, b)) = Len(own.pressed) + 1 /\ Last(Append(own.pressed, b)) = b
        /\ Len(own.reported) \in Nat /\ Len(own.pressed) \in Nat
    BY <2>1 DEF OwnType, Last
  <2>5. PressReportedOnce'
    BY <2>1, <2>2, <2>4 DEF OwnType, PressReportedOnce
  <2> QED BY <2>2, <2>3, <2>5
<1>2. ASSUME SendButtonAck
      PROVE  OwnType' /\ PressReportedOnce' /\ UNCHANGED <<listener, line, programming>>
  <2>1. own' = Reported /\ UNCHANGED <<listener, line, programming>>
    BY <1>2 DEF SendButtonAck
  <2>2. CASE own.pending = 0
    BY <2>1, <2>2 DEF Reported, OwnType, PressReportedOnce, Button
  <2>3. CASE own.pending # 0
    <3>1. own.pending \in SpaButtons
      BY <2>3 DEF OwnType, Button
    <3>2. own' = [own EXCEPT !.reported = Append(@, own.pending), !.pending = 0]
      BY <2>1, <2>3 DEF Reported
    <3>3. OwnType'
      <4>1. Append(own.reported, own.pending) \in Seq(SpaButtons)
        BY <3>1 DEF OwnType
      <4> QED BY <3>2, <4>1 DEF OwnType, Button
    <3>4. /\ Len(Append(own.reported, own.pending)) = Len(own.reported) + 1
          /\ Last(Append(own.reported, own.pending)) = own.pending
          /\ Append(own.reported, own.pending) # <<>>
          /\ Len(own.reported) \in Nat /\ Len(own.pressed) \in Nat
      BY <3>1 DEF OwnType, Last
    <3>5. PressReportedOnce'
      BY <2>3, <3>2, <3>4 DEF OwnType, PressReportedOnce
    <3> QED BY <2>1, <3>3, <3>5
  <2> QED BY <2>2, <2>3, <2>1
<1> QED BY <1>1, <1>2 DEF OwnNext

LEMMA LineKept ==
  ASSUME ListenerType, LineType, line.turn \in RealRemotes => listener[line.turn].awaiting, WindowsPaid, LineNext
  PROVE  /\ ListenerType' /\ LineType' /\ WindowsPaid'
         /\ (line.turn \in RealRemotes => listener[line.turn].awaiting)'
         /\ UNCHANGED <<own, programming>>
<1> DEFINE Kept == /\ ListenerType' /\ LineType' /\ WindowsPaid'
                   /\ (line.turn \in RealRemotes => listener[line.turn].awaiting)'
                   /\ UNCHANGED <<own, programming>>
<1>0. "nobody" \notin RealRemotes /\ "other" \notin RealRemotes
  BY RemoteConstants
<1>1. ASSUME NEW r \in RealRemotes, Slot_Spaside_Status(r) PROVE Kept
  <2>1. /\ line.turn = "nobody" /\ UNCHANGED <<own, programming>>
        /\ listener' = [listener EXCEPT ![r].awaiting = TRUE]
        /\ line' = [line EXCEPT !.turn = r, !.polls = @ + 1]
    BY <1>1 DEF Slot_Spaside_Status
  <2>2. ListenerType'
    BY <2>1 DEF ListenerType
  <2>3. LineType'
    <3>1. line.polls + 1 \in Nat
      BY DEF LineType
    <3> QED BY <2>1, <3>1 DEF LineType
  <2>4. \A x \in RealRemotes : x # r => listener'[x] = listener[x]
    BY <2>1 DEF ListenerType
  <2>5. line'.turn = r /\ line'.wrong = line.wrong /\ line'.lost = line.lost
    BY <2>1 DEF LineType
  <2>6. WindowsPaid'
    BY <1>0, <2>1, <2>4, <2>5 DEF WindowsPaid
  <2>7. listener'[r].awaiting
    BY <2>1 DEF ListenerType
  <2> QED BY <2>1, <2>2, <2>3, <2>5, <2>6, <2>7
<1>2. ASSUME OtherPolled PROVE Kept
  <2>1. /\ line.turn = "nobody" /\ UNCHANGED <<own, listener, programming>>
        /\ line' = [line EXCEPT !.turn = "other", !.polls = @ + 1]
    BY <1>2 DEF OtherPolled
  <2>2. LineType'
    <3>1. line.polls + 1 \in Nat
      BY DEF LineType
    <3> QED BY <2>1, <3>1 DEF LineType
  <2>3. line'.turn = "other" /\ line'.wrong = line.wrong /\ line'.lost = line.lost
    BY <2>1 DEF LineType
  <2> QED BY <1>0, <2>1, <2>2, <2>3 DEF ListenerType, WindowsPaid
<1>3. ASSUME Silence PROVE Kept
  <2>1. /\ UNCHANGED <<own, listener, programming>>
        /\ line' = [line EXCEPT !.turn = "nobody",
                      !.lost = [r \in RealRemotes |-> IF r = line.turn THEN @[r] + 1 ELSE @[r]]]
    BY <1>3 DEF Silence
  <2>2. [r \in RealRemotes |-> IF r = line.turn THEN line.lost[r] + 1 ELSE line.lost[r]] \in [RealRemotes -> Nat]
    BY DEF LineType
  <2>3. LineType'
    BY <2>1, <2>2 DEF LineType
  <2>4. /\ line'.turn = "nobody" /\ line'.wrong = line.wrong
        /\ \A r \in RealRemotes : line'.lost[r] = IF r = line.turn THEN line.lost[r] + 1 ELSE line.lost[r]
    BY <2>1 DEF LineType
  <2>5. \A r \in RealRemotes : line.lost[r] \in Nat /\ line.wrong[r] \in Nat
    BY DEF LineType
  <2>6. WindowsPaid'
    BY <2>1, <2>4, <2>5 DEF WindowsPaid
  <2> QED BY <1>0, <2>1, <2>3, <2>4, <2>6 DEF ListenerType
<1>4. ASSUME NEW sender \in RealRemotes \cup {"other"}, NEW type, NEW command \in AckButton, Ack(sender, type, command)
      PROVE  Kept
  <2>1. /\ line.turn = sender /\ UNCHANGED <<own, programming>>
        /\ listener' = [r \in RealRemotes |-> Acked(listener[r], type, command)]
        /\ line' = [line EXCEPT !.turn = "nobody",
                !.wrong = [r \in RealRemotes |->
                   IF r \in Wronged(sender, type, command) THEN @[r] + 1 ELSE @[r]]]
    BY <1>4 DEF Ack
  <2>2. \A r \in RealRemotes : /\ Acked(listener[r], type, command) \in [awaiting : BOOLEAN, button : AckButton]
                               /\ ~Acked(listener[r], type, command).awaiting
    BY DEF Acked, ListenerType, AckButton, Button
  <2>3. \A r \in RealRemotes : r \in Wronged(sender, type, command) => listener[r].awaiting /\ line.turn # r
    BY <2>1 DEF Wronged
  <2>4. ListenerType' /\ LineType'
    <3>1. [r \in RealRemotes |-> IF r \in Wronged(sender, type, command) THEN line.wrong[r] + 1 ELSE line.wrong[r]]
             \in [RealRemotes -> Nat]
      BY DEF LineType
    <3>2. LineType'
      BY <2>1, <3>1 DEF LineType
    <3> QED BY <2>1, <2>2, <3>2 DEF ListenerType
  <2>5. WindowsPaid'
    BY <2>1, <2>2, <2>3 DEF WindowsPaid, LineType
  <2> QED BY <1>0, <2>1, <2>4, <2>5
<1>5. ASSUME NEW r \in RealRemotes, RemoteAnswers(r) PROVE Kept
  BY <1>4, <1>5 DEF RemoteAnswers, AckButton, Button
<1>6. ASSUME OtherAnswers PROVE Kept
  BY <1>4, <1>6 DEF OtherAnswers, AckButton
<1> QED BY <1>1, <1>2, <1>3, <1>5, <1>6 DEF LineNext

LEMMA ProgrammedKept ==
  ASSUME NEW valid \in BOOLEAN, SetButtonAssignment(valid)
  PROVE  ProgrammedOnce' /\ UNCHANGED <<own, listener, line>>
<1>1. PICK present \in SUBSET {"iaq", "onetouch"}, says \in [{"iaq", "onetouch"} -> ActuationResults] :
        programming' = [asks |-> programming.asks + 1, valid |-> valid, present |-> present, says |-> says,
          asked |-> IF valid THEN Consulted(present, says) ELSE {},
          result |-> IF valid THEN Outcome(IF valid THEN Consulted(present, says) ELSE {}, says) ELSE "InvalidRequest"]
  BY DEF SetButtonAssignment
<1>2. \A c, d \in Consulted(present, says) : says[c] = "Accepted" /\ says[d] = "Accepted" => c = d
  <2>1. ControllerPriority["iaq"] = 1 /\ ControllerPriority["onetouch"] = 2
    BY DEF ControllerPriority
  <2>2. "iaq" \in present => "iaq" \in Before("onetouch", present)
    BY <2>1 DEF Before
  <2>3. "iaq" \in Consulted(present, says) /\ says["iaq"] = "Accepted" => "onetouch" \notin Consulted(present, says)
    BY <2>2 DEF Consulted, Decisive
  <2>4. Consulted(present, says) \subseteq {"iaq", "onetouch"}
    BY DEF Consulted
  <2> QED BY <2>3, <2>4
<1>3. \A c \in present : says[c] = "Accepted" => \E d \in Consulted(present, says) : says[d] \in Decisive
  BY DEF Consulted, Before, ControllerPriority, Decisive
<1>4. Outcome(Consulted(present, says), says) = "NotAvailable" => \A c \in present : says[c] # "Accepted"
  BY <1>3 DEF Outcome, Decisive
<1>5. Cardinality({c \in programming'.asked : programming'.says[c] = "Accepted"}) <= 1
  <2> DEFINE S == {c \in programming'.asked : programming'.says[c] = "Accepted"}
  <2>1. \A c, d \in S : c = d
    BY <1>1, <1>2
  <2>2. ASSUME S = {} PROVE Cardinality(S) = 0
    BY <2>2, FS_EmptySet
  <2>3. ASSUME S # {} PROVE Cardinality(S) = 1
    <3>1. PICK c \in S : S = {c}
      BY <2>1, <2>3
    <3>2. Cardinality({c}) = 1
      BY FS_Singleton
    <3>3. Cardinality(S) = 1
      BY <3>1, <3>2
    <3> QED BY <3>3
  <2>4. Cardinality(S) = 0 \/ Cardinality(S) = 1
    BY <2>2, <2>3
  <2> QED BY <2>4
<1> QED BY <1>1, <1>4, <1>5 DEF ProgrammedOnce, SetButtonAssignment

LEMMA RemoteStarts == RemoteInit => RemoteInv
<1> SUFFICES ASSUME RemoteInit PROVE RemoteInv
  OBVIOUS
<1>1. OwnType /\ ListenerType /\ LineType
  BY DEF RemoteInit, OwnType, ListenerType, LineType, Button, AckButton
<1>2. PressReportedOnce /\ WindowsPaid
  BY DEF RemoteInit, PressReportedOnce, WindowsPaid
<1>3. ProgrammedOnce
  <2>1. {c \in programming.asked : programming.says[c] = "Accepted"} = {}
    BY DEF RemoteInit
  <2> QED BY <2>1, FS_EmptySet DEF RemoteInit, ProgrammedOnce
<1> QED BY <1>1, <1>2, <1>3, RemoteConstants DEF RemoteInit, RemoteInv

LEMMA RemoteKept ==
  ASSUME RemoteInv, [RemoteNext]_remoteVars
  PROVE  RemoteInv'
<1>1. CASE OwnNext
  BY <1>1, PressKept DEF RemoteInv, ListenerType, LineType, WindowsPaid, ProgrammedOnce
<1>2. CASE LineNext
  BY <1>2, LineKept DEF RemoteInv, OwnType, PressReportedOnce, ProgrammedOnce
<1>3. ASSUME NEW valid \in BOOLEAN, SetButtonAssignment(valid) PROVE RemoteInv'
  BY <1>3, ProgrammedKept DEF RemoteInv, OwnType, ListenerType, LineType, WindowsPaid, PressReportedOnce
<1>4. CASE UNCHANGED remoteVars
  BY <1>4 DEF remoteVars, RemoteInv, OwnType, ListenerType, LineType, WindowsPaid, PressReportedOnce, ProgrammedOnce
<1> QED BY <1>1, <1>2, <1>3, <1>4 DEF RemoteNext

LEMMA RemoteInvIsSafe == RemoteInv => RemoteSafe
BY DEF RemoteInv, RemoteSafe, RemoteTypeOK, MisattributionBounded, WindowsPaid, OwnType, ListenerType, LineType, Button, AckButton

(* Presses are reported once and the newest is not lost; an answer that    *)
(* never came costs at most one button put down to the wrong remote; and a *)
(* button is programmed by one controller.                                 *)
THEOREM RemotesAreSafe == RemoteSpec => []RemoteSafe
BY RemoteStarts, RemoteKept, RemoteInvIsSafe, PTL DEF RemoteSpec

(***************************************************************************)
(* The emulated iAqualink: the types of its parts.                         *)
(***************************************************************************)

(* What the panel and the program may write.                               *)
Texts ==
  STRING \cup {"", "unseen", "pump", "Pump", "Light", "AM", "PM", "All", "Wkdays", "Wkends",
              "M", "Tu", "W", "Th", "F", "Sa", "Su"}
RowType == [target : Texts, on : Clocks, off : Clocks, days : Texts]

Pages == {Home, Menu, SetupPage, SchedulePage, TimePage, SwgPage, PickerPage,
          RemotesPage, DetailPage, SetTempPage}
ValuePages == {TimePage, SwgPage, SetTempPage}
PaintedButtons == {Buttons(p) : p \in Pages}
PageType ==
  [id : Pages \cup {0}, rows : Seq(RowType), devices : Seq({"pump"}), picker : Seq(Texts),
   buttons : PaintedButtons, meridiem : Texts]
RouteType == [index : Nat \cup {NoIndex}, unavailable : BOOLEAN]

ArmFields == {"none", "on", "off", "Pool", "Spa", "heatPool", "heatSpa"}
BoxFields == ArmFields \cup {"Boost"}
Armed == [field : ArmFields, n : Int]
Keys == Nat \cup {Keep}
Overs == {"no", "completed", "abandoned"}

(* What the writers may hold, and what their steps return.                 *)
AskedPrograms == Programs \cup {ParseScheduleRow(Printed)}
SchedGoals ==
  {w \in [op : {"Create", "Edit", "Delete"}, program : AskedPrograms, match : AskedPrograms,
          phase : {"NavigateToList", "AddProgram", "SelectDevice", "SetOnTime", "SetOffTime", "SetDay",
                   "Verify", "SelectRow", "PressEdit", "PressDelete", "ConfirmDelete", "VerifyGone"},
          polls : 0..PollLimit, settle : 0..SettlePolls, scrolls : Nat,
          added : BOOLEAN, clicked : BOOLEAN, opened : BOOLEAN] :
     w.opened => w.phase \in {"SetOnTime", "SetOffTime"}}
AquaGoals ==
  {w \in [op : {"Percentage", "Boost"}, n : Int, body : {"Pool", "Spa", "Boost"},
          phase : {"Navigate", "SelectField", "Submit", "ReturnHome", "Failed"},
          polls : 0..(PollLimit + 1), settle : 0..SettlePolls, unwinds : Nat, tries : Nat] :
     /\ w.op = "Boost" <=> w.body = "Boost"
     /\ w.op = "Boost" => w.phase # "Submit"}
SpaGoals ==
  [op : {"SpaSwitch"}, ordinal : Nat, function : Texts,
   phase : {"Navigate", "SelectRow", "FindFunction", "Verify"},
   polls : 0..PollLimit, settle : 0..SettlePolls, scrolls : Nat, selected : BOOLEAN, first : Texts]
Results(G) == [w : G \cup {NoGoal}, cmd : Keys, arm : Armed, over : Overs]

LEMMA SomeTexts ==
  /\ {"", "unseen", "pump", "Pump", "Light", "AM", "PM", "All", "Wkdays", "Wkends"} \subseteq Texts
  /\ {"M", "Tu", "W", "Th", "F", "Sa", "Su"} \subseteq Texts
BY DEF Texts

LEMMA PrintedRow == Printed \in RowType
BY IaqConstants DEF Rows, RowType, Texts

LEMMA WantedTimes ==
  ASSUME NEW p \in AskedPrograms
  PROVE  p.on \in Int /\ p.off \in Int
<1>1. CASE p \in Programs
  BY <1>1, IaqConstants
<1>2. CASE p = ParseScheduleRow(Printed)
  BY <1>2, IaqConstants DEF ParseScheduleRow, Parse12HourTime, Rows, Clocks
<1> QED BY <1>1, <1>2 DEF AskedPrograms

(* The first of some places is a number.                                   *)
LEMMA FirstPlace ==
  ASSUME NEW S \in SUBSET Nat, S # {}
  PROVE  (CHOOSE i \in S : \A j \in S : i <= j) \in Nat
<1>1. \E i \in S : \A j \in S : i <= j
  BY LeastNumber
<1>2. (CHOOSE i \in S : \A j \in S : i <= j) \in S
  BY <1>1
<1> QED BY <1>2

(* Where a label is found on a painted page.                               *)
LEMMA ButtonDomains ==
  ASSUME NEW b \in PaintedButtons
  PROVE  DOMAIN b \in SUBSET Nat
<1>1. PICK p \in Pages : b = Buttons(p)
  BY DEF PaintedButtons
<1>2. DOMAIN HomeButtons = {3} /\ DOMAIN [i \in {8} |-> "AquaPure"] = {8}
      /\ DOMAIN [i \in 0..2 |-> SwgFields[i + 1]] = 0..2 /\ DOMAIN [i \in {5} |-> "Spa Remotes"] = {5}
      /\ DOMAIN <<>> = {}
  BY DEF HomeButtons
<1>3. DOMAIN b \in {{3}, {8}, 0..2, {5}, {}}
  BY <1>1, <1>2, Zenon DEF Buttons
<1> QED BY <1>3

LEMMA ButtonPlace ==
  ASSUME NEW page \in PageType, NEW label
  PROVE  FindButtonContaining(page, label) \in Nat \cup {NoIndex}
<1> DEFINE at == {i \in DOMAIN page.buttons : page.buttons[i] = label}
<1>1. page.buttons \in PaintedButtons
  BY DEF PageType
<1>2. at \in SUBSET Nat
  BY <1>1, ButtonDomains
<1>3. FindButtonContaining(page, label) = IF at = {} THEN NoIndex ELSE CHOOSE i \in at : \A j \in at : i <= j
  BY DEF FindButtonContaining
<1> HIDE DEF at
<1> QED BY <1>2, <1>3, FirstPlace

(***************************************************************************)
(* The steps of the writers. Each returns a goal of its own kind or none,  *)
(* a key and an armed value; a value is armed only with the submit key, on *)
(* the page of its field.                                                  *)
(***************************************************************************)

(* What a step of the schedule writer does to the keys it sends. The value *)
(* pages are left by BACK; a value is armed where its field was opened.    *)
SchedKeys(w, page, s) ==
  /\ s.arm # NoArm =>
       /\ s.cmd = KeySubmit /\ page.id = TimePage /\ w.opened
       /\ \/ w.phase = "SetOnTime" /\ s.arm.field = "on"
          \/ w.phase = "SetOffTime" /\ s.arm.field = "off"
  /\ s.cmd = KeySubmit /\ page.id \in ValuePages => s.arm # NoArm
  /\ s.w # NoGoal /\ s.w.opened =>
       /\ s.w.phase \in {"SetOnTime", "SetOffTime"}
       /\ \/ page.id = SchedulePage /\ s.cmd = IF s.w.phase = "SetOnTime" THEN 33 ELSE 34
          \/ w.opened /\ w.phase = s.w.phase /\ s.cmd \in {KeyDwell, 17}

SchedStep(w, page, s) == s \in Results(SchedGoals) /\ SchedKeys(w, page, s)

LEMMA GoalIsSome ==
  ASSUME NEW w \in SchedGoals \cup AquaGoals \cup SpaGoals
  PROVE  w # NoGoal
BY DEF SchedGoals, AquaGoals, SpaGoals, NoGoal

LEMMA ArmedValue ==
  ASSUME NEW field \in ArmFields, field # "none", NEW n \in Int
  PROVE  [field |-> field, n |-> n] \in Armed /\ [field |-> field, n |-> n] # NoArm
         /\ [field |-> field, n |-> n].field = field
BY DEF Armed, NoArm

LEMMA NothingArmed == NoArm \in Armed /\ NoArm.field = "none"
BY DEF Armed, NoArm, ArmFields

(* The building blocks of the schedule writer's steps.                     *)
LEMMA SchedDwells ==
  ASSUME NEW w \in SchedGoals, NEW page \in PageType
  PROVE  SchedStep(w, page, Dwell(w))
<1>1. Dwell(w) \in Results(SchedGoals)
  BY NothingArmed DEF Dwell, Result, Results, KeyDwell, Keys, Overs
<1>2. SchedKeys(w, page, Dwell(w))
  BY DEF SchedKeys, Dwell, Result, KeyDwell, KeySubmit, SchedGoals
<1> QED BY <1>1, <1>2 DEF SchedStep

LEMMA SchedFinishes ==
  ASSUME NEW w \in SchedGoals, NEW page \in PageType, NEW ok \in BOOLEAN
  PROVE  SchedStep(w, page, FinishGoal(ok))
<1>1. FinishGoal(ok) \in Results(SchedGoals)
  BY NothingArmed DEF FinishGoal, Result, Results, KeyDwell, Keys, Overs
<1>2. SchedKeys(w, page, FinishGoal(ok))
  BY DEF SchedKeys, FinishGoal, Result, KeyDwell, KeySubmit
<1> QED BY <1>1, <1>2 DEF SchedStep

LEMMA SchedPlain ==
  ASSUME NEW w \in SchedGoals, NEW v \in SchedGoals, ~v.opened, NEW page \in PageType, NEW key \in Keys,
         key = KeySubmit => page.id \notin ValuePages
  PROVE  SchedStep(w, page, Result(v, key, NoArm, "no"))
<1>1. Result(v, key, NoArm, "no") \in Results(SchedGoals)
  BY NothingArmed DEF Result, Results, Overs
<1>2. SchedKeys(w, page, Result(v, key, NoArm, "no"))
  BY DEF SchedKeys, Result
<1> QED BY <1>1, <1>2 DEF SchedStep

LEMMA SchedTurns ==
  ASSUME NEW w \in SchedGoals, ~w.opened, NEW page \in PageType,
         NEW phase \in {"NavigateToList", "AddProgram", "SelectDevice", "SelectRow"}
  PROVE  SchedStep(w, page, Turn(w, phase))
<1>1. [w EXCEPT !.phase = phase] \in SchedGoals /\ ~[w EXCEPT !.phase = phase].opened
  BY DEF SchedGoals
<1>2. Keep \in Keys /\ Keep # KeySubmit
  BY DEF Keys, Keep, KeySubmit
<1> QED BY <1>1, <1>2, SchedPlain, Zenon DEF Turn

(* A key pressed where no value is taken.                                  *)
LEMMA SchedPresses ==
  ASSUME NEW w \in SchedGoals, NEW v \in SchedGoals, ~v.opened, NEW page \in PageType, NEW key \in Nat,
         key = KeySubmit => page.id \notin ValuePages
  PROVE  SchedStep(w, page, IssueAndSettle(v, key))
<1>1. SettlePolls \in 0..SettlePolls
  BY WriterConstants
<1>2. [v EXCEPT !.settle = SettlePolls] \in SchedGoals /\ ~[v EXCEPT !.settle = SettlePolls].opened
  BY <1>1 DEF SchedGoals
<1>3. key \in Keys
  BY DEF Keys
<1> QED BY <1>2, <1>3, SchedPlain, Zenon DEF IssueAndSettle

(***************************************************************************)
(* The phases of the schedule writer.                                      *)
(***************************************************************************)

LEMMA SchedNavigates ==
  ASSUME NEW w \in SchedGoals, w.phase = "NavigateToList", NEW page \in PageType
  PROVE  SchedStep(w, page, StepNavigateToList(w, page))
<1>0. ~w.opened
  BY DEF SchedGoals
<1>1. SchedStep(w, page, Turn(w, "AddProgram")) /\ SchedStep(w, page, Turn(w, "SelectRow"))
  BY <1>0, SchedTurns
<1>2. KeyBack \in Nat /\ KeyBack # KeySubmit /\ 17 # KeySubmit
  BY DEF KeyBack, KeySubmit
<1>3. SchedStep(w, page, IssueAndSettle(w, KeyBack)) /\ SchedStep(w, page, IssueAndSettle(w, 17))
  BY <1>0, <1>2, SchedPresses
<1> QED BY <1>1, <1>3 DEF StepNavigateToList

LEMMA SchedAdds ==
  ASSUME NEW w \in SchedGoals, w.phase = "AddProgram", NEW page \in PageType
  PROVE  SchedStep(w, page, StepAddProgram(w, page))
<1> DEFINE v == [w EXCEPT !.added = TRUE, !.phase = "SelectDevice"]
<1>0. ~w.opened /\ v \in SchedGoals /\ ~v.opened
  BY DEF SchedGoals
<1>1. SchedStep(w, page, Turn(w, "NavigateToList")) /\ SchedStep(w, page, Turn(w, "SelectDevice"))
  BY <1>0, SchedTurns
<1>2. 17 # KeySubmit
  BY DEF KeySubmit
<1> HIDE DEF v
<1>3. SchedStep(w, page, IssueAndSettle(v, 17))
  BY <1>0, <1>2, SchedPresses
<1> QED BY <1>1, <1>3 DEF StepAddProgram, v

LEMMA SchedSelectsDevice ==
  ASSUME NEW w \in SchedGoals, w.phase = "SelectDevice", NEW page \in PageType
  PROVE  SchedStep(w, page, StepSelectDevice(w, page))
<1> DEFINE rows == {i \in DOMAIN page.devices : page.devices[i] = w.program.target}
           first == CHOOSE i \in rows : \A j \in rows : i <= j
           u == [w EXCEPT !.phase = "SetOnTime"]
           v == [w EXCEPT !.clicked = TRUE]
           x == [w EXCEPT !.scrolls = @ + 1]
<1>1. /\ ~w.opened
      /\ u \in SchedGoals /\ ~u.opened
      /\ v \in SchedGoals /\ ~v.opened
      /\ x \in SchedGoals /\ ~x.opened
  <2>1. ~w.opened
    BY DEF SchedGoals
  <2>2. u \in SchedGoals /\ ~u.opened
    BY <2>1 DEF SchedGoals
  <2>3. v \in SchedGoals /\ ~v.opened
    BY <2>1 DEF SchedGoals
  <2>4. w.scrolls + 1 \in Nat
    BY DEF SchedGoals
  <2>5. x \in SchedGoals /\ ~x.opened
    BY <2>1, <2>4 DEF SchedGoals
  <2> QED BY <2>1, <2>2, <2>3, <2>5
<1>2. rows \in SUBSET Nat
  BY DEF PageType
<1>3. StepSelectDevice(w, page) =
        IF page.id # PickerPage THEN Dwell(w)
        ELSE IF w.clicked THEN IssueAndSettle(u, 19)
        ELSE IF rows # {} THEN IssueAndSettle(v, 19 + first)
        ELSE IF w.scrolls + 1 > MaxScrolls THEN FinishGoal(FALSE) ELSE IssueAndSettle(x, 18)
  BY DEF StepSelectDevice
<1> HIDE DEF rows, first, u, v, x
<1>4. CASE page.id # PickerPage
  BY <1>3, <1>4, SchedDwells
<1>5. CASE page.id = PickerPage
  <2>1. page.id \notin ValuePages
    BY <1>5 DEF ValuePages, PickerPage, TimePage, SwgPage, SetTempPage
  <2>2. SchedStep(w, page, IssueAndSettle(u, 19)) /\ SchedStep(w, page, IssueAndSettle(x, 18))
    BY <1>1, <2>1, SchedPresses
  <2>3. ASSUME rows # {} PROVE SchedStep(w, page, IssueAndSettle(v, 19 + first))
    <3>1. first \in Nat
      BY <1>2, <2>3, FirstPlace DEF first
    <3>2. 19 + first \in Nat
      BY <3>1
    <3> QED BY <1>1, <2>1, <3>2, SchedPresses
  <2>4. SchedStep(w, page, FinishGoal(FALSE))
    BY SchedFinishes
  <2> QED BY <1>3, <1>5, <2>2, <2>3, <2>4
<1> QED BY <1>4, <1>5

LEMMA SchedSetsTime ==
  ASSUME NEW w \in SchedGoals, NEW page \in PageType, NEW hour \in Int,
         NEW openKey, NEW field, NEW next,
         \/ w.phase = "SetOnTime" /\ openKey = 33 /\ field = "on" /\ next = "SetOffTime"
         \/ w.phase = "SetOffTime" /\ openKey = 34 /\ field = "off" /\ next = "SetDay"
  PROVE  SchedStep(w, page, SetTimeField(w, page, openKey, field, hour, next))
<1> DEFINE u == [w EXCEPT !.opened = TRUE, !.settle = SettlePolls]
           v == [w EXCEPT !.settle = SettlePolls]
           x == [w EXCEPT !.opened = FALSE, !.phase = next, !.settle = SettlePolls]
           value == [field |-> field, n |-> ScheduleTimeValue(hour)]
           opening == Result(u, openKey, NoArm, "no")
           turning == Result(v, 17, NoArm, "no")
           sending == Result(x, KeySubmit, value, "no")
<1>0. SettlePolls \in 0..SettlePolls
  BY WriterConstants
<1>1. u \in SchedGoals /\ u.phase = w.phase
  BY <1>0 DEF SchedGoals
<1>2. v \in SchedGoals /\ v.phase = w.phase /\ v.opened = w.opened
  BY <1>0 DEF SchedGoals
<1>3. x \in SchedGoals /\ ~x.opened
  BY <1>0 DEF SchedGoals
<1>4. value \in Armed /\ value # NoArm /\ value.field = field
  <2>1. ScheduleTimeValue(hour) \in Int
    BY DEF ScheduleTimeValue
  <2>2. field \in ArmFields /\ field # "none"
    BY DEF ArmFields
  <2> QED BY <2>1, <2>2, ArmedValue
<1>5. [w EXCEPT !.opened = TRUE] \in SchedGoals /\ [[w EXCEPT !.opened = TRUE] EXCEPT !.settle = SettlePolls] = u
  BY DEF SchedGoals
<1>6. [[w EXCEPT !.opened = FALSE, !.phase = next] EXCEPT !.settle = SettlePolls] = x
  BY DEF SchedGoals
<1>7. [IssueAndSettle([w EXCEPT !.opened = FALSE, !.phase = next], KeySubmit) EXCEPT !.arm = value] = sending
  BY <1>6 DEF IssueAndSettle, Result
<1>8. SetTimeField(w, page, openKey, field, hour, next) =
        IF ~w.opened THEN IF page.id = SchedulePage THEN opening ELSE Dwell(w)
        ELSE IF page.id # TimePage \/ page.meridiem = "" THEN Dwell(w)
        ELSE IF (page.meridiem = "PM") # (hour >= 12) THEN turning ELSE sending
  BY <1>5, <1>7 DEF SetTimeField, IssueAndSettle
<1>9. openKey \in Nat /\ openKey # KeySubmit /\ 17 # KeySubmit /\ {openKey, 17, KeySubmit} \subseteq Keys
  BY DEF KeySubmit, Keys
<1> HIDE DEF u, v, x, value
<1>10. opening \in Results(SchedGoals) /\ turning \in Results(SchedGoals) /\ sending \in Results(SchedGoals)
  BY <1>1, <1>2, <1>3, <1>4, <1>9, NothingArmed DEF Result, Results, Overs
<1>11. ASSUME page.id = SchedulePage PROVE SchedKeys(w, page, opening)
  <2>1. openKey = IF u.phase = "SetOnTime" THEN 33 ELSE 34
    BY <1>1
  <2>2. u.phase \in {"SetOnTime", "SetOffTime"}
    BY <1>1
  <2> QED BY <1>9, <1>11, <2>1, <2>2 DEF SchedKeys, Result
<1>12. ASSUME w.opened PROVE SchedKeys(w, page, turning)
  BY <1>2, <1>9, <1>12 DEF SchedKeys, Result
<1>13. ASSUME w.opened, page.id = TimePage PROVE SchedKeys(w, page, sending)
  BY <1>3, <1>4, <1>13 DEF SchedKeys, Result
<1> HIDE DEF opening, turning, sending
<1>14. SchedStep(w, page, Dwell(w))
  BY SchedDwells
<1> QED BY <1>8, <1>10, <1>11, <1>12, <1>13, <1>14 DEF SchedStep

LEMMA DayKey ==
  ASSUME NEW days
  PROVE  DayCommandFor(days) \in Nat
<1> DEFINE some == \E i \in 0..6 : days = 2 ^ i
           bit == CHOOSE i \in 0..6 : days = 2 ^ i
<1>1. some => bit \in 0..6
  BY Zenon
<1>2. DayCommandFor(days) = CASE days = 127 -> 23 [] days = 31 -> 31 [] days = 96 -> 32 [] some -> 24 + bit [] OTHER -> 23
  BY DEF DayCommandFor
<1> HIDE DEF some, bit
<1> QED BY <1>1, <1>2

LEMMA SchedSetsDay ==
  ASSUME NEW w \in SchedGoals, w.phase = "SetDay", NEW page \in PageType
  PROVE  SchedStep(w, page, StepSetDay(w, page))
<1> DEFINE v == [w EXCEPT !.phase = "Verify"]
           key == DayCommandFor(w.program.days)
<1>1. v \in SchedGoals /\ ~v.opened
  BY DEF SchedGoals
<1>2. key \in Nat
  BY DayKey
<1>3. StepSetDay(w, page) = IF page.id # SchedulePage THEN Dwell(w) ELSE IssueAndSettle(v, key)
  BY DEF StepSetDay
<1> HIDE DEF v, key
<1>4. ASSUME page.id = SchedulePage PROVE SchedStep(w, page, IssueAndSettle(v, key))
  <2>1. page.id \notin ValuePages
    BY <1>4 DEF ValuePages, SchedulePage, TimePage, SwgPage, SetTempPage
  <2> QED BY <1>1, <1>2, <2>1, SchedPresses
<1> QED BY <1>3, <1>4, SchedDwells

LEMMA SchedVerifies ==
  ASSUME NEW w \in SchedGoals, NEW page \in PageType
  PROVE  SchedStep(w, page, StepVerify(w, page)) /\ SchedStep(w, page, StepVerifyGone(w, page))
BY SchedDwells, SchedFinishes DEF StepVerify, StepVerifyGone

LEMMA SchedSelectsRow ==
  ASSUME NEW w \in SchedGoals, w.phase = "SelectRow", NEW page \in PageType
  PROVE  SchedStep(w, page, StepSelectRow(w, page))
<1> DEFINE mine == {i \in DOMAIN page.rows : MatchesProgram(w, page.rows[i])}
           first == CHOOSE i \in mine : \A j \in mine : i <= j
           v == [w EXCEPT !.phase = IF w.op = "Edit" THEN "PressEdit" ELSE "PressDelete"]
<1>1. v \in SchedGoals /\ ~v.opened
  BY DEF SchedGoals
<1>2. mine \in SUBSET Nat
  BY DEF PageType
<1>3. StepSelectRow(w, page) =
        IF page.id # SchedulePage \/ page.rows = <<>> THEN Dwell(w)
        ELSE IF mine = {} THEN FinishGoal(FALSE) ELSE IssueAndSettle(v, 34 + first)
  BY DEF StepSelectRow
<1> HIDE DEF mine, first, v
<1>4. ASSUME page.id = SchedulePage, mine # {} PROVE SchedStep(w, page, IssueAndSettle(v, 34 + first))
  <2>1. page.id \notin ValuePages
    BY <1>4 DEF ValuePages, SchedulePage, TimePage, SwgPage, SetTempPage
  <2>2. first \in Nat
    BY <1>2, <1>4, FirstPlace DEF first
  <2>3. 34 + first \in Nat
    BY <2>2
  <2> QED BY <1>1, <2>1, <2>3, SchedPresses
<1> QED BY <1>3, <1>4, SchedDwells, SchedFinishes

LEMMA SchedPressesOn ==
  ASSUME NEW w \in SchedGoals, w.phase \in {"PressEdit", "PressDelete", "ConfirmDelete"}, NEW page \in PageType
  PROVE  /\ SchedStep(w, page, StepPressEdit(w, page))
         /\ SchedStep(w, page, StepPressDelete(w, page))
         /\ SchedStep(w, page, StepConfirmDelete(w))
<1> DEFINE Next(phase) == [w EXCEPT !.phase = phase]
<1>1. ASSUME NEW phase \in {"SetOnTime", "ConfirmDelete", "VerifyGone"}
      PROVE  Next(phase) \in SchedGoals /\ ~Next(phase).opened
  BY DEF SchedGoals
<1>2. 18 # KeySubmit /\ 19 # KeySubmit /\ 1 # KeySubmit
  BY DEF KeySubmit
<1> HIDE DEF Next
<1>3. SchedStep(w, page, IssueAndSettle(Next("SetOnTime"), 18))
  BY <1>1, <1>2, SchedPresses
<1>4. SchedStep(w, page, IssueAndSettle(Next("ConfirmDelete"), 19))
  BY <1>1, <1>2, SchedPresses
<1>5. SchedStep(w, page, IssueAndSettle(Next("VerifyGone"), 1))
  BY <1>1, <1>2, SchedPresses
<1> QED BY <1>3, <1>4, <1>5, SchedDwells DEF StepPressEdit, StepPressDelete, StepConfirmDelete, Next

LEMMA ScheduleSteps ==
  ASSUME NEW w \in SchedGoals, NEW page \in PageType
  PROVE  SchedStep(w, page, ScheduleStep(w, page))
<1> DEFINE n == [w EXCEPT !.polls = @ + 1]
           d == [n EXCEPT !.settle = @ - 1]
           chosen ==
             CASE n.phase = "NavigateToList" -> StepNavigateToList(n, page)
               [] n.phase = "AddProgram"     -> StepAddProgram(n, page)
               [] n.phase = "SelectDevice"   -> StepSelectDevice(n, page)
               [] n.phase = "SetOnTime"      -> SetTimeField(n, page, 33, "on", n.program.on, "SetOffTime")
               [] n.phase = "SetOffTime"     -> SetTimeField(n, page, 34, "off", n.program.off, "SetDay")
               [] n.phase = "SetDay"         -> StepSetDay(n, page)
               [] n.phase = "Verify"         -> StepVerify(n, page)
               [] n.phase = "SelectRow"      -> StepSelectRow(n, page)
               [] n.phase = "PressEdit"      -> StepPressEdit(n, page)
               [] n.phase = "PressDelete"    -> StepPressDelete(n, page)
               [] n.phase = "ConfirmDelete"  -> StepConfirmDelete(n)
               [] n.phase = "VerifyGone"     -> StepVerifyGone(n, page)
<1>0. ScheduleStep(w, page) =
        CASE n.polls > PollLimit -> FinishGoal(FALSE)
          [] n.polls <= PollLimit /\ n.settle > 0 -> Dwell(d)
          [] OTHER -> chosen
  BY DEF ScheduleStep
<1>1. n.polls = w.polls + 1 /\ n.phase = w.phase /\ n.opened = w.opened /\ n.settle = w.settle
      /\ n.program = w.program
  BY DEF SchedGoals
<1>2. ASSUME n.polls <= PollLimit PROVE n \in SchedGoals
  <2>0. w.polls \in Nat /\ w.polls + 1 <= PollLimit /\ PollLimit \in Nat
    BY <1>1, <1>2, WriterConstants DEF SchedGoals
  <2>1. w.polls + 1 \in 0..PollLimit
    BY <2>0
  <2> QED BY <2>1 DEF SchedGoals
<1>3. ASSUME n.polls <= PollLimit, n.settle > 0 PROVE d \in SchedGoals /\ d.phase = w.phase /\ d.opened = w.opened
  <2>1. n.settle - 1 \in 0..SettlePolls
    BY <1>1, <1>3, WriterConstants DEF SchedGoals
  <2>2. n \in SchedGoals
    BY <1>2, <1>3
  <2> HIDE DEF n
  <2>3. d \in SchedGoals /\ d.phase = n.phase /\ d.opened = n.opened
    BY <2>1, <2>2 DEF SchedGoals
  <2> QED BY <1>1, <2>3
<1>4. ASSUME NEW m \in SchedGoals, m.phase = w.phase, m.opened = w.opened, NEW s, SchedStep(m, page, s)
      PROVE  SchedStep(w, page, s)
  BY <1>4 DEF SchedStep, SchedKeys
<1>5. n.program.on \in Int /\ n.program.off \in Int
  BY <1>1, WantedTimes DEF SchedGoals
<1>6. n.phase \in {"NavigateToList", "AddProgram", "SelectDevice", "SetOnTime", "SetOffTime", "SetDay",
                   "Verify", "SelectRow", "PressEdit", "PressDelete", "ConfirmDelete", "VerifyGone"}
  BY <1>1 DEF SchedGoals
<1>7. n.polls \in Int /\ n.settle \in Int /\ PollLimit \in Int
  BY <1>1, WriterConstants DEF SchedGoals
<1> HIDE DEF n, d, chosen
<1>8. CASE n.polls > PollLimit
  <2>1. ScheduleStep(w, page) = FinishGoal(FALSE)
    <3>1. n.polls > PollLimit /\ ~(n.polls <= PollLimit /\ n.settle > 0)
      BY <1>7, <1>8
    <3> QED BY <1>0, <3>1, Zenon
  <2> QED BY <2>1, SchedFinishes
<1>9. CASE n.polls <= PollLimit /\ n.settle > 0
  <2>1. ScheduleStep(w, page) = Dwell(d)
    <3>1. ~(n.polls > PollLimit) /\ (n.polls <= PollLimit /\ n.settle > 0)
      BY <1>7, <1>9
    <3> QED BY <1>0, <3>1, Zenon
  <2> QED BY <1>3, <1>4, <1>9, <2>1, SchedDwells
<1>10. CASE n.polls <= PollLimit /\ ~(n.settle > 0)
  <2>1. n \in SchedGoals
    BY <1>2, <1>10
  <2>2. ScheduleStep(w, page) = chosen
    <3>1. ~(n.polls > PollLimit) /\ ~(n.polls <= PollLimit /\ n.settle > 0)
      BY <1>7, <1>10
    <3> QED BY <1>0, <3>1, Zenon
  <2>3. n.phase = "NavigateToList" => SchedStep(n, page, StepNavigateToList(n, page))
    BY <2>1, SchedNavigates
  <2>4. n.phase = "AddProgram" => SchedStep(n, page, StepAddProgram(n, page))
    BY <2>1, SchedAdds
  <2>5. n.phase = "SelectDevice" => SchedStep(n, page, StepSelectDevice(n, page))
    BY <2>1, SchedSelectsDevice
  <2>6. n.phase = "SetOnTime" => SchedStep(n, page, SetTimeField(n, page, 33, "on", n.program.on, "SetOffTime"))
    BY <1>5, <2>1, SchedSetsTime
  <2>7. n.phase = "SetOffTime" => SchedStep(n, page, SetTimeField(n, page, 34, "off", n.program.off, "SetDay"))
    BY <1>5, <2>1, SchedSetsTime
  <2>8. n.phase = "SetDay" => SchedStep(n, page, StepSetDay(n, page))
    BY <2>1, SchedSetsDay
  <2>9. SchedStep(n, page, StepVerify(n, page)) /\ SchedStep(n, page, StepVerifyGone(n, page))
    BY <2>1, SchedVerifies
  <2>10. n.phase = "SelectRow" => SchedStep(n, page, StepSelectRow(n, page))
    BY <2>1, SchedSelectsRow
  <2>11. n.phase \in {"PressEdit", "PressDelete", "ConfirmDelete"} =>
           /\ SchedStep(n, page, StepPressEdit(n, page))
           /\ SchedStep(n, page, StepPressDelete(n, page))
           /\ SchedStep(n, page, StepConfirmDelete(n))
    BY <2>1, SchedPressesOn
  <2>12. SchedStep(n, page, chosen)
    BY <1>6, <2>3, <2>4, <2>5, <2>6, <2>7, <2>8, <2>9, <2>10, <2>11 DEF chosen
  <2> QED BY <1>1, <1>4, <2>1, <2>2, <2>12
<1> QED BY <1>7, <1>8, <1>9, <1>10

(***************************************************************************)
(* The AquaPure writer. A value is submitted only on the AquaPure page, by *)
(* a goal that has selected the field of its body there.                   *)
(***************************************************************************)

(* The AquaPure page is known with its buttons.                            *)
Shown(page) == page.id = SwgPage => page.buttons = Buttons(SwgPage)

FieldKey(body) == CASE body = "Pool" -> 17 [] body = "Spa" -> 18 [] OTHER -> 19

AquaKeys(w, page, s) ==
  /\ s.arm # NoArm =>
       s.cmd = KeySubmit /\ page.id = SwgPage /\ w.phase = "Submit" /\ s.arm.field = w.body
  /\ s.cmd = KeySubmit /\ page.id \in ValuePages => s.arm # NoArm
  /\ s.w # NoGoal /\ s.w.phase = "Submit" =>
       /\ s.w.body = w.body
       /\ \/ page.id = SwgPage /\ s.cmd = FieldKey(w.body)
          \/ w.phase = "Submit" /\ s.cmd = KeyDwell

AquaStep(w, page, s) == s \in Results(AquaGoals) /\ (Shown(page) => AquaKeys(w, page, s))

LEMMA AquaPlain ==
  ASSUME NEW w \in AquaGoals, NEW v \in AquaGoals, v.phase # "Submit", NEW page \in PageType, NEW key \in Keys,
         key = KeySubmit => page.id \notin ValuePages
  PROVE  AquaStep(w, page, Result(v, key, NoArm, "no"))
<1>1. Result(v, key, NoArm, "no") \in Results(AquaGoals)
  BY NothingArmed DEF Result, Results, Overs
<1>2. AquaKeys(w, page, Result(v, key, NoArm, "no"))
  BY DEF AquaKeys, Result
<1> QED BY <1>1, <1>2 DEF AquaStep

LEMMA AquaFinishes ==
  ASSUME NEW w \in AquaGoals, NEW page \in PageType, NEW ok \in BOOLEAN
  PROVE  AquaStep(w, page, FinishGoal(ok))
<1>1. FinishGoal(ok) \in Results(AquaGoals)
  BY NothingArmed DEF FinishGoal, Result, Results, KeyDwell, Keys, Overs
<1>2. AquaKeys(w, page, FinishGoal(ok))
  BY DEF AquaKeys, FinishGoal, Result, KeyDwell, KeySubmit
<1> QED BY <1>1, <1>2 DEF AquaStep

LEMMA AquaDwells ==
  ASSUME NEW w \in AquaGoals, NEW v \in AquaGoals, v.body = w.body, v.phase = w.phase, NEW page \in PageType
  PROVE  AquaStep(w, page, Dwell(v))
<1>1. Dwell(v) \in Results(AquaGoals)
  BY NothingArmed DEF Dwell, Result, Results, KeyDwell, Keys, Overs
<1>2. AquaKeys(w, page, Dwell(v))
  BY DEF AquaKeys, Dwell, Result, KeyDwell, KeySubmit
<1> QED BY <1>1, <1>2 DEF AquaStep

LEMMA AquaTurns ==
  ASSUME NEW w \in AquaGoals, NEW v \in AquaGoals, NEW page \in PageType,
         NEW phase \in {"Navigate", "SelectField", "Failed"}
  PROVE  AquaStep(w, page, Turn(v, phase))
<1>1. [v EXCEPT !.phase = phase] \in AquaGoals /\ [v EXCEPT !.phase = phase].phase # "Submit"
  BY DEF AquaGoals
<1>2. Keep \in Keys /\ Keep # KeySubmit
  BY DEF Keys, Keep, KeySubmit
<1> QED BY <1>1, <1>2, AquaPlain, Zenon DEF Turn

LEMMA AquaPresses ==
  ASSUME NEW w \in AquaGoals, NEW v \in AquaGoals, v.phase # "Submit", NEW page \in PageType, NEW key \in Nat,
         key = KeySubmit => page.id \notin ValuePages
  PROVE  AquaStep(w, page, IssueAndSettle(v, key))
<1>1. SettlePolls \in 0..SettlePolls
  BY WriterConstants
<1>2. [v EXCEPT !.settle = SettlePolls] \in AquaGoals /\ [v EXCEPT !.settle = SettlePolls].phase # "Submit"
  BY <1>1 DEF AquaGoals
<1>3. key \in Keys
  BY DEF Keys
<1> QED BY <1>2, <1>3, AquaPlain, Zenon DEF IssueAndSettle

LEMMA MenuObserved ==
  ASSUME NEW r \in RouteType, NEW page \in PageType
  PROVE  ObserveMenuPage(r, page) \in RouteType
<1> DEFINE at == FindButtonContaining(page, "AquaPure")
<1>1. at \in Nat \cup {NoIndex}
  BY ButtonPlace
<1>2. NoIndex \in Nat \cup {NoIndex}
  OBVIOUS
<1>3. ObserveMenuPage(r, page) \in {r, [index |-> at, unavailable |-> FALSE], [r EXCEPT !.index = NoIndex]}
  BY DEF ObserveMenuPage
<1> HIDE DEF at
<1>4. [index |-> at, unavailable |-> FALSE] \in RouteType
  BY <1>1 DEF RouteType
<1>5. [r EXCEPT !.index = NoIndex] \in RouteType
  BY <1>2 DEF RouteType
<1> QED BY <1>3, <1>4, <1>5

AquaStepped(w, page, both) == AquaStep(w, page, both.step) /\ both.route \in RouteType

LEMMA AquaNavigates ==
  ASSUME NEW w \in AquaGoals, w.phase = "Navigate", NEW page \in PageType, NEW r \in RouteType
  PROVE  AquaStepped(w, page, StepNavigate(w, page, r))
<1> DEFINE seen == ObserveMenuPage(r, page)
           u == [w EXCEPT !.unwinds = 0]
           v == [w EXCEPT !.tries = @ + 1]
           x == [w EXCEPT !.unwinds = @ + 1]
           key == IF seen.index # NoIndex THEN ButtonKey(seen.index) ELSE 25
           unlisted == [seen EXCEPT !.unavailable = TRUE]
<1>1. seen \in RouteType
  BY MenuObserved
<1>2. w.tries + 1 \in Nat /\ w.unwinds + 1 \in Nat /\ 0 \in Nat
  BY DEF AquaGoals
<1>3. u \in AquaGoals /\ u.phase # "Submit"
  BY <1>2 DEF AquaGoals
<1>4. v \in AquaGoals /\ v.phase # "Submit"
  BY <1>2 DEF AquaGoals
<1>5. x \in AquaGoals /\ x.phase # "Submit"
  BY <1>2 DEF AquaGoals
<1> HIDE DEF seen
<1>6. key \in Nat
  BY <1>1 DEF RouteType, ButtonKey
<1>7. unlisted \in RouteType
  BY <1>1 DEF RouteType
<1> DEFINE arrived == [step |-> Turn(u, "SelectField"), route |-> r]
           refused == [step |-> Turn(v, "Failed"), route |-> unlisted]
           opening == [step |-> IssueAndSettle(v, key), route |-> seen]
           unwound == [step |-> Turn(x, "Failed"), route |-> r]
           leaving == [step |-> IssueAndSettle(x, KeyBack), route |-> r]
<1>8. StepNavigate(w, page, r) =
        CASE page.id = SwgPage -> arrived
          [] page.id = Menu /\ w.tries >= MaxMenuTries -> refused
          [] page.id = Menu /\ w.tries < MaxMenuTries -> opening
          [] OTHER -> [step |-> IF w.unwinds >= MaxUnwind THEN Turn(x, "Failed") ELSE IssueAndSettle(x, KeyBack), route |-> r]
  BY DEF StepNavigate, seen
<1> HIDE DEF u, v, x, key, unlisted
<1>9. w.tries \in Int /\ MaxMenuTries \in Int
  BY WriterConstants DEF AquaGoals
<1>10. \/ page.id = SwgPage /\ StepNavigate(w, page, r) = arrived
       \/ page.id = Menu /\ StepNavigate(w, page, r) \in {refused, opening}
       \/ StepNavigate(w, page, r) \in {unwound, leaving}
  <2>1. SwgPage # Menu
    BY DEF SwgPage, Menu
  <2>2. CASE page.id = SwgPage
    BY <1>8, <2>1, <2>2, Zenon
  <2>3. CASE page.id = Menu
    <3>1. page.id # SwgPage
      BY <2>1, <2>3
    <3>2. \/ w.tries >= MaxMenuTries /\ ~(w.tries < MaxMenuTries)
          \/ ~(w.tries >= MaxMenuTries) /\ w.tries < MaxMenuTries
      BY <1>9
    <3> QED BY <1>8, <2>3, <3>1, <3>2, Zenon
  <2>4. CASE page.id # SwgPage /\ page.id # Menu
    BY <1>8, <2>4, Zenon
  <2> QED BY <2>2, <2>3, <2>4
<1>11. AquaStepped(w, page, arrived)
  BY <1>3, AquaTurns DEF AquaStepped
<1>12. AquaStepped(w, page, refused)
  BY <1>4, <1>7, AquaTurns DEF AquaStepped
<1>13. ASSUME page.id = Menu PROVE AquaStepped(w, page, opening)
  <2>1. page.id \notin ValuePages
    BY <1>13 DEF ValuePages, Menu, TimePage, SwgPage, SetTempPage
  <2> QED BY <1>1, <1>4, <1>6, <2>1, AquaPresses DEF AquaStepped
<1>14. AquaStepped(w, page, unwound)
  BY <1>5, AquaTurns DEF AquaStepped
<1>15. AquaStepped(w, page, leaving)
  <2>1. KeyBack \in Nat /\ KeyBack # KeySubmit
    BY DEF KeyBack, KeySubmit
  <2> QED BY <1>5, <2>1, AquaPresses DEF AquaStepped
<1> HIDE DEF arrived, refused, opening, unwound, leaving
<1> QED BY <1>10, <1>11, <1>12, <1>13, <1>14, <1>15

(* On the AquaPure page the key of a goal's field is the one of its body.  *)
LEMMA FieldIsFound ==
  ASSUME NEW page \in PageType, page.id = SwgPage, Shown(page), NEW body \in {"Pool", "Spa", "Boost"}
  PROVE  FindButtonContaining(page, body) # NoIndex /\ ButtonKey(FindButtonContaining(page, body)) = FieldKey(body)
<1> DEFINE at == {i \in DOMAIN page.buttons : page.buttons[i] = body}
           place == CASE body = "Pool" -> 0 [] body = "Spa" -> 1 [] OTHER -> 2
<1>1. Buttons(SwgPage) = [i \in 0..2 |-> SwgFields[i + 1]]
  <2>1. SwgPage # Home /\ SwgPage # Menu /\ SwgPage # SetupPage
    BY DEF SwgPage, Home, Menu, SetupPage
  <2> QED BY <2>1, Zenon DEF Buttons
<1>2. page.buttons = [i \in 0..2 |-> SwgFields[i + 1]]
  BY <1>1 DEF Shown
<1>3. DOMAIN page.buttons = 0..2 /\ page.buttons[0] = "Pool" /\ page.buttons[1] = "Spa" /\ page.buttons[2] = "Boost"
  BY <1>2 DEF SwgFields
<1>4. at = {place}
  <2>1. \A i \in 0..2 : i = 0 \/ i = 1 \/ i = 2
    OBVIOUS
  <2>2. 0 \in 0..2 /\ 1 \in 0..2 /\ 2 \in 0..2
    OBVIOUS
  <2> QED BY <1>3, <2>1, <2>2
<1>5. FindButtonContaining(page, body) = IF at = {} THEN NoIndex ELSE CHOOSE i \in at : \A j \in at : i <= j
  BY DEF FindButtonContaining
<1>6. place \in {0, 1, 2}
  OBVIOUS
<1> HIDE DEF at
<1>7. FindButtonContaining(page, body) = place
  <2>1. \A i : i \in at <=> i = place
    BY <1>4
  <2>2. place <= place
    BY <1>6
  <2> HIDE DEF place
  <2> QED BY <1>4, <1>5, <2>1, <2>2
<1> QED BY <1>7 DEF NoIndex, ButtonKey, FieldKey

LEMMA AquaSelects ==
  ASSUME NEW w \in AquaGoals, w.phase = "SelectField", NEW page \in PageType
  PROVE  AquaStep(w, page, StepSelectField(w, page))
<1> DEFINE at == FindButtonContaining(page, w.body)
           v == [w EXCEPT !.phase = IF w.op = "Boost" THEN "ReturnHome" ELSE "Submit", !.settle = SettlePolls]
           pressed == Result(v, ButtonKey(at), NoArm, "no")
<1>1. at \in Nat \cup {NoIndex}
  BY ButtonPlace
<1>2. SettlePolls \in 0..SettlePolls
  BY WriterConstants
<1>3. v \in AquaGoals /\ v.body = w.body
  BY <1>2 DEF AquaGoals
<1>4. IssueAndSettle([w EXCEPT !.phase = IF w.op = "Boost" THEN "ReturnHome" ELSE "Submit"], ButtonKey(at)) = pressed
  BY DEF IssueAndSettle, AquaGoals
<1>5. \/ StepSelectField(w, page) \in {Turn(w, "Navigate"), Dwell(w), Turn(w, "Failed")}
      \/ page.id = SwgPage /\ at # NoIndex /\ StepSelectField(w, page) = pressed
  BY <1>4 DEF StepSelectField
<1> HIDE DEF at, v
<1>6. AquaStep(w, page, Turn(w, "Navigate")) /\ AquaStep(w, page, Dwell(w)) /\ AquaStep(w, page, Turn(w, "Failed"))
  BY AquaTurns, AquaDwells
<1>7. ASSUME page.id = SwgPage, at # NoIndex PROVE AquaStep(w, page, pressed)
  <2>1. ButtonKey(at) \in Keys
    BY <1>1, <1>7 DEF ButtonKey, Keys
  <2>2. pressed \in Results(AquaGoals)
    BY <1>3, <2>1, NothingArmed DEF Result, Results, Overs
  <2>3. ASSUME Shown(page) PROVE AquaKeys(w, page, pressed)
    <3>1. w.body \in {"Pool", "Spa", "Boost"}
      BY DEF AquaGoals
    <3>2. ButtonKey(at) = FieldKey(w.body)
      BY <1>7, <2>3, <3>1, FieldIsFound DEF at
    <3>3. FieldKey(w.body) # KeySubmit
      BY DEF FieldKey, KeySubmit
    <3> QED BY <1>3, <1>7, <3>2, <3>3 DEF AquaKeys, Result
  <2> QED BY <2>2, <2>3 DEF AquaStep
<1> HIDE DEF pressed
<1> QED BY <1>5, <1>6, <1>7

LEMMA AquaSubmits ==
  ASSUME NEW w \in AquaGoals, w.phase = "Submit", NEW page \in PageType
  PROVE  AquaStep(w, page, StepSubmit(w, page))
<1> DEFINE v == [w EXCEPT !.phase = "ReturnHome", !.settle = SettlePolls]
           value == [field |-> w.body, n |-> w.n]
           sent == Result(v, KeySubmit, value, "no")
<1>1. SettlePolls \in 0..SettlePolls
  BY WriterConstants
<1>2. v \in AquaGoals /\ v.phase = "ReturnHome"
  BY <1>1 DEF AquaGoals
<1>3. value \in Armed /\ value # NoArm /\ value.field = w.body
  <2>1. w.body \in ArmFields /\ w.body # "none" /\ w.n \in Int
    BY DEF AquaGoals, ArmFields
  <2> QED BY <2>1, ArmedValue
<1>4. [IssueAndSettle([w EXCEPT !.phase = "ReturnHome"], KeySubmit) EXCEPT !.arm = value] = sent
  BY DEF IssueAndSettle, Result, AquaGoals
<1>5. StepSubmit(w, page) = IF page.id # SwgPage THEN Turn(w, "Navigate") ELSE sent
  BY <1>4 DEF StepSubmit
<1> HIDE DEF v, value
<1>6. KeySubmit \in Keys
  BY DEF KeySubmit, Keys
<1>7. sent \in Results(AquaGoals)
  BY <1>2, <1>3, <1>6 DEF Result, Results, Overs
<1>8. ASSUME page.id = SwgPage PROVE AquaKeys(w, page, sent)
  BY <1>2, <1>3, <1>8 DEF AquaKeys, Result
<1> HIDE DEF sent
<1> QED BY <1>5, <1>7, <1>8, AquaTurns DEF AquaStep

LEMMA AquaReturns ==
  ASSUME NEW w \in AquaGoals, w.phase = "ReturnHome", NEW page \in PageType
  PROVE  AquaStep(w, page, StepReturnHome(w, page))
<1> DEFINE x == [w EXCEPT !.unwinds = @ + 1]
<1>1. w.unwinds + 1 \in Nat
  BY DEF AquaGoals
<1>2. x \in AquaGoals /\ x.phase # "Submit"
  BY <1>1 DEF AquaGoals
<1>3. KeyBack \in Nat /\ KeyBack # KeySubmit
  BY DEF KeyBack, KeySubmit
<1>4. StepReturnHome(w, page) \in {FinishGoal(TRUE), IssueAndSettle(x, KeyBack)}
  BY DEF StepReturnHome
<1> HIDE DEF x
<1>5. AquaStep(w, page, IssueAndSettle(x, KeyBack))
  BY <1>2, <1>3, AquaPresses
<1> QED BY <1>4, <1>5, AquaFinishes

LEMMA AquaPureSteps ==
  ASSUME NEW w \in AquaGoals, NEW page \in PageType, NEW r \in RouteType
  PROVE  AquaStepped(w, page, AquaPureStep(w, page, r))
<1> DEFINE n == [w EXCEPT !.polls = @ + 1]
           d == [n EXCEPT !.settle = @ - 1]
           Same(step) == [step |-> step, route |-> r]
           chosen ==
             CASE n.phase = "Navigate"    -> StepNavigate(n, page, r)
               [] n.phase = "SelectField" -> Same(StepSelectField(n, page))
               [] n.phase = "Submit"      -> Same(StepSubmit(n, page))
               [] n.phase = "ReturnHome"  -> Same(StepReturnHome(n, page))
               [] n.phase = "Failed"      -> Same(FinishGoal(FALSE))
<1>0. AquaPureStep(w, page, r) =
        CASE w.polls > PollLimit -> Same(FinishGoal(FALSE))
          [] w.polls <= PollLimit /\ w.settle > 0 -> Same(Dwell(d))
          [] OTHER -> chosen
  BY DEF AquaPureStep
<1>1. n.phase = w.phase /\ n.body = w.body /\ n.settle = w.settle
  BY DEF AquaGoals
<1>2. w.polls \in Int /\ w.settle \in Nat /\ PollLimit \in Int /\ w.settle <= SettlePolls /\ SettlePolls \in Int
  BY WriterConstants DEF AquaGoals
<1>3. ASSUME w.polls <= PollLimit PROVE n \in AquaGoals
  <2>0. w.polls \in Nat /\ PollLimit \in Nat
    BY WriterConstants DEF AquaGoals
  <2>1. w.polls + 1 \in 0..(PollLimit + 1)
    BY <1>3, <2>0
  <2> QED BY <2>1 DEF AquaGoals
<1>4. ASSUME w.polls <= PollLimit, w.settle > 0 PROVE d \in AquaGoals /\ d.phase = w.phase /\ d.body = w.body
  <2>1. n.settle - 1 \in 0..SettlePolls
    BY <1>1, <1>2, <1>4
  <2>2. n \in AquaGoals
    BY <1>3, <1>4
  <2> HIDE DEF n
  <2>3. d \in AquaGoals /\ d.phase = n.phase /\ d.body = n.body
    BY <2>1, <2>2 DEF AquaGoals
  <2> QED BY <1>1, <2>3
<1>5. ASSUME NEW m \in AquaGoals, m.phase = w.phase, m.body = w.body, NEW s, AquaStep(m, page, s)
      PROVE  AquaStep(w, page, s)
  BY <1>5 DEF AquaStep, AquaKeys
<1>6. n.phase \in {"Navigate", "SelectField", "Submit", "ReturnHome", "Failed"}
  BY <1>1 DEF AquaGoals
<1>7. ASSUME NEW s, AquaStep(w, page, s) PROVE AquaStepped(w, page, Same(s))
  BY <1>7 DEF AquaStepped
<1> HIDE DEF n, d, chosen, Same
<1>8. CASE w.polls > PollLimit
  <2>1. w.polls > PollLimit /\ ~(w.polls <= PollLimit /\ w.settle > 0)
    BY <1>2, <1>8
  <2>2. AquaPureStep(w, page, r) = Same(FinishGoal(FALSE))
    BY <1>0, <2>1, Zenon
  <2> QED BY <1>7, <2>2, AquaFinishes
<1>9. CASE w.polls <= PollLimit /\ w.settle > 0
  <2>1. ~(w.polls > PollLimit) /\ (w.polls <= PollLimit /\ w.settle > 0)
    BY <1>2, <1>9
  <2>2. AquaPureStep(w, page, r) = Same(Dwell(d))
    BY <1>0, <2>1, Zenon
  <2> QED BY <1>4, <1>7, <1>9, <2>2, AquaDwells
<1>10. CASE w.polls <= PollLimit /\ ~(w.settle > 0)
  <2>1. ~(w.polls > PollLimit) /\ ~(w.polls <= PollLimit /\ w.settle > 0)
    BY <1>2, <1>10
  <2>2. AquaPureStep(w, page, r) = chosen
    BY <1>0, <2>1, Zenon
  <2>3. n \in AquaGoals
    BY <1>3, <1>10
  <2>4. ASSUME NEW s, AquaStep(n, page, s) PROVE AquaStepped(w, page, Same(s))
    BY <1>1, <1>5, <1>7, <2>3, <2>4
  <2>5. n.phase = "Navigate" => AquaStepped(w, page, StepNavigate(n, page, r))
    <3>1. n.phase = "Navigate" => AquaStepped(n, page, StepNavigate(n, page, r))
      BY <2>3, AquaNavigates
    <3> QED BY <1>1, <1>5, <2>3, <3>1 DEF AquaStepped
  <2>6. n.phase = "SelectField" => AquaStepped(w, page, Same(StepSelectField(n, page)))
    BY <2>3, <2>4, AquaSelects
  <2>7. n.phase = "Submit" => AquaStepped(w, page, Same(StepSubmit(n, page)))
    BY <2>3, <2>4, AquaSubmits
  <2>8. n.phase = "ReturnHome" => AquaStepped(w, page, Same(StepReturnHome(n, page)))
    BY <2>3, <2>4, AquaReturns
  <2>9. AquaStepped(w, page, Same(FinishGoal(FALSE)))
    BY <1>7, AquaFinishes
  <2>10. AquaStepped(w, page, chosen)
    BY <1>6, <2>5, <2>6, <2>7, <2>8, <2>9 DEF chosen
  <2> QED BY <2>2, <2>10
<1>11. w.polls > PollLimit \/ w.polls <= PollLimit
  BY <1>2
<1> QED BY <1>8, <1>9, <1>10, <1>11

(***************************************************************************)
(* The spa-switch writer arms nothing.                                     *)
(***************************************************************************)

SpaStep(w, page, s) ==
  s \in Results(SpaGoals) /\ s.arm = NoArm /\ (s.cmd = KeySubmit => page.id \notin ValuePages)

LEMMA SpaPlain ==
  ASSUME NEW w \in SpaGoals, NEW v \in SpaGoals, NEW page \in PageType, NEW key \in Keys,
         key = KeySubmit => page.id \notin ValuePages
  PROVE  SpaStep(w, page, Result(v, key, NoArm, "no"))
BY NothingArmed DEF SpaStep, Result, Results, Overs

LEMMA SpaDwells ==
  ASSUME NEW w \in SpaGoals, NEW v \in SpaGoals, NEW page \in PageType
  PROVE  SpaStep(w, page, Dwell(v))
<1>1. KeyDwell \in Keys /\ KeyDwell # KeySubmit
  BY DEF KeyDwell, Keys, KeySubmit
<1> QED BY <1>1, SpaPlain DEF Dwell

LEMMA SpaFinishes ==
  ASSUME NEW w \in SpaGoals, NEW page \in PageType, NEW ok \in BOOLEAN
  PROVE  SpaStep(w, page, FinishGoal(ok))
BY NothingArmed DEF SpaStep, FinishGoal, Result, Results, KeyDwell, Keys, Overs, KeySubmit

LEMMA SpaTurns ==
  ASSUME NEW w \in SpaGoals, NEW v \in SpaGoals, NEW page \in PageType,
         NEW phase \in {"Navigate", "SelectRow", "FindFunction"}
  PROVE  SpaStep(w, page, Turn(v, phase))
<1>1. [v EXCEPT !.phase = phase] \in SpaGoals
  BY DEF SpaGoals
<1>2. Keep \in Keys /\ Keep # KeySubmit
  BY DEF Keys, Keep, KeySubmit
<1> QED BY <1>1, <1>2, SpaPlain, Zenon DEF Turn

LEMMA SpaPresses ==
  ASSUME NEW w \in SpaGoals, NEW v \in SpaGoals, NEW page \in PageType, NEW key \in Nat,
         key = KeySubmit => page.id \notin ValuePages
  PROVE  SpaStep(w, page, IssueAndSettle(v, key))
<1>1. SettlePolls \in 0..SettlePolls
  BY WriterConstants
<1>2. [v EXCEPT !.settle = SettlePolls] \in SpaGoals
  BY <1>1 DEF SpaGoals
<1>3. key \in Keys
  BY DEF Keys
<1> QED BY <1>2, <1>3, SpaPlain, Zenon DEF IssueAndSettle

LEMMA SpaNavigates ==
  ASSUME NEW w \in SpaGoals, NEW page \in PageType
  PROVE  SpaStep(w, page, SpaStepNavigate(w, page))
<1> DEFINE at == FindButtonContaining(page, "Spa Remotes")
<1>1. at \in Nat \cup {NoIndex}
  BY ButtonPlace
<1>2. \/ SpaStepNavigate(w, page) \in
            {Turn(w, "SelectRow"), Dwell(w), IssueAndSettle(w, 22), IssueAndSettle(w, 21), IssueAndSettle(w, KeyBack)}
      \/ page.id = SetupPage /\ at # NoIndex /\ SpaStepNavigate(w, page) = IssueAndSettle(w, ButtonKey(at))
  <2>1. DetailPage # RemotesPage /\ DetailPage # SetupPage /\ DetailPage # Menu
        /\ RemotesPage # SetupPage /\ RemotesPage # Menu /\ SetupPage # Menu
    BY DEF SetupPage, DetailPage, RemotesPage, Menu
  <2>2. CASE page.id = DetailPage
    BY <2>1, <2>2, Zenon DEF SpaStepNavigate
  <2>3. CASE page.id = RemotesPage
    BY <2>1, <2>3, Zenon DEF SpaStepNavigate
  <2>4. CASE page.id = SetupPage
    <3>1. SpaStepNavigate(w, page) = IF at = NoIndex THEN Dwell(w) ELSE IssueAndSettle(w, ButtonKey(at))
      BY <2>1, <2>4, Zenon DEF SpaStepNavigate
    <3> QED BY <2>4, <3>1
  <2>5. CASE page.id = Menu
    BY <2>1, <2>5, Zenon DEF SpaStepNavigate
  <2>6. CASE page.id \notin {DetailPage, RemotesPage, SetupPage, Menu}
    BY <2>6, Zenon DEF SpaStepNavigate
  <2> QED BY <2>2, <2>3, <2>4, <2>5, <2>6
<1> HIDE DEF at
<1>3. KeyBack \in Nat /\ KeyBack # KeySubmit /\ 22 # KeySubmit /\ 21 # KeySubmit
  BY DEF KeyBack, KeySubmit
<1>4. /\ SpaStep(w, page, IssueAndSettle(w, 22))
      /\ SpaStep(w, page, IssueAndSettle(w, 21))
      /\ SpaStep(w, page, IssueAndSettle(w, KeyBack))
  BY <1>3, SpaPresses
<1>5. ASSUME page.id = SetupPage, at # NoIndex PROVE SpaStep(w, page, IssueAndSettle(w, ButtonKey(at)))
  <2>1. ButtonKey(at) \in Nat
    BY <1>1, <1>5 DEF ButtonKey
  <2>2. page.id \notin ValuePages
    BY <1>5 DEF ValuePages, SetupPage, TimePage, SwgPage, SetTempPage
  <2> QED BY <2>1, <2>2, SpaPresses
<1>6. SpaStep(w, page, Turn(w, "SelectRow")) /\ SpaStep(w, page, Dwell(w))
  BY SpaTurns, SpaDwells
<1> QED BY <1>2, <1>4, <1>5, <1>6

LEMMA SpaSelects ==
  ASSUME NEW w \in SpaGoals, NEW page \in PageType
  PROVE  SpaStep(w, page, SpaStepSelectRow(w, page))
<1> DEFINE n == [w EXCEPT !.phase = "FindFunction", !.first = "unseen", !.selected = TRUE]
<1>1. n \in SpaGoals
  <2>1. "unseen" \in Texts
    BY SomeTexts
  <2> QED BY <2>1 DEF SpaGoals
<1>2. 21 + w.ordinal \in Nat
  BY DEF SpaGoals
<1>3. \/ SpaStepSelectRow(w, page) \in {Turn(w, "Navigate"), Turn(n, "FindFunction")}
      \/ page.id = DetailPage /\ SpaStepSelectRow(w, page) = IssueAndSettle(n, 21 + w.ordinal)
  BY DEF SpaStepSelectRow
<1> HIDE DEF n
<1>4. ASSUME page.id = DetailPage PROVE SpaStep(w, page, IssueAndSettle(n, 21 + w.ordinal))
  <2>1. page.id \notin ValuePages
    BY <1>4 DEF ValuePages, DetailPage, TimePage, SwgPage, SetTempPage
  <2> QED BY <1>1, <1>2, <2>1, SpaPresses
<1> QED BY <1>1, <1>3, <1>4, SpaTurns

LEMMA SpaFinds ==
  ASSUME NEW w \in SpaGoals, NEW page \in PageType
  PROVE  SpaStep(w, page, SpaStepFindFunction(w, page))
<1> DEFINE slots == {i \in DOMAIN page.picker : page.picker[i] = w.function}
           first == CHOOSE i \in slots : \A j \in slots : i <= j
           signature == IF page.picker = <<>> THEN "" ELSE page.picker[1]
           n == [w EXCEPT !.scrolls = @ + 1, !.first = IF @ = "unseen" THEN signature ELSE @]
           v == [w EXCEPT !.phase = "Verify"]
<1>1. v \in SpaGoals
  BY DEF SpaGoals
<1>2. slots \in SUBSET Nat
  BY DEF PageType
<1>3. signature \in Texts
  <2>1. page.picker \in Seq(Texts)
    BY DEF PageType
  <2>2. CASE page.picker = <<>>
    BY <2>2, SomeTexts
  <2>3. CASE page.picker # <<>>
    <3>1. page.picker[1] \in Texts
      BY <2>1, <2>3, EmptySeq, ElementOfSeq
    <3> QED BY <2>3, <3>1
  <2> QED BY <2>2, <2>3
<1>4. n \in SpaGoals
  <2>1. w.scrolls + 1 \in Nat /\ w.first \in Texts
    BY DEF SpaGoals
  <2> HIDE DEF signature
  <2> QED BY <1>3, <2>1 DEF SpaGoals
<1>5. \/ SpaStepFindFunction(w, page) = Turn(w, "Navigate")
      \/ page.id = DetailPage /\ slots # {} /\ SpaStepFindFunction(w, page) = IssueAndSettle(v, 28 + first)
      \/ SpaStepFindFunction(w, page) \in {FinishGoal(FALSE), IssueAndSettle(n, 21)}
  BY DEF SpaStepFindFunction
<1> HIDE DEF slots, first, signature, n, v
<1>6. ASSUME page.id = DetailPage, slots # {} PROVE SpaStep(w, page, IssueAndSettle(v, 28 + first))
  <2>1. first \in Nat
    BY <1>2, <1>6, FirstPlace DEF first
  <2>2. 28 + first \in Nat
    BY <2>1
  <2>3. page.id \notin ValuePages
    BY <1>6 DEF ValuePages, DetailPage, TimePage, SwgPage, SetTempPage
  <2> QED BY <1>1, <2>2, <2>3, SpaPresses
<1>7. 21 # KeySubmit
  BY DEF KeySubmit
<1>8. SpaStep(w, page, IssueAndSettle(n, 21))
  BY <1>4, <1>7, SpaPresses
<1> QED BY <1>5, <1>6, <1>8, SpaTurns, SpaFinishes

LEMMA SpaSwitchSteps ==
  ASSUME NEW w \in SpaGoals, NEW page \in PageType, NEW assigned
  PROVE  SpaStep(w, page, SpaSwitchStep(w, page, assigned))
<1> DEFINE n == [w EXCEPT !.polls = @ + 1]
           d == [n EXCEPT !.settle = @ - 1]
           chosen ==
             CASE n.phase = "Navigate"     -> SpaStepNavigate(n, page)
               [] n.phase = "SelectRow"    -> SpaStepSelectRow(n, page)
               [] n.phase = "FindFunction" -> SpaStepFindFunction(n, page)
               [] n.phase = "Verify"       -> SpaStepVerify(n, assigned)
<1>0. SpaSwitchStep(w, page, assigned) =
        CASE n.polls > PollLimit -> FinishGoal(FALSE)
          [] n.polls <= PollLimit /\ n.settle > 0 -> Dwell(d)
          [] OTHER -> chosen
  BY DEF SpaSwitchStep
<1>1. n.polls = w.polls + 1 /\ n.phase = w.phase /\ n.settle = w.settle
  BY DEF SpaGoals
<1>2. w.polls \in Nat /\ w.settle \in Nat /\ PollLimit \in Nat /\ w.settle <= SettlePolls /\ SettlePolls \in Nat
  BY WriterConstants DEF SpaGoals
<1>3. ASSUME n.polls <= PollLimit PROVE n \in SpaGoals
  <2>1. w.polls + 1 \in 0..PollLimit
    BY <1>1, <1>2, <1>3
  <2> QED BY <2>1 DEF SpaGoals
<1>4. ASSUME n.polls <= PollLimit, n.settle > 0 PROVE d \in SpaGoals
  <2>1. n.settle - 1 \in 0..SettlePolls
    BY <1>1, <1>2, <1>4
  <2>2. n \in SpaGoals
    BY <1>3, <1>4
  <2> HIDE DEF n
  <2> QED BY <2>1, <2>2 DEF SpaGoals
<1>5. ASSUME NEW m, NEW s, SpaStep(m, page, s) PROVE SpaStep(w, page, s)
  BY <1>5 DEF SpaStep
<1>6. n.phase \in {"Navigate", "SelectRow", "FindFunction", "Verify"}
  BY <1>1 DEF SpaGoals
<1> HIDE DEF n, d, chosen
<1>7. CASE n.polls > PollLimit
  <2>1. n.polls > PollLimit /\ ~(n.polls <= PollLimit /\ n.settle > 0)
    BY <1>1, <1>2, <1>7
  <2>2. SpaSwitchStep(w, page, assigned) = FinishGoal(FALSE)
    BY <1>0, <2>1, Zenon
  <2> QED BY <2>2, SpaFinishes
<1>8. CASE n.polls <= PollLimit /\ n.settle > 0
  <2>1. ~(n.polls > PollLimit) /\ (n.polls <= PollLimit /\ n.settle > 0)
    BY <1>1, <1>2, <1>8
  <2>2. SpaSwitchStep(w, page, assigned) = Dwell(d)
    BY <1>0, <2>1, Zenon
  <2> QED BY <1>4, <1>8, <2>2, SpaDwells
<1>9. CASE n.polls <= PollLimit /\ ~(n.settle > 0)
  <2>1. ~(n.polls > PollLimit) /\ ~(n.polls <= PollLimit /\ n.settle > 0)
    BY <1>1, <1>2, <1>9
  <2>2. SpaSwitchStep(w, page, assigned) = chosen
    BY <1>0, <2>1, Zenon
  <2>3. n \in SpaGoals
    BY <1>3, <1>9
  <2>4. SpaStep(n, page, SpaStepVerify(n, assigned))
    BY <2>3, SpaFinishes, SpaDwells DEF SpaStepVerify
  <2>5. SpaStep(n, page, chosen)
    BY <1>6, <2>3, <2>4, SpaNavigates, SpaSelects, SpaFinds DEF chosen
  <2> QED BY <1>5, <2>2, <2>5
<1>10. n.polls > PollLimit \/ n.polls <= PollLimit
  BY <1>1, <1>2
<1> QED BY <1>7, <1>8, <1>9, <1>10

(***************************************************************************)
(* The panel: what a key press and a value may change.                     *)
(***************************************************************************)

Messages ==
  [kind : {"PageStart"}, page : Pages]
  \cup [kind : {"Row"}, row : RowType]
  \cup [kind : {"Device"}, target : {"pump"}]
  \cup [kind : {"Meridiem"}, text : Texts]
  \cup [kind : {"Assigned"}, function : Texts]
  \cup [kind : {"Functions"}, shown : Seq(Texts)]
  \cup [kind : {"Buttons"}, names : PaintedButtons]
  \cup [kind : {"PageEnd"}]

BoxType ==
  [page : Pages, rows : Seq(RowType), row : Nat, editing : BOOLEAN, dialog : BOOLEAN, clicked : BOOLEAN,
   field : BoxFields, pm : BOOLEAN, ready : BOOLEAN, wrong : BOOLEAN, light : BOOLEAN, hasAquaPure : BOOLEAN,
   window : {1, 2}, chosen : Int, assigned : Texts, paint : Seq(Messages)]

(* A row is highlighted, and a dialog open, only for a row of the list.    *)
BoxOK(b) == b \in BoxType /\ b.row <= Len(b.rows) /\ (b.dialog => b.row # 0)

(* What the panel paints depends on these parts only.                      *)
SamePicture(b, c) ==
  c.page = b.page /\ c.rows = b.rows /\ c.pm = b.pm /\ c.assigned = b.assigned /\ c.window = b.window

(* Either the page is painted anew or the painting goes on.                *)
Drawn(b, c) == c.paint = Paint(c) \/ (c.paint = b.paint /\ SamePicture(b, c))

Middle(page, rows, pm, assigned, window) ==
  CASE page = SchedulePage -> [i \in DOMAIN rows |-> [kind |-> "Row", row |-> rows[i]]]
    [] page = PickerPage   -> <<[kind |-> "Device", target |-> "pump"]>>
    [] page = TimePage     -> <<[kind |-> "Meridiem", text |-> IF pm THEN "PM" ELSE "AM"]>>
    [] page = DetailPage   -> <<[kind |-> "Assigned", function |-> assigned],
                                [kind |-> "Functions", shown |-> PickerWindows[window]]>>
    [] OTHER               -> <<[kind |-> "Buttons", names |-> Buttons(page)]>>

LEMMA PaintIs ==
  ASSUME NEW b
  PROVE  Paint(b) = <<[kind |-> "PageStart", page |-> b.page]>>
                    \o Middle(b.page, b.rows, b.pm, b.assigned, b.window) \o <<[kind |-> "PageEnd"]>>
BY DEF Paint, Middle

LEMMA SamePaint ==
  ASSUME NEW b, NEW c, SamePicture(b, c)
  PROVE  Paint(c) = Paint(b)
<1>1. Paint(b) = <<[kind |-> "PageStart", page |-> b.page]>>
                 \o Middle(b.page, b.rows, b.pm, b.assigned, b.window) \o <<[kind |-> "PageEnd"]>>
  BY PaintIs
<1>2. Paint(c) = <<[kind |-> "PageStart", page |-> c.page]>>
                 \o Middle(c.page, c.rows, c.pm, c.assigned, c.window) \o <<[kind |-> "PageEnd"]>>
  BY PaintIs
<1> QED BY <1>1, <1>2, Zenon DEF SamePicture

LEMMA ShortSequences ==
  ASSUME NEW S, NEW x \in S, NEW y \in S
  PROVE  <<x>> \in Seq(S) /\ <<x, y>> \in Seq(S) /\ Len(<<x>>) = 1 /\ Len(<<x, y>>) = 2
OBVIOUS

LEMMA PaintedPagesDiffer ==
  /\ PickerPage # SchedulePage
  /\ TimePage # SchedulePage /\ TimePage # PickerPage
  /\ DetailPage # SchedulePage /\ DetailPage # PickerPage /\ DetailPage # TimePage
  /\ SwgPage # SchedulePage /\ SwgPage # PickerPage /\ SwgPage # TimePage /\ SwgPage # DetailPage
BY DEF PickerPage, SchedulePage, TimePage, DetailPage, SwgPage

LEMMA MiddleType ==
  ASSUME NEW b \in BoxType
  PROVE  Middle(b.page, b.rows, b.pm, b.assigned, b.window) \in Seq(Messages)
<1> DEFINE m == Middle(b.page, b.rows, b.pm, b.assigned, b.window)
<1> SUFFICES m \in Seq(Messages)
  OBVIOUS
<1>1. b.page \in Pages /\ b.rows \in Seq(RowType) /\ b.assigned \in Texts /\ b.window \in {1, 2}
  BY DEF BoxType
<1>2. CASE b.page = SchedulePage
  <2>1. m = [i \in DOMAIN b.rows |-> [kind |-> "Row", row |-> b.rows[i]]]
    BY <1>2, PaintedPagesDiffer, Zenon DEF Middle
  <2>2. DOMAIN b.rows = 1..Len(b.rows) /\ Len(b.rows) \in Nat
    BY <1>1
  <2>3. ASSUME NEW i \in 1..Len(b.rows) PROVE [kind |-> "Row", row |-> b.rows[i]] \in Messages
    <3>1. b.rows[i] \in RowType
      BY <1>1, <2>3, ElementOfSeq
    <3> QED BY <3>1 DEF Messages
  <2> HIDE DEF m
  <2> QED BY <2>1, <2>2, <2>3
<1>3. CASE b.page = PickerPage
  <2>1. m = <<[kind |-> "Device", target |-> "pump"]>>
    BY <1>3, PaintedPagesDiffer, Zenon DEF Middle
  <2>2. [kind |-> "Device", target |-> "pump"] \in Messages
    BY DEF Messages
  <2> HIDE DEF m
  <2> QED BY <2>1, <2>2, ShortSequences
<1>4. CASE b.page = TimePage
  <2>1. m = <<[kind |-> "Meridiem", text |-> IF b.pm THEN "PM" ELSE "AM"]>>
    BY <1>4, PaintedPagesDiffer, Zenon DEF Middle
  <2>2. (IF b.pm THEN "PM" ELSE "AM") \in Texts
    BY SomeTexts
  <2>3. [kind |-> "Meridiem", text |-> IF b.pm THEN "PM" ELSE "AM"] \in Messages
    BY <2>2 DEF Messages
  <2> HIDE DEF m
  <2> QED BY <2>1, <2>3, ShortSequences
<1>5. CASE b.page = DetailPage
  <2>1. m = <<[kind |-> "Assigned", function |-> b.assigned], [kind |-> "Functions", shown |-> PickerWindows[b.window]]>>
    BY <1>5, PaintedPagesDiffer, Zenon DEF Middle
  <2>2. PickerWindows[b.window] \in Seq(Texts)
    <3>1. PickerWindows[1] = <<"Pump">> /\ PickerWindows[2] = <<"Light">>
      BY DEF PickerWindows
    <3>2. "Pump" \in Texts /\ "Light" \in Texts
      BY SomeTexts
    <3>3. <<"Pump">> \in Seq(Texts) /\ <<"Light">> \in Seq(Texts)
      BY <3>2, ShortSequences
    <3> QED BY <1>1, <3>1, <3>3
  <2>3. [kind |-> "Assigned", function |-> b.assigned] \in Messages
    BY <1>1 DEF Messages
  <2>4. [kind |-> "Functions", shown |-> PickerWindows[b.window]] \in Messages
    BY <2>2 DEF Messages
  <2> HIDE DEF m
  <2> QED BY <2>1, <2>3, <2>4, ShortSequences
<1>6. CASE b.page \notin {SchedulePage, PickerPage, TimePage, DetailPage}
  <2>1. m = <<[kind |-> "Buttons", names |-> Buttons(b.page)]>>
    BY <1>6, Zenon DEF Middle
  <2>2. Buttons(b.page) \in PaintedButtons
    BY <1>1 DEF PaintedButtons
  <2>3. [kind |-> "Buttons", names |-> Buttons(b.page)] \in Messages
    BY <2>2 DEF Messages
  <2> HIDE DEF m
  <2> QED BY <2>1, <2>3, ShortSequences
<1> QED BY <1>2, <1>3, <1>4, <1>5, <1>6

LEMMA PaintType ==
  ASSUME NEW b \in BoxType
  PROVE  Paint(b) \in Seq(Messages)
<1>1. [kind |-> "PageStart", page |-> b.page] \in Messages
  BY DEF BoxType, Messages
<1>2. [kind |-> "PageEnd"] \in Messages
  BY DEF Messages
<1> DEFINE m == Middle(b.page, b.rows, b.pm, b.assigned, b.window)
<1>3. m \in Seq(Messages)
  BY MiddleType
<1>4. Paint(b) = <<[kind |-> "PageStart", page |-> b.page]>> \o m \o <<[kind |-> "PageEnd"]>>
  BY PaintIs
<1> DEFINE first == [kind |-> "PageStart", page |-> b.page]
           last == [kind |-> "PageEnd"]
<1> HIDE DEF m, first, last
<1>5. <<first>> \in Seq(Messages) /\ <<last>> \in Seq(Messages)
  BY <1>1, <1>2 DEF first, last
<1>6. <<first>> \o m \in Seq(Messages)
  BY <1>3, <1>5, ConcatProperties
<1>7. <<first>> \o m \o <<last>> \in Seq(Messages)
  BY <1>5, <1>6, ConcatProperties
<1> QED BY <1>4, <1>7 DEF first, last

(* How a key press may move the panel: a value is asked for only after the *)
(* submit key with a field highlighted, and a field is highlighted only on *)
(* its page.                                                               *)
Moves(b, key, c) ==
  /\ c.wrong = b.wrong
  /\ c.ready /\ ~b.ready =>
       key = KeySubmit /\ b.page \in ValuePages /\ c.page = b.page /\ c.field = b.field
  /\ key = KeySubmit /\ (b.page = TimePage \/ (b.page = SwgPage /\ b.field # "none")) => c.ready
  /\ key = KeyBack => c.page \notin {TimePage, SwgPage}
  /\ key \in {17, 20} /\ b.page \notin {TimePage, SwgPage} => c.page \notin {TimePage, SwgPage}
  /\ key = 17 /\ c.page = SetTempPage => c.field = "heatPool"
  /\ c.page = TimePage =>
       \/ b.page = TimePage /\ c.field = b.field
       \/ b.page = SchedulePage /\ key = 33 /\ c.field = "on"
       \/ b.page = SchedulePage /\ key = 34 /\ c.field = "off"
  /\ c.page = SwgPage =>
       /\ key = 17 => c.field = "Pool"
       /\ key = 18 => c.field = "Spa"
       /\ key = 19 => c.field = "Boost"
       /\ key = KeyDwell => b.page = SwgPage /\ c.field = b.field

PressStep(b, key, c) == BoxOK(c) /\ Drawn(b, c) /\ Moves(b, key, c)

LEMMA PaintedAgain ==
  ASSUME NEW b, BoxOK(b), NEW c, c = Repainted(b)
  PROVE  /\ BoxOK(c)
         /\ c.paint = Paint(c)
         /\ c.page = b.page /\ c.field = b.field /\ c.ready = b.ready /\ c.wrong = b.wrong
<1>1. Paint(b) \in Seq(Messages)
  BY PaintType DEF BoxOK
<1>2. c = [b EXCEPT !.paint = Paint(b)]
  BY DEF Repainted
<1>3. BoxOK(c) /\ c.paint = Paint(b) /\ SamePicture(b, c)
      /\ c.page = b.page /\ c.field = b.field /\ c.ready = b.ready /\ c.wrong = b.wrong
  BY <1>1, <1>2 DEF BoxOK, BoxType, SamePicture
<1> QED BY <1>3, SamePaint

LEMMA ShownPage ==
  ASSUME NEW b, BoxOK(b), NEW page \in Pages, NEW c, c = Shows(b, page)
  PROVE  /\ BoxOK(c)
         /\ c.paint = Paint(c)
         /\ c.page = page /\ c.field = "none" /\ c.ready = b.ready /\ c.wrong = b.wrong
<1> DEFINE d == [b EXCEPT !.page = page, !.field = "none", !.dialog = FALSE, !.clicked = FALSE]
<1>1. "none" \in BoxFields
  BY DEF BoxFields, ArmFields
<1>2. BoxOK(d) /\ d.page = page /\ d.field = "none" /\ d.ready = b.ready /\ d.wrong = b.wrong
  BY <1>1 DEF BoxOK, BoxType
<1>3. c = Repainted(d)
  BY DEF Shows
<1> HIDE DEF d
<1> QED BY <1>2, <1>3, PaintedAgain

LEMMA NothingPressed ==
  ASSUME NEW b, BoxOK(b), NEW key, ~(key = KeySubmit /\ b.page \in ValuePages),
         ~(key = KeyBack /\ b.page \in ValuePages), ~(key \in {17, 18, 19} /\ b.page \in {SwgPage, SetTempPage})
  PROVE  PressStep(b, key, b)
<1>1. Drawn(b, b)
  BY DEF Drawn, SamePicture
<1>2. Moves(b, key, b)
  BY DEF Moves, ValuePages
<1> QED BY <1>1, <1>2 DEF PressStep

(* A press that changes only what is not painted, off the value pages.     *)
LEMMA PictureStays ==
  ASSUME NEW b, BoxOK(b), NEW key, b.page \notin ValuePages,
         NEW c, BoxOK(c), c.paint = b.paint \/ c.paint = Paint(c), SamePicture(b, c) \/ c.paint = Paint(c),
         c.page = b.page, c.field = b.field, c.ready = b.ready, c.wrong = b.wrong
  PROVE  PressStep(b, key, c)
<1>1. Drawn(b, c)
  BY DEF Drawn
<1>2. Moves(b, key, c)
  BY DEF Moves, ValuePages
<1> QED BY <1>1, <1>2 DEF PressStep

(* A press that shows another page, none of those that take a value.       *)
LEMMA PageShown ==
  ASSUME NEW b, BoxOK(b), NEW key, ~(key = KeySubmit /\ b.page \in ValuePages),
         NEW d, BoxOK(d), d.ready = b.ready, d.wrong = b.wrong, NEW page \in Pages,
         page \notin {TimePage, SwgPage}, page = SetTempPage => key # 17
  PROVE  PressStep(b, key, Shows(d, page))
<1> DEFINE c == Shows(d, page)
<1>1. BoxOK(c) /\ c.paint = Paint(c) /\ c.page = page /\ c.field = "none" /\ c.ready = d.ready /\ c.wrong = d.wrong
  BY ShownPage
<1> HIDE DEF c
<1>2. Drawn(b, c)
  BY <1>1 DEF Drawn
<1>3. Moves(b, key, c)
  BY <1>1 DEF Moves, ValuePages
<1>4. PressStep(b, key, c)
  BY <1>1, <1>2, <1>3 DEF PressStep
<1> QED BY <1>4 DEF c

LEMMA HomePress ==
  ASSUME NEW b, BoxOK(b), b.page = Home, NEW key
  PROVE  PressStep(b, key, PressHome(b, key))
<1>1. b.page \notin ValuePages
  BY DEF ValuePages, Home, TimePage, SwgPage, SetTempPage
<1>2. PressStep(b, key, Shows(b, Menu))
  <2>1. Menu \in Pages /\ Menu \notin {TimePage, SwgPage} /\ Menu # SetTempPage
    BY DEF Pages, Menu, TimePage, SwgPage, SetTempPage
  <2> QED BY <1>1, <2>1, PageShown
<1>3. PressStep(b, key, Repainted([b EXCEPT !.light = ~@]))
  <2> DEFINE d == [b EXCEPT !.light = ~@]
             c == Repainted(d)
  <2>1. BoxOK(d) /\ d.page = b.page /\ d.field = b.field /\ d.ready = b.ready /\ d.wrong = b.wrong
    BY DEF BoxOK, BoxType
  <2> HIDE DEF d
  <2>2. BoxOK(c) /\ c.paint = Paint(c) /\ c.page = d.page /\ c.field = d.field /\ c.ready = d.ready /\ c.wrong = d.wrong
    BY <2>1, PaintedAgain
  <2> HIDE DEF c
  <2>3. PressStep(b, key, c)
    BY <1>1, <2>1, <2>2, PictureStays
  <2> QED BY <2>3 DEF c, d
<1>4. PressStep(b, key, b)
  BY <1>1, NothingPressed DEF ValuePages
<1>5. PressHome(b, key) \in {Shows(b, Menu), Repainted([b EXCEPT !.light = ~@]), b}
  BY DEF PressHome
<1> QED BY <1>2, <1>3, <1>4, <1>5

LEMMA MenuPress ==
  ASSUME NEW b, BoxOK(b), b.page = Menu, NEW key
  PROVE  PressStep(b, key, PressMenu(b, key))
<1>1. b.page \notin ValuePages
  BY DEF ValuePages, Menu, TimePage, SwgPage, SetTempPage
<1>2. {Home, SchedulePage, SetupPage} \subseteq Pages \ {TimePage, SwgPage, SetTempPage}
  BY DEF Pages, Home, SchedulePage, SetupPage, TimePage, SwgPage, SetTempPage
<1>3. PressStep(b, key, Shows(b, Home)) /\ PressStep(b, key, Shows(b, SchedulePage)) /\ PressStep(b, key, Shows(b, SetupPage))
  BY <1>1, <1>2, PageShown
<1>4. PressStep(b, key, b)
  BY <1>1, NothingPressed DEF ValuePages
<1>5. ASSUME key = 20 PROVE PressStep(b, key, Shows(b, SetTempPage))
  <2>1. SetTempPage \in Pages /\ SetTempPage \notin {TimePage, SwgPage}
    BY DEF Pages, TimePage, SwgPage, SetTempPage
  <2> QED BY <1>1, <1>5, <2>1, PageShown
<1>6. ASSUME key = 25 PROVE PressStep(b, key, Shows(b, SwgPage))
  <2> DEFINE c == Shows(b, SwgPage)
  <2>1. SwgPage \in Pages
    BY DEF Pages
  <2>2. BoxOK(c) /\ c.paint = Paint(c) /\ c.page = SwgPage /\ c.field = "none" /\ c.ready = b.ready /\ c.wrong = b.wrong
    BY <2>1, ShownPage
  <2> HIDE DEF c
  <2>3. Moves(b, key, c)
    BY <1>1, <1>6, <2>2 DEF Moves, ValuePages, KeyBack, KeySubmit, KeyDwell, SwgPage, TimePage, SetTempPage
  <2>4. PressStep(b, key, c)
    BY <2>2, <2>3 DEF PressStep, Drawn
  <2> QED BY <2>4 DEF c
<1>7. \/ PressMenu(b, key) \in {Shows(b, Home), Shows(b, SchedulePage), Shows(b, SetupPage), b}
      \/ key = 20 /\ PressMenu(b, key) = Shows(b, SetTempPage)
      \/ key = 25 /\ PressMenu(b, key) = Shows(b, SwgPage)
  BY DEF PressMenu, KeyBack
<1> QED BY <1>3, <1>4, <1>5, <1>6, <1>7

(* A list of rows and a highlighted one put in place of those there were.  *)
Relist(b, rows, row, editing) == [b EXCEPT !.rows = rows, !.row = row, !.editing = editing]
Unlist(b, rows) == [b EXCEPT !.rows = rows, !.row = 0, !.dialog = FALSE, !.editing = FALSE]
Moved(b, d) ==
  BoxOK(d) /\ d.page = b.page /\ d.field = b.field /\ d.ready = b.ready /\ d.wrong = b.wrong

LEMMA Clock ==
  ASSUME NEW hour \in Int, NEW pm \in BOOLEAN
  PROVE  <<hour, pm>> \in Clocks
BY DEF Clocks

LEMMA Relisted ==
  ASSUME NEW b, BoxOK(b), NEW rows \in Seq(RowType), NEW row \in Nat, row <= Len(rows), row # 0,
         NEW editing \in BOOLEAN
  PROVE  Moved(b, Relist(b, rows, row, editing))
<1> DEFINE d == [b EXCEPT !.rows = rows, !.row = row, !.editing = editing]
<1>1. d \in BoxType
  BY DEF BoxOK, BoxType
<1>2. d.rows = rows /\ d.row = row /\ d.page = b.page /\ d.field = b.field /\ d.ready = b.ready /\ d.wrong = b.wrong
  BY DEF BoxOK, BoxType
<1> HIDE DEF d
<1>3. BoxOK(d)
  BY <1>1, <1>2 DEF BoxOK
<1> QED BY <1>2, <1>3 DEF d, Relist, Moved

LEMMA Unlisted ==
  ASSUME NEW b, BoxOK(b), NEW rows \in Seq(RowType)
  PROVE  Moved(b, Unlist(b, rows))
<1> DEFINE d == [b EXCEPT !.rows = rows, !.row = 0, !.dialog = FALSE, !.editing = FALSE]
<1>1. d \in BoxType
  BY DEF BoxOK, BoxType
<1>2. d.rows = rows /\ d.row = 0 /\ d.page = b.page /\ d.field = b.field /\ d.ready = b.ready /\ d.wrong = b.wrong
      /\ d.dialog = FALSE
  BY DEF BoxOK, BoxType
<1>3. Len(rows) \in Nat
  OBVIOUS
<1> HIDE DEF d
<1>4. BoxOK(d)
  BY <1>1, <1>2, <1>3 DEF BoxOK
<1> QED BY <1>2, <1>4 DEF d, Unlist, Moved

LEMMA PickerPress ==
  ASSUME NEW b, BoxOK(b), b.page = PickerPage, NEW key
  PROVE  PressStep(b, key, PressPicker(b, key))
<1> DEFINE added == [target |-> "pump", on |-> <<12, FALSE>>, off |-> <<12, FALSE>>, days |-> "All"]
           rows == Append(b.rows, added)
           n == Len(rows)
           d == Relist(b, rows, n, TRUE)
           x == [b EXCEPT !.clicked = TRUE]
<1>1. b.page \notin ValuePages
  BY DEF ValuePages, PickerPage, TimePage, SwgPage, SetTempPage
<1>2. SchedulePage \in Pages /\ SchedulePage \notin {TimePage, SwgPage} /\ SchedulePage # SetTempPage
  BY DEF Pages, SchedulePage, TimePage, SwgPage, SetTempPage
<1>3. added \in RowType
  <2>1. "pump" \in Texts /\ "All" \in Texts
    BY SomeTexts
  <2>2. <<12, FALSE>> \in Clocks
    <3>1. 12 \in Int /\ FALSE \in BOOLEAN
      OBVIOUS
    <3>2. \A hour \in Int, pm \in BOOLEAN : <<hour, pm>> \in Clocks
      BY Clock
    <3> QED BY <3>1, <3>2, Zenon
  <2> DEFINE noon == <<12, FALSE>>
             every == "All"
             pump == "pump"
  <2>3. noon \in Clocks /\ every \in Texts /\ pump \in Texts
    BY <2>1, <2>2
  <2> HIDE DEF noon, every, pump
  <2>4. [target |-> pump, on |-> noon, off |-> noon, days |-> every] \in RowType
    BY <2>3 DEF RowType
  <2> QED BY <2>4 DEF noon, every, pump
<1>4. b.rows \in Seq(RowType)
  BY DEF BoxOK, BoxType
<1> HIDE DEF added
<1>5. rows \in Seq(RowType) /\ Len(rows) = Len(b.rows) + 1 /\ Len(b.rows) \in Nat
  BY <1>3, <1>4, AppendProperties
<1> HIDE DEF rows
<1>6. n \in Nat /\ n # 0 /\ n <= Len(rows)
  BY <1>5
<1> HIDE DEF n
<1>7. BoxOK(d) /\ d.ready = b.ready /\ d.wrong = b.wrong
  BY <1>5, <1>6, Relisted DEF Moved
<1>8. BoxOK(x) /\ SamePicture(b, x) /\ x.paint = b.paint
      /\ x.page = b.page /\ x.field = b.field /\ x.ready = b.ready /\ x.wrong = b.wrong
  BY DEF BoxOK, BoxType, SamePicture
<1> HIDE DEF d, x
<1>9. PressStep(b, key, Shows(b, SchedulePage)) /\ PressStep(b, key, Shows(d, SchedulePage))
  BY <1>1, <1>2, <1>7, PageShown
<1>10. PressStep(b, key, x)
  BY <1>1, <1>8, PictureStays
<1>11. PressStep(b, key, b)
  BY <1>1, NothingPressed DEF ValuePages
<1>12. PressPicker(b, key) \in {Shows(b, SchedulePage), x, Shows(d, SchedulePage), b}
  BY DEF PressPicker, Relist, added, rows, n, d, x
<1> QED BY <1>9, <1>10, <1>11, <1>12

LEMMA TimePress ==
  ASSUME NEW b, BoxOK(b), b.page = TimePage, NEW key
  PROVE  PressStep(b, key, PressTime(b, key))
<1> DEFINE d == [b EXCEPT !.pm = ~@]
           c == Repainted(d)
           x == [b EXCEPT !.ready = TRUE]
<1>1. b.page \in ValuePages /\ b.page # SwgPage /\ b.page # SetTempPage /\ b.page # SchedulePage
  BY DEF ValuePages, SchedulePage, TimePage, SwgPage, SetTempPage
<1>2. BoxOK(d) /\ d.page = b.page /\ d.field = b.field /\ d.ready = b.ready /\ d.wrong = b.wrong
  BY DEF BoxOK, BoxType
<1>3. BoxOK(x) /\ SamePicture(b, x) /\ x.paint = b.paint
      /\ x.page = b.page /\ x.field = b.field /\ x.ready /\ x.wrong = b.wrong
  BY DEF BoxOK, BoxType, SamePicture
<1> HIDE DEF d
<1>4. BoxOK(c) /\ c.paint = Paint(c) /\ c.page = d.page /\ c.field = d.field /\ c.ready = d.ready /\ c.wrong = d.wrong
  BY <1>2, PaintedAgain
<1> HIDE DEF c, x
<1>5. CASE key = KeyBack
  <2>1. SchedulePage \in Pages /\ SchedulePage \notin {TimePage, SwgPage} /\ SchedulePage # SetTempPage
    BY DEF Pages, SchedulePage, TimePage, SwgPage, SetTempPage
  <2>2. key # KeySubmit
    BY <1>5 DEF KeyBack, KeySubmit
  <2>3. PressTime(b, key) = Shows(b, SchedulePage)
    BY <1>5 DEF PressTime, KeyBack, KeySubmit
  <2> QED BY <2>1, <2>2, <2>3, PageShown
<1>6. CASE key = 17
  <2>1. PressTime(b, key) = c
    BY <1>6 DEF PressTime, KeyBack, KeySubmit, c, d
  <2>2. Moves(b, key, c)
    BY <1>1, <1>2, <1>4, <1>6 DEF Moves, KeyBack, KeySubmit
  <2> QED BY <1>4, <2>1, <2>2 DEF PressStep, Drawn
<1>7. CASE key = KeySubmit
  <2>1. PressTime(b, key) = x
    BY <1>7 DEF PressTime, KeyBack, KeySubmit, x
  <2>2. Moves(b, key, x)
    BY <1>1, <1>3, <1>7 DEF Moves, KeyBack, KeySubmit
  <2> QED BY <1>3, <2>1, <2>2 DEF PressStep, Drawn
<1>8. CASE key \notin {KeyBack, 17, KeySubmit}
  <2>1. PressTime(b, key) = b
    BY <1>8 DEF PressTime
  <2> QED BY <1>1, <1>8, <2>1, NothingPressed
<1> QED BY <1>5, <1>6, <1>7, <1>8

(* The pages whose fields are highlighted by keys of their own.            *)
LEMMA ValuesPress ==
  ASSUME NEW b, BoxOK(b), NEW key, NEW fields,
         \/ /\ b.page = SwgPage
            /\ fields = [k \in 17..19 |-> SwgFields[k - 16]]
         \/ /\ b.page = SetTempPage
            /\ fields = [k \in {17, 19} |-> IF k = 17 THEN "heatPool" ELSE "heatSpa"]
  PROVE  PressStep(b, key, PressValues(b, key, fields))
<1> DEFINE d == [b EXCEPT !.field = fields[key]]
           x == [b EXCEPT !.ready = b.field # "none"]
<1>1. b.page \in ValuePages /\ b.page # TimePage /\ b.page # SchedulePage /\ SwgPage # SetTempPage
  BY DEF ValuePages, SchedulePage, TimePage, SwgPage, SetTempPage
<1>2. SwgFields[1] = "Pool" /\ SwgFields[2] = "Spa" /\ SwgFields[3] = "Boost"
  BY DEF SwgFields
<1>3. \/ b.page = SwgPage /\ DOMAIN fields = 17..19 /\ fields[17] = "Pool" /\ fields[18] = "Spa" /\ fields[19] = "Boost"
      \/ b.page = SetTempPage /\ DOMAIN fields = {17, 19} /\ fields[17] = "heatPool" /\ fields[19] = "heatSpa"
  BY <1>2
<1>4. \A k \in 17..19 : k = 17 \/ k = 18 \/ k = 19
  OBVIOUS
<1>5. key \in DOMAIN fields => fields[key] \in BoxFields
  BY <1>3, <1>4 DEF BoxFields, ArmFields
<1>6. ASSUME key \in DOMAIN fields
      PROVE  BoxOK(d) /\ SamePicture(b, d) /\ d.paint = b.paint
             /\ d.page = b.page /\ d.field = fields[key] /\ d.ready = b.ready /\ d.wrong = b.wrong
  BY <1>5, <1>6 DEF BoxOK, BoxType, SamePicture
<1>7. BoxOK(x) /\ SamePicture(b, x) /\ x.paint = b.paint
      /\ x.page = b.page /\ x.field = b.field /\ x.ready = (b.field # "none") /\ x.wrong = b.wrong
  BY DEF BoxOK, BoxType, SamePicture
<1> HIDE DEF d, x
<1>8. CASE key = KeyBack
  <2>1. Menu \in Pages /\ Menu \notin {TimePage, SwgPage} /\ Menu # SetTempPage
    BY DEF Pages, Menu, TimePage, SwgPage, SetTempPage
  <2>2. key # KeySubmit /\ key \notin DOMAIN fields
    BY <1>3, <1>4, <1>8 DEF KeyBack, KeySubmit
  <2>3. PressValues(b, key, fields) = Shows(b, Menu)
    BY <1>8, <2>2 DEF PressValues
  <2> QED BY <2>1, <2>2, <2>3, PageShown
<1>9. CASE key \in DOMAIN fields
  <2>1. key \in {17, 18, 19} /\ key # KeyBack /\ key # KeySubmit /\ key # KeyDwell
    BY <1>3, <1>4, <1>9 DEF KeyBack, KeySubmit, KeyDwell
  <2>2. PressValues(b, key, fields) = d
    BY <1>9, <2>1 DEF PressValues, d
  <2>3. Moves(b, key, d)
    BY <1>1, <1>3, <1>6, <1>9, <2>1 DEF Moves
  <2> QED BY <1>6, <1>9, <2>2, <2>3 DEF PressStep, Drawn
<1>10. CASE key = KeySubmit
  <2>1. key # KeyBack /\ key \notin DOMAIN fields /\ key # 17 /\ key # 20 /\ key # 18 /\ key # 19 /\ key # KeyDwell
    BY <1>3, <1>4, <1>10 DEF KeyBack, KeySubmit, KeyDwell
  <2>2. PressValues(b, key, fields) = x
    BY <1>10, <2>1 DEF PressValues, x
  <2>3. Moves(b, key, x)
    BY <1>1, <1>7, <1>10, <2>1 DEF Moves
  <2> QED BY <1>7, <2>2, <2>3 DEF PressStep, Drawn
<1>11. CASE key \notin {KeyBack, KeySubmit} /\ key \notin DOMAIN fields
  <2>1. PressValues(b, key, fields) = b
    BY <1>11 DEF PressValues
  <2>2. b.page = SwgPage => key \notin {17, 18, 19}
    BY <1>1, <1>3, <1>11
  <2>3. b.page = SetTempPage => key # 17
    BY <1>1, <1>3, <1>11
  <2>4. Drawn(b, b)
    BY DEF Drawn, SamePicture
  <2>5. Moves(b, key, b)
    BY <1>1, <1>11, <2>2, <2>3 DEF Moves
  <2> QED BY <2>1, <2>4, <2>5 DEF PressStep
<1> QED BY <1>8, <1>9, <1>10, <1>11

(* One entry of one row is changed, if there is such a row.                *)
WithDay(rows, i, day) == [rows EXCEPT ![i].days = day]
WithOn(rows, i, time) == [rows EXCEPT ![i].on = time]
WithOff(rows, i, time) == [rows EXCEPT ![i].off = time]

LEMMA RowEntries ==
  ASSUME NEW rows \in Seq(RowType), NEW i \in Nat, NEW day \in Texts, NEW time \in Clocks
  PROVE  /\ WithDay(rows, i, day) \in Seq(RowType) /\ Len(WithDay(rows, i, day)) = Len(rows)
         /\ WithOn(rows, i, time) \in Seq(RowType) /\ Len(WithOn(rows, i, time)) = Len(rows)
         /\ WithOff(rows, i, time) \in Seq(RowType) /\ Len(WithOff(rows, i, time)) = Len(rows)
<1> DEFINE n == Len(rows)
           D == WithDay(rows, i, day)
           On == WithOn(rows, i, time)
           Off == WithOff(rows, i, time)
<1>1. n \in Nat /\ DOMAIN rows = 1..n
  OBVIOUS
<1>2. ASSUME NEW j \in 1..n PROVE rows[j] \in RowType
  BY <1>2, ElementOfSeq
<1>3. ASSUME NEW r \in RowType
      PROVE  [r EXCEPT !.days = day] \in RowType /\ [r EXCEPT !.on = time] \in RowType /\ [r EXCEPT !.off = time] \in RowType
  BY <1>3 DEF RowType
<1>4. /\ D = [j \in 1..n |-> IF j = i THEN [rows[j] EXCEPT !.days = day] ELSE rows[j]]
      /\ On = [j \in 1..n |-> IF j = i THEN [rows[j] EXCEPT !.on = time] ELSE rows[j]]
      /\ Off = [j \in 1..n |-> IF j = i THEN [rows[j] EXCEPT !.off = time] ELSE rows[j]]
  BY <1>1 DEF WithDay, WithOn, WithOff
<1> HIDE DEF n, D, On, Off
<1>5. D \in [1..n -> RowType] /\ On \in [1..n -> RowType] /\ Off \in [1..n -> RowType]
  BY <1>2, <1>3, <1>4
<1>6. ASSUME NEW s \in [1..n -> RowType] PROVE s \in Seq(RowType) /\ Len(s) = n
  BY <1>1, <1>6
<1> QED BY <1>5, <1>6 DEF n, D, On, Off

LEMMA RowRemoved ==
  ASSUME NEW rows \in Seq(RowType), NEW i \in 1..Len(rows)
  PROVE  RemoveAt(rows, i) \in Seq(RowType)
<1>1. SubSeq(rows, 1, i - 1) \in Seq(RowType) /\ SubSeq(rows, i + 1, Len(rows)) \in Seq(RowType)
  OBVIOUS
<1> DEFINE front == SubSeq(rows, 1, i - 1)
           back == SubSeq(rows, i + 1, Len(rows))
<1>2. RemoveAt(rows, i) = front \o back
  BY DEF RemoveAt
<1>3. front \in Seq(RowType) /\ back \in Seq(RowType)
  BY <1>1
<1> HIDE DEF front, back
<1> QED BY <1>2, <1>3, ConcatProperties

(* A press that leaves the page where it is and paints it again.           *)
LEMMA PaintedPress ==
  ASSUME NEW b, BoxOK(b), NEW key, b.page \notin ValuePages, NEW d, Moved(b, d)
  PROVE  PressStep(b, key, Repainted(d))
<1> DEFINE c == Repainted(d)
<1>1. BoxOK(d) /\ d.page = b.page /\ d.field = b.field /\ d.ready = b.ready /\ d.wrong = b.wrong
  BY DEF Moved
<1>2. BoxOK(c) /\ c.paint = Paint(c) /\ c.page = d.page /\ c.field = d.field /\ c.ready = d.ready /\ c.wrong = d.wrong
  BY <1>1, PaintedAgain
<1> HIDE DEF c
<1>3. PressStep(b, key, c)
  BY <1>1, <1>2, PictureStays
<1> QED BY <1>3 DEF c

LEMMA DayText ==
  ASSUME NEW key \in 23..32
  PROVE  DayShown(key) \in Texts
<1>1. {"All", "Wkdays", "Wkends", "M", "Tu", "W", "Th", "F", "Sa", "Su"} \subseteq Texts
  BY SomeTexts
<1>2. DayTokens[1] = "M" /\ DayTokens[2] = "Tu" /\ DayTokens[3] = "W" /\ DayTokens[4] = "Th" /\ DayTokens[5] = "F"
      /\ DayTokens[6] = "Sa" /\ DayTokens[7] = "Su"
  BY DEF DayTokens
<1>3. \A i \in 1..7 : DayTokens[i] \in Texts
  <2>1. \A i \in 1..7 : i = 1 \/ i = 2 \/ i = 3 \/ i = 4 \/ i = 5 \/ i = 6 \/ i = 7
    OBVIOUS
  <2> QED BY <1>1, <1>2, <2>1
<1>4. DayShown(key) \in {"All", "Wkdays", "Wkends"} \/ (key \notin {23, 31, 32} /\ DayShown(key) = DayTokens[key - 23])
  BY DEF DayShown
<1>5. key \notin {23, 31, 32} => key - 23 \in 1..7
  OBVIOUS
<1> QED BY <1>1, <1>3, <1>4, <1>5

(* A row's time field is opened: its highlight goes with the time page.    *)
LEMMA TimeOpened ==
  ASSUME NEW b, BoxOK(b), b.page = SchedulePage, NEW key \in {33, 34}
  PROVE  PressStep(b, key, [Shows([b EXCEPT !.pm = FALSE], TimePage) EXCEPT !.field = IF key = 33 THEN "on" ELSE "off"])
<1> DEFINE t == [b EXCEPT !.pm = FALSE]
           e == Shows(t, TimePage)
           field == IF key = 33 THEN "on" ELSE "off"
           c == [e EXCEPT !.field = field]
<1>1. BoxOK(t) /\ t.ready = b.ready /\ t.wrong = b.wrong
  BY DEF BoxOK, BoxType
<1>2. TimePage \in Pages
  BY DEF Pages
<1> HIDE DEF t
<1>3. BoxOK(e) /\ e.paint = Paint(e) /\ e.page = TimePage /\ e.ready = t.ready /\ e.wrong = t.wrong
  BY <1>1, <1>2, ShownPage
<1>4. field \in BoxFields
  BY DEF BoxFields, ArmFields
<1> HIDE DEF e, field
<1>5. BoxOK(c) /\ SamePicture(e, c) /\ c.paint = e.paint /\ c.page = e.page /\ c.field = field
      /\ c.ready = e.ready /\ c.wrong = e.wrong
  BY <1>3, <1>4 DEF BoxOK, BoxType, SamePicture
<1> HIDE DEF c
<1>6. c.paint = Paint(c)
  BY <1>3, <1>5, SamePaint
<1>7. Moves(b, key, c)
  <2>1. c.page = TimePage /\ c.ready = b.ready /\ c.wrong = b.wrong
    BY <1>1, <1>3, <1>5
  <2>2. b.page \notin {TimePage, SwgPage}
    BY DEF SchedulePage, TimePage, SwgPage
  <2>3. TimePage # SwgPage /\ TimePage # SetTempPage
    BY DEF TimePage, SwgPage, SetTempPage
  <2>4. key # KeyBack /\ key # KeySubmit /\ key \notin {17, 20}
    BY DEF KeyBack, KeySubmit
  <2>5. (key = 33 /\ c.field = "on") \/ (key = 34 /\ c.field = "off")
    <3>1. (key = 33 /\ field = "on") \/ (key = 34 /\ field = "off")
      BY DEF field
    <3> QED BY <1>5, <3>1
  <2> QED BY <2>1, <2>2, <2>3, <2>4, <2>5 DEF Moves
<1>8. PressStep(b, key, c)
  BY <1>5, <1>6, <1>7 DEF PressStep, Drawn
<1> QED BY <1>8 DEF c, e, t, field

LEMMA SchedulePress ==
  ASSUME NEW b, BoxOK(b), b.page = SchedulePage, NEW key \in Nat
  PROVE  PressStep(b, key, PressSchedule(b, key))
<1> DEFINE n == Len(b.rows)
           left == [b EXCEPT !.row = 0, !.editing = FALSE]
           edited == [b EXCEPT !.editing = b.row # 0]
           asked == [b EXCEPT !.dialog = TRUE]
           removed == Unlist(b, RemoveAt(b.rows, b.row))
           chosen == [b EXCEPT !.row = key - 34, !.editing = FALSE]
           opened == [Shows([b EXCEPT !.pm = FALSE], TimePage) EXCEPT !.field = IF key = 33 THEN "on" ELSE "off"]
           set == [b EXCEPT !.rows = [b.rows EXCEPT ![b.row].days = DayShown(key)]]
<1>1. b.page \notin ValuePages
  BY DEF ValuePages, SchedulePage, TimePage, SwgPage, SetTempPage
<1>2. b \in BoxType /\ b.rows \in Seq(RowType) /\ b.row \in Nat /\ n \in Nat /\ b.row <= n
  BY DEF BoxOK, BoxType
<1>3. PressStep(b, key, Shows(left, Menu))
  <2> DEFINE d == Unlist(b, b.rows)
  <2>1. BoxOK(d) /\ d.ready = b.ready /\ d.wrong = b.wrong
    BY <1>2, Unlisted DEF Moved
  <2>2. Shows(left, Menu) = Shows(d, Menu)
    <3>1. [left EXCEPT !.page = Menu, !.field = "none", !.dialog = FALSE, !.clicked = FALSE]
          = [d EXCEPT !.page = Menu, !.field = "none", !.dialog = FALSE, !.clicked = FALSE]
      BY <1>2 DEF BoxType, Unlist
    <3> HIDE DEF left, d
    <3> QED BY <3>1, Zenon DEF Shows
  <2>3. Menu \in Pages /\ Menu \notin {TimePage, SwgPage} /\ Menu # SetTempPage
    BY DEF Pages, Menu, TimePage, SwgPage, SetTempPage
  <2> HIDE DEF left, d
  <2> QED BY <1>1, <2>1, <2>2, <2>3, PageShown
<1>4. PressStep(b, key, Shows(b, PickerPage))
  <2>1. PickerPage \in Pages /\ PickerPage \notin {TimePage, SwgPage} /\ PickerPage # SetTempPage
    BY DEF Pages, PickerPage, TimePage, SwgPage, SetTempPage
  <2> QED BY <1>1, <2>1, PageShown
<1>5. PressStep(b, key, edited)
  <2>1. edited \in BoxType /\ edited.row = b.row /\ edited.rows = b.rows /\ edited.dialog = b.dialog
        /\ SamePicture(b, edited) /\ edited.paint = b.paint
        /\ edited.page = b.page /\ edited.field = b.field /\ edited.ready = b.ready /\ edited.wrong = b.wrong
    BY <1>2 DEF BoxType, SamePicture
  <2> HIDE DEF edited
  <2>2. BoxOK(edited)
    BY <2>1 DEF BoxOK
  <2> QED BY <1>1, <2>1, <2>2, PictureStays
<1>6. ASSUME b.row # 0 PROVE PressStep(b, key, Repainted(asked))
  <2>1. asked \in BoxType /\ asked.row = b.row /\ asked.rows = b.rows
        /\ asked.page = b.page /\ asked.field = b.field /\ asked.ready = b.ready /\ asked.wrong = b.wrong
    BY <1>2 DEF BoxType
  <2> HIDE DEF asked
  <2>2. Moved(b, asked)
    BY <1>2, <1>6, <2>1 DEF BoxOK, Moved
  <2> QED BY <1>1, <2>2, PaintedPress
<1>7. ASSUME b.dialog PROVE PressStep(b, key, Repainted(removed))
  <2>1. b.row \in 1..n
    BY <1>2, <1>7 DEF BoxOK
  <2>2. RemoveAt(b.rows, b.row) \in Seq(RowType)
    BY <1>2, <2>1, RowRemoved
  <2>3. Moved(b, removed)
    BY <2>2, Unlisted
  <2> QED BY <1>1, <2>3, PaintedPress
<1>8. ASSUME key \in 35..(34 + n) PROVE PressStep(b, key, chosen)
  <2>1. key - 34 \in Nat /\ key - 34 <= n /\ key - 34 # 0
    BY <1>2, <1>8
  <2>2. chosen \in BoxType /\ chosen.row = key - 34 /\ chosen.rows = b.rows /\ chosen.dialog = b.dialog
        /\ SamePicture(b, chosen) /\ chosen.paint = b.paint
        /\ chosen.page = b.page /\ chosen.field = b.field /\ chosen.ready = b.ready /\ chosen.wrong = b.wrong
    BY <1>2, <2>1 DEF BoxType, SamePicture
  <2> HIDE DEF chosen
  <2>3. BoxOK(chosen)
    BY <2>1, <2>2 DEF BoxOK
  <2> QED BY <1>1, <2>2, <2>3, PictureStays
<1>9. ASSUME key \in {33, 34} PROVE PressStep(b, key, opened)
  BY <1>9, TimeOpened
<1>10. ASSUME key \in 23..32 PROVE PressStep(b, key, Repainted(set))
  <2> DEFINE rows == WithDay(b.rows, b.row, DayShown(key))
  <2>0. DayShown(key) \in Texts /\ Printed.on \in Clocks
    BY <1>10, DayText, PrintedRow DEF RowType
  <2> HIDE DEF n
  <2>1. rows \in Seq(RowType) /\ Len(rows) = Len(b.rows)
    BY <1>2, <2>0, RowEntries
  <2>2. set = [b EXCEPT !.rows = rows]
    BY DEF WithDay
  <2> HIDE DEF rows
  <2>3. set \in BoxType /\ set.row = b.row /\ set.rows = rows /\ set.dialog = b.dialog
        /\ set.page = b.page /\ set.field = b.field /\ set.ready = b.ready /\ set.wrong = b.wrong
    BY <1>2, <2>1, <2>2 DEF BoxType
  <2> HIDE DEF set
  <2>4. Moved(b, set)
    BY <1>2, <2>1, <2>3 DEF BoxOK, Moved, n
  <2> QED BY <1>1, <2>4, PaintedPress
<1>11. PressStep(b, key, b)
  BY <1>1, NothingPressed DEF ValuePages
<1>12. \/ PressSchedule(b, key) \in {Shows(left, Menu), Shows(b, PickerPage), edited, b}
       \/ b.row # 0 /\ PressSchedule(b, key) = Repainted(asked)
       \/ b.dialog /\ PressSchedule(b, key) = Repainted(removed)
       \/ key \in 35..(34 + n) /\ PressSchedule(b, key) = chosen
       \/ key \in {33, 34} /\ PressSchedule(b, key) = opened
       \/ key \in 23..32 /\ PressSchedule(b, key) = Repainted(set)
  <2>1. /\ set = [b EXCEPT !.rows[b.row].days = DayShown(key)]
        /\ removed = [b EXCEPT !.rows = RemoveAt(@, b.row), !.row = 0, !.dialog = FALSE, !.editing = FALSE]
    BY <1>2 DEF Unlist, BoxType
  <2> DEFINE del == [b EXCEPT !.rows = RemoveAt(@, b.row), !.row = 0, !.dialog = FALSE, !.editing = FALSE]
             day == [b EXCEPT !.rows[b.row].days = DayShown(key)]
             rowKeys == 35..(34 + Len(b.rows))
             dayKeys == 23..32
  <2>2. PressSchedule(b, key) =
          CASE key = KeyBack -> Shows(left, Menu)
            [] key = 17      -> Shows(b, PickerPage)
            [] key = 18      -> edited
            [] key = 19      -> IF b.row # 0 THEN Repainted(asked) ELSE b
            [] key = 1       -> IF b.dialog THEN Repainted(del) ELSE b
            [] key \in rowKeys -> chosen
            [] key \in {33, 34} /\ b.editing -> opened
            [] key \in dayKeys /\ b.editing -> Repainted(day)
            [] OTHER -> b
    BY DEF PressSchedule
  <2>3. set = day /\ removed = del
    BY <2>1
  <2>4. key \in rowKeys => key \in 35..(34 + n)
    OBVIOUS
  <2>5. key \in dayKeys => key \in 23..32
    OBVIOUS
  <2> HIDE DEF n, left, edited, asked, removed, chosen, opened, set, del, day, rowKeys, dayKeys
  <2> QED BY <2>2, <2>3, <2>4, <2>5
<1> HIDE DEF left, edited, asked, removed, chosen, opened, set, n
<1> QED BY <1>3, <1>4, <1>5, <1>6, <1>7, <1>8, <1>9, <1>10, <1>11, <1>12

LEMMA SpaPagesPress ==
  ASSUME NEW b, BoxOK(b), b.page \in {SetupPage, RemotesPage, DetailPage}, NEW key \in Nat
  PROVE  PressStep(b, key, PressSpaPages(b, key))
<1> DEFINE left == [b EXCEPT !.chosen = 0]
           scrolled == [b EXCEPT !.window = (@ % Len(PickerWindows)) + 1]
           chosen == [b EXCEPT !.chosen = key - 21]
           named == [b EXCEPT !.assigned = PickerWindows[b.window][1]]
<1>1. b.page \notin ValuePages
  BY DEF ValuePages, SetupPage, RemotesPage, DetailPage, TimePage, SwgPage, SetTempPage
<1>2. b \in BoxType /\ b.row <= Len(b.rows) /\ (b.dialog => b.row # 0) /\ b.window \in {1, 2}
  BY DEF BoxOK, BoxType
<1>3. Len(PickerWindows) = 2 /\ PickerWindows[1] = <<"Pump">> /\ PickerWindows[2] = <<"Light">>
  BY DEF PickerWindows
<1>4. {Menu, SetupPage, RemotesPage, DetailPage} \subseteq Pages \ {TimePage, SwgPage, SetTempPage}
  BY DEF Pages, Menu, SetupPage, RemotesPage, DetailPage, TimePage, SwgPage, SetTempPage
<1>5. BoxOK(left) /\ left.ready = b.ready /\ left.wrong = b.wrong
  <2>1. left \in BoxType /\ left.rows = b.rows /\ left.row = b.row /\ left.dialog = b.dialog
        /\ left.ready = b.ready /\ left.wrong = b.wrong
    BY <1>2 DEF BoxType
  <2> HIDE DEF left
  <2> QED BY <1>2, <2>1 DEF BoxOK
<1>6. Moved(b, scrolled)
  <2>1. (b.window % Len(PickerWindows)) + 1 \in {1, 2}
    BY <1>2, <1>3
  <2>2. scrolled \in BoxType /\ scrolled.rows = b.rows /\ scrolled.row = b.row /\ scrolled.dialog = b.dialog
        /\ scrolled.page = b.page /\ scrolled.field = b.field /\ scrolled.ready = b.ready /\ scrolled.wrong = b.wrong
    BY <1>2, <2>1 DEF BoxType
  <2> HIDE DEF scrolled
  <2> QED BY <1>2, <2>2 DEF BoxOK, Moved
<1>7. BoxOK(chosen) /\ SamePicture(b, chosen) /\ chosen.paint = b.paint
      /\ chosen.page = b.page /\ chosen.field = b.field /\ chosen.ready = b.ready /\ chosen.wrong = b.wrong
  <2>1. key - 21 \in Int
    OBVIOUS
  <2>2. chosen \in BoxType /\ chosen.rows = b.rows /\ chosen.row = b.row /\ chosen.dialog = b.dialog
        /\ SamePicture(b, chosen) /\ chosen.paint = b.paint
        /\ chosen.page = b.page /\ chosen.field = b.field /\ chosen.ready = b.ready /\ chosen.wrong = b.wrong
    BY <1>2, <2>1 DEF BoxType, SamePicture
  <2> HIDE DEF chosen
  <2> QED BY <1>2, <2>2 DEF BoxOK
<1>8. Moved(b, named)
  <2>1. PickerWindows[b.window][1] \in Texts
    <3>1. "Pump" \in Texts /\ "Light" \in Texts
      BY SomeTexts
    <3>2. PickerWindows[b.window][1] \in {"Pump", "Light"}
      BY <1>2, <1>3
    <3> QED BY <3>1, <3>2
  <2> DEFINE text == PickerWindows[b.window][1]
  <2>2. text \in Texts
    BY <2>1
  <2> HIDE DEF text
  <2>3. [b EXCEPT !.assigned = text] \in BoxType
    BY <1>2, <2>2 DEF BoxType
  <2>4. named \in BoxType
    BY <2>3 DEF text
  <2>5. named.rows = b.rows /\ named.row = b.row /\ named.dialog = b.dialog
        /\ named.page = b.page /\ named.field = b.field /\ named.ready = b.ready /\ named.wrong = b.wrong
    BY <1>2 DEF BoxType
  <2> HIDE DEF named
  <2> QED BY <1>2, <2>4, <2>5 DEF BoxOK, Moved
<1> HIDE DEF left, scrolled, chosen, named
<1>9. /\ PressStep(b, key, Shows(b, Menu)) /\ PressStep(b, key, Shows(b, SetupPage))
      /\ PressStep(b, key, Shows(b, RemotesPage)) /\ PressStep(b, key, Shows(b, DetailPage))
      /\ PressStep(b, key, Shows(left, RemotesPage))
  BY <1>1, <1>4, <1>5, PageShown
<1>10. PressStep(b, key, Repainted(scrolled)) /\ PressStep(b, key, Repainted(named))
  BY <1>1, <1>6, <1>8, PaintedPress
<1>11. PressStep(b, key, chosen)
  BY <1>1, <1>7, PictureStays
<1>12. PressStep(b, key, b)
  BY <1>1, NothingPressed DEF ValuePages
<1>13. SetupPage # RemotesPage /\ SetupPage # DetailPage /\ RemotesPage # DetailPage
  BY DEF SetupPage, RemotesPage, DetailPage
<1>14. CASE b.page = SetupPage
  <2>1. PressSpaPages(b, key) = IF key = KeyBack THEN Shows(b, Menu) ELSE IF key = 22 THEN Shows(b, RemotesPage) ELSE b
    BY <1>13, <1>14, Zenon DEF PressSpaPages
  <2> QED BY <1>9, <1>12, <2>1
<1>15. CASE b.page = RemotesPage
  <2>1. PressSpaPages(b, key) = IF key = KeyBack THEN Shows(b, SetupPage) ELSE IF key = 22 THEN Shows(b, DetailPage) ELSE b
    BY <1>13, <1>15, Zenon DEF PressSpaPages
  <2> QED BY <1>9, <1>12, <2>1
<1>16. CASE b.page = DetailPage
  <2> DEFINE inList == key \in 22..28
  <2>1. PressSpaPages(b, key) =
          CASE key = KeyBack -> Shows(left, RemotesPage)
            [] key = 21      -> Repainted(scrolled)
            [] inList        -> chosen
            [] key = 29 /\ b.chosen = 1 -> Repainted(named)
            [] OTHER -> b
    BY <1>13, <1>16, Zenon DEF PressSpaPages, left, scrolled, chosen, named
  <2> HIDE DEF inList
  <2>2. PressSpaPages(b, key) \in {Shows(left, RemotesPage), Repainted(scrolled), chosen, Repainted(named), b}
    BY <2>1
  <2> QED BY <1>9, <1>10, <1>11, <1>12, <2>2
<1> QED BY <1>14, <1>15, <1>16

(* Every key on every page.                                                *)
LEMMA EveryPress ==
  ASSUME NEW b, BoxOK(b), NEW key \in Nat
  PROVE  PressStep(b, key, Press(b, key))
<1>1. b.page \in Pages
  BY DEF BoxOK, BoxType
<1> DEFINE swg == PressValues(b, key, [k \in 17..19 |-> SwgFields[k - 16]])
           temp == PressValues(b, key, [k \in {17, 19} |-> IF k = 17 THEN "heatPool" ELSE "heatSpa"])
<1>2. Press(b, key) =
        CASE b.page = Home         -> PressHome(b, key)
          [] b.page = Menu         -> PressMenu(b, key)
          [] b.page = SchedulePage -> PressSchedule(b, key)
          [] b.page = PickerPage   -> PressPicker(b, key)
          [] b.page = TimePage     -> PressTime(b, key)
          [] b.page = SwgPage      -> swg
          [] b.page = SetTempPage  -> temp
          [] OTHER                 -> PressSpaPages(b, key)
  BY DEF Press
<1>3. b.page = SwgPage => PressStep(b, key, swg)
  BY ValuesPress
<1>4. b.page = SetTempPage => PressStep(b, key, temp)
  BY ValuesPress
<1>5. /\ b.page = Home => PressStep(b, key, PressHome(b, key))
      /\ b.page = Menu => PressStep(b, key, PressMenu(b, key))
      /\ b.page = SchedulePage => PressStep(b, key, PressSchedule(b, key))
      /\ b.page = PickerPage => PressStep(b, key, PressPicker(b, key))
      /\ b.page = TimePage => PressStep(b, key, PressTime(b, key))
      /\ b.page \in {SetupPage, RemotesPage, DetailPage} => PressStep(b, key, PressSpaPages(b, key))
  BY HomePress, MenuPress, SchedulePress, PickerPress, TimePress, SpaPagesPress
<1> HIDE DEF swg, temp
<1>6. \/ b.page = Home /\ Press(b, key) = PressHome(b, key)
      \/ b.page = Menu /\ Press(b, key) = PressMenu(b, key)
      \/ b.page = SchedulePage /\ Press(b, key) = PressSchedule(b, key)
      \/ b.page = PickerPage /\ Press(b, key) = PressPicker(b, key)
      \/ b.page = TimePage /\ Press(b, key) = PressTime(b, key)
      \/ b.page = SwgPage /\ Press(b, key) = swg
      \/ b.page = SetTempPage /\ Press(b, key) = temp
      \/ b.page \in {SetupPage, RemotesPage, DetailPage} /\ Press(b, key) = PressSpaPages(b, key)
  BY <1>1, <1>2 DEF Pages
<1> QED BY <1>3, <1>4, <1>5, <1>6

(* The value that is taken.                                                *)
TakeStep(b, value, c) ==
  /\ BoxOK(c) /\ Drawn(b, c) /\ ~c.ready
  /\ c.wrong = (b.wrong \/ value.field # b.field)
  /\ \/ c.page = b.page /\ c.field = b.field
     \/ c.page = SchedulePage

LEMMA ValueTaken ==
  ASSUME NEW b, BoxOK(b), NEW value \in Armed
  PROVE  TakeStep(b, value, Take(b, value))
<1> DEFINE wrong == b.wrong \/ value.field # b.field
           got == [b EXCEPT !.ready = FALSE, !.wrong = wrong]
           time == <<value.n, b.pm>>
           ons == WithOn(b.rows, b.row, time)
           offs == WithOff(b.rows, b.row, time)
           on == [got EXCEPT !.rows = ons]
           off == [got EXCEPT !.rows = offs]
<1>1. b \in BoxType /\ b.rows \in Seq(RowType) /\ b.row \in Nat /\ b.row <= Len(b.rows) /\ (b.dialog => b.row # 0)
  BY DEF BoxOK, BoxType
<1>2. wrong \in BOOLEAN
  BY DEF BoxOK, BoxType
<1>3. time \in Clocks
  <2>1. value.n \in Int /\ b.pm \in BOOLEAN
    BY <1>1 DEF BoxType, Armed
  <2> QED BY <2>1 DEF Clocks
<1>4. Take(b, value) =
        CASE b.page = TimePage /\ b.field = "on"  -> Shows(on, SchedulePage)
          [] b.page = TimePage /\ b.field = "off" -> Shows(off, SchedulePage)
          [] OTHER -> got
  BY <1>1 DEF Take, BoxType, WithOn, WithOff
<1> HIDE DEF wrong, time
<1>5. got \in BoxType /\ got.rows = b.rows /\ got.row = b.row /\ got.dialog = b.dialog /\ got.page = b.page /\ got.field = b.field
      /\ SamePicture(b, got) /\ got.paint = b.paint /\ ~got.ready /\ got.wrong = wrong
  BY <1>1, <1>2 DEF BoxType, SamePicture
<1> HIDE DEF got
<1>6. /\ ons \in Seq(RowType) /\ Len(ons) = Len(b.rows)
      /\ offs \in Seq(RowType) /\ Len(offs) = Len(b.rows)
  <2>1. "All" \in Texts
    BY SomeTexts
  <2> QED BY <1>1, <1>3, <2>1, RowEntries
<1> HIDE DEF ons, offs
<1>7. on \in BoxType /\ on.rows = ons /\ on.row = b.row /\ on.dialog = b.dialog /\ ~on.ready /\ on.wrong = wrong
  BY <1>5, <1>6 DEF BoxType
<1>8. off \in BoxType /\ off.rows = offs /\ off.row = b.row /\ off.dialog = b.dialog /\ ~off.ready /\ off.wrong = wrong
  BY <1>5, <1>6 DEF BoxType
<1> HIDE DEF on, off
<1>9. BoxOK(got) /\ BoxOK(on) /\ BoxOK(off)
  BY <1>1, <1>5, <1>6, <1>7, <1>8 DEF BoxOK
<1>10. ASSUME NEW d, BoxOK(d), ~d.ready, d.wrong = wrong PROVE TakeStep(b, value, Shows(d, SchedulePage))
  <2> DEFINE c == Shows(d, SchedulePage)
  <2>1. SchedulePage \in Pages
    BY DEF Pages
  <2>2. BoxOK(c) /\ c.paint = Paint(c) /\ c.page = SchedulePage /\ c.ready = d.ready /\ c.wrong = d.wrong
    BY <1>10, <2>1, ShownPage
  <2> HIDE DEF c
  <2>3. TakeStep(b, value, c)
    BY <1>10, <2>2 DEF TakeStep, Drawn, wrong
  <2> QED BY <2>3 DEF c
<1>11. TakeStep(b, value, got)
  BY <1>5, <1>9 DEF TakeStep, Drawn, wrong
<1>12. TakeStep(b, value, Shows(on, SchedulePage)) /\ TakeStep(b, value, Shows(off, SchedulePage))
  BY <1>7, <1>8, <1>9, <1>10
<1>13. Take(b, value) \in {Shows(on, SchedulePage), Shows(off, SchedulePage), got}
  BY <1>4
<1> QED BY <1>11, <1>12, <1>13

(***************************************************************************)
(* The page model follows the messages of the page.                        *)
(***************************************************************************)

MiddleKinds == {"Row", "Device", "Meridiem", "Assigned", "Functions", "Buttons"}

(* What has been received of the page so far.                              *)
Follows(b, p, s) ==
  \E k \in 0..Len(Paint(b)) :
    /\ b.paint = SubSeq(Paint(b), k + 1, Len(Paint(b)))
    /\ k > 0 => p.id = b.page
    /\ k > 0 /\ b.page = SchedulePage =>
         p.rows = SubSeq(b.rows, 1, IF k - 1 <= Len(b.rows) THEN k - 1 ELSE Len(b.rows))
    /\ k > 1 /\ b.page = SwgPage => p.buttons = Buttons(SwgPage)
    /\ k = Len(Paint(b)) /\ b.page = SchedulePage => s.rows = [i \in DOMAIN b.rows |-> ParseScheduleRow(b.rows[i])]

LEMMA MiddleParts ==
  ASSUME NEW b \in BoxType, NEW m, m = Middle(b.page, b.rows, b.pm, b.assigned, b.window)
  PROVE  /\ \A i \in 1..Len(m) : m[i].kind \in MiddleKinds
         /\ b.page = SchedulePage =>
              Len(m) = Len(b.rows) /\ \A i \in 1..Len(b.rows) : m[i] = [kind |-> "Row", row |-> b.rows[i]]
         /\ b.page = SwgPage => Len(m) = 1 /\ m[1] = [kind |-> "Buttons", names |-> Buttons(SwgPage)]
<1>1. b.page \in Pages /\ b.rows \in Seq(RowType)
  BY DEF BoxType
<1>2. CASE b.page = SchedulePage
  <2>1. m = [i \in DOMAIN b.rows |-> [kind |-> "Row", row |-> b.rows[i]]]
    BY <1>2, PaintedPagesDiffer, Zenon DEF Middle
  <2>2. DOMAIN b.rows = 1..Len(b.rows) /\ Len(b.rows) \in Nat
    BY <1>1
  <2>3. m = [i \in 1..Len(b.rows) |-> [kind |-> "Row", row |-> b.rows[i]]]
    BY <2>1, <2>2
  <2>4. Len(m) = Len(b.rows)
    BY <2>2, <2>3
  <2>5. \A i \in 1..Len(b.rows) : m[i] = [kind |-> "Row", row |-> b.rows[i]]
    BY <2>3
  <2>6. ASSUME NEW i \in 1..Len(m) PROVE m[i].kind = "Row"
    <3>1. m[i] = [kind |-> "Row", row |-> b.rows[i]]
      BY <2>4, <2>5, <2>6
    <3> QED BY <3>1
  <2> QED BY <1>2, <2>4, <2>5, <2>6, PaintedPagesDiffer DEF MiddleKinds
<1>3. CASE b.page = PickerPage
  <2>1. m = <<[kind |-> "Device", target |-> "pump"]>>
    BY <1>3, PaintedPagesDiffer, Zenon DEF Middle
  <2> QED BY <1>3, <2>1, PaintedPagesDiffer DEF MiddleKinds
<1>4. CASE b.page = TimePage
  <2>1. m = <<[kind |-> "Meridiem", text |-> IF b.pm THEN "PM" ELSE "AM"]>>
    BY <1>4, PaintedPagesDiffer, Zenon DEF Middle
  <2> QED BY <1>4, <2>1, PaintedPagesDiffer DEF MiddleKinds
<1>5. CASE b.page = DetailPage
  <2>1. m = <<[kind |-> "Assigned", function |-> b.assigned], [kind |-> "Functions", shown |-> PickerWindows[b.window]]>>
    BY <1>5, PaintedPagesDiffer, Zenon DEF Middle
  <2>2. \A i \in 1..2 : i = 1 \/ i = 2
    OBVIOUS
  <2> QED BY <1>5, <2>1, <2>2, PaintedPagesDiffer DEF MiddleKinds
<1>6. CASE b.page \notin {SchedulePage, PickerPage, TimePage, DetailPage}
  <2>1. m = <<[kind |-> "Buttons", names |-> Buttons(b.page)]>>
    BY <1>6, Zenon DEF Middle
  <2> QED BY <1>6, <2>1 DEF MiddleKinds
<1> QED BY <1>2, <1>3, <1>4, <1>5, <1>6

LEMMA Wrapped ==
  ASSUME NEW S, NEW m \in Seq(S), NEW x \in S, NEW y \in S, NEW p, p = <<x>> \o m \o <<y>>
  PROVE  /\ p \in Seq(S) /\ Len(p) = Len(m) + 2 /\ Len(m) \in Nat
         /\ p[1] = x /\ p[Len(m) + 2] = y
         /\ \A i \in 1..Len(m) : p[i + 1] = m[i]
OBVIOUS

MiddleOf(b) == Middle(b.page, b.rows, b.pm, b.assigned, b.window)

LEMMA PaintParts ==
  ASSUME NEW b \in BoxType
  PROVE  /\ Paint(b) \in Seq(Messages) /\ Len(Paint(b)) = Len(MiddleOf(b)) + 2 /\ Len(MiddleOf(b)) \in Nat
         /\ Paint(b)[1] = [kind |-> "PageStart", page |-> b.page]
         /\ Paint(b)[Len(MiddleOf(b)) + 2] = [kind |-> "PageEnd"]
         /\ \A i \in 1..Len(MiddleOf(b)) : Paint(b)[i + 1] = MiddleOf(b)[i]
<1> DEFINE first == [kind |-> "PageStart", page |-> b.page]
           last == [kind |-> "PageEnd"]
           m == MiddleOf(b)
           p == Paint(b)
<1>1. first \in Messages /\ last \in Messages
  BY DEF BoxType, Messages
<1>2. m \in Seq(Messages)
  BY MiddleType DEF MiddleOf
<1>3. p = <<first>> \o m \o <<last>>
  BY PaintIs DEF MiddleOf
<1> HIDE DEF first, last, m, p
<1>4. /\ p \in Seq(Messages) /\ Len(p) = Len(m) + 2 /\ Len(m) \in Nat
      /\ p[1] = first /\ p[Len(m) + 2] = last
      /\ \A i \in 1..Len(m) : p[i + 1] = m[i]
  BY <1>1, <1>2, <1>3, Wrapped
<1> QED BY <1>2, <1>4 DEF first, last, m, p

(* A suffix of a painting, its head and its tail.                          *)
LEMMA Suffix ==
  ASSUME NEW S, NEW p \in Seq(S), NEW k \in 0..Len(p), NEW q, q = SubSeq(p, k + 1, Len(p))
  PROVE  /\ (q = <<>>) <=> (k = Len(p))
         /\ k < Len(p) => Head(q) = p[k + 1] /\ Tail(q) = SubSeq(p, k + 2, Len(p))
<1>1. Len(p) \in Nat /\ k \in Nat /\ k <= Len(p)
  OBVIOUS
<1>2. q \in Seq(S) /\ Len(q) = Len(p) - k /\ \A i \in 1..(Len(p) - k) : q[i] = p[k + i]
  BY <1>1
<1>3. CASE k = Len(p)
  BY <1>1, <1>2, <1>3
<1>4. CASE k < Len(p)
  <2>1. k + 1 \in 1..Len(p) /\ Len(p) \in (k + 1)..Len(p)
    BY <1>1, <1>4
  <2>2. Head(q) = p[k + 1] /\ Tail(q) = SubSeq(p, k + 1 + 1, Len(p))
    BY <2>1, HeadTailOfSubSeq
  <2>3. Len(q) # 0
    BY <1>1, <1>2, <1>4
  <2>4. q # <<>>
    BY <2>3, EmptySeq
  <2>5. k + 1 + 1 = k + 2
    BY <1>1
  <2> QED BY <1>1, <1>4, <2>2, <2>4, <2>5
<1> QED BY <1>1, <1>3, <1>4

StoreOK(s) == s = [rows |-> s.rows, assigned |-> s.assigned]

(* Of a page just painted nothing has been received.                       *)
LEMMA FollowsNew ==
  ASSUME NEW c \in BoxType, c.paint = Paint(c), NEW p, NEW s
  PROVE  Follows(c, p, s)
<1> DEFINE n == Len(Paint(c))
<1>1. Paint(c) \in Seq(Messages) /\ n = Len(MiddleOf(c)) + 2 /\ Len(MiddleOf(c)) \in Nat
  BY PaintParts, Zenon
<1>2. c.paint = SubSeq(Paint(c), 0 + 1, n) /\ 0 \in 0..n /\ 0 # n
  BY <1>1, SubSeqFull
<1> QED BY <1>2 DEF Follows

(* The panel goes on painting, or starts again: the page model is as far   *)
(* as it was, or has nothing of the new page yet.                          *)
LEMMA FollowsOn ==
  ASSUME NEW b, NEW c \in BoxType, NEW p, NEW s, Follows(b, p, s), Drawn(b, c)
  PROVE  Follows(c, p, s)
<1>1. CASE c.paint = Paint(c)
  BY <1>1, FollowsNew
<1>2. CASE c.paint = b.paint /\ SamePicture(b, c)
  <2>1. Paint(c) = Paint(b)
    BY <1>2, SamePaint
  <2>2. c.page = b.page /\ c.rows = b.rows /\ c.paint = b.paint
    BY <1>2 DEF SamePicture
  <2> QED BY <2>1, <2>2 DEF Follows
<1> QED BY <1>1, <1>2 DEF Drawn

(* One message, by its kind.                                               *)
LEMMA MessageKinds ==
  ASSUME PageMessage, NEW m, m = Head(box.paint)
  PROVE  /\ box.paint # <<>>
         /\ \/ m.kind = "PageStart" /\ pg' = OnPageStart(pg, m.page) /\ store' = store
            \/ m.kind = "Row" /\ pg.id = SchedulePage /\ pg' = [pg EXCEPT !.rows = Append(@, m.row)] /\ store' = store
            \/ m.kind = "Device" /\ pg' = [pg EXCEPT !.devices = Append(@, m.target)] /\ store' = store
            \/ m.kind = "Assigned" /\ store' = [store EXCEPT !.assigned = m.function] /\ pg' = pg
            \/ m.kind = "Functions" /\ pg' = [pg EXCEPT !.picker = m.shown] /\ store' = store
            \/ m.kind = "Buttons" /\ pg' = [pg EXCEPT !.buttons = m.names] /\ store' = store
            \/ m.kind = "Meridiem" /\ pg' = [pg EXCEPT !.meridiem = m.text] /\ store' = store
            \/ m.kind = "PageEnd" /\ store' = (IF pg.id = SchedulePage THEN PublishSchedulePage ELSE store) /\ pg' = pg
BY DEF PageMessage, Slot_IAQ_PageStart, Slot_IAQ_TableMessage, Slot_IAQ_PageButton, Slot_IAQ_PageMessage, Slot_IAQ_PageEnd

LEMMA PageTyped ==
  ASSUME PageMessage, pg \in PageType, StoreOK(store), NEW m \in Messages, m = Head(box.paint)
  PROVE  pg' \in PageType /\ StoreOK(store')
<1>1. CASE m.kind = "PageStart" /\ pg' = OnPageStart(pg, m.page) /\ store' = store
  <2>1. m.page \in Pages
    BY <1>1 DEF Messages
  <2>2. "" \in Texts
    BY SomeTexts
  <2> DEFINE page == m.page
             empty == ""
             none == <<>>
  <2>3. page \in Pages /\ empty \in Texts /\ none \in Seq(RowType) /\ none \in Seq({"pump"})
    BY <2>1, <2>2, EmptySeq
  <2>4. pg' = [pg EXCEPT !.id = page, !.rows = none, !.devices = none, !.meridiem = empty]
    BY <1>1 DEF OnPageStart
  <2> HIDE DEF page, empty, none
  <2>5. pg' \in PageType
    BY <2>3, <2>4 DEF PageType
  <2> QED BY <1>1, <2>5 DEF StoreOK
<1>2. CASE m.kind = "Row" /\ pg' = [pg EXCEPT !.rows = Append(@, m.row)] /\ store' = store
  <2>1. m.row \in RowType
    BY <1>2 DEF Messages
  <2>2. Append(pg.rows, m.row) \in Seq(RowType)
    BY <2>1, AppendProperties DEF PageType
  <2> DEFINE rows == Append(pg.rows, m.row)
  <2>3. pg' = [pg EXCEPT !.rows = rows] /\ rows \in Seq(RowType)
    BY <1>2, <2>2
  <2> HIDE DEF rows
  <2>4. pg' \in PageType
    BY <2>3 DEF PageType
  <2> QED BY <1>2, <2>4 DEF StoreOK
<1>3. CASE m.kind = "Device" /\ pg' = [pg EXCEPT !.devices = Append(@, m.target)] /\ store' = store
  <2>1. m.target \in {"pump"}
    BY <1>3 DEF Messages
  <2>2. Append(pg.devices, m.target) \in Seq({"pump"})
    BY <2>1, AppendProperties DEF PageType
  <2> DEFINE devices == Append(pg.devices, m.target)
  <2>3. pg' = [pg EXCEPT !.devices = devices] /\ devices \in Seq({"pump"})
    BY <1>3, <2>2
  <2> HIDE DEF devices
  <2>4. pg' \in PageType
    BY <2>3 DEF PageType
  <2> QED BY <1>3, <2>4 DEF StoreOK
<1>4. CASE m.kind = "Assigned" /\ store' = [store EXCEPT !.assigned = m.function] /\ pg' = pg
  <2>1. store = [rows |-> store.rows, assigned |-> store.assigned]
    BY DEF StoreOK
  <2> DEFINE text == m.function
  <2>2. store' = [store EXCEPT !.assigned = text]
    BY <1>4
  <2> HIDE DEF text
  <2>3. store' = [rows |-> store.rows, assigned |-> text]
    BY <2>1, <2>2
  <2> QED BY <1>4, <2>3 DEF StoreOK
<1>5. CASE m.kind = "Functions" /\ pg' = [pg EXCEPT !.picker = m.shown] /\ store' = store
  <2>1. m.shown \in Seq(Texts)
    BY <1>5 DEF Messages
  <2>2. pg' \in PageType
    BY <1>5, <2>1 DEF PageType
  <2> QED BY <1>5, <2>2 DEF StoreOK
<1>6. CASE m.kind = "Buttons" /\ pg' = [pg EXCEPT !.buttons = m.names] /\ store' = store
  <2>1. m.names \in PaintedButtons
    BY <1>6 DEF Messages
  <2>2. pg' \in PageType
    BY <1>6, <2>1 DEF PageType
  <2> QED BY <1>6, <2>2 DEF StoreOK
<1>7. CASE m.kind = "Meridiem" /\ pg' = [pg EXCEPT !.meridiem = m.text] /\ store' = store
  <2>1. m.text \in Texts
    BY <1>7 DEF Messages
  <2>2. pg' \in PageType
    BY <1>7, <2>1 DEF PageType
  <2> QED BY <1>7, <2>2 DEF StoreOK
<1>8. CASE m.kind = "PageEnd" /\ store' = (IF pg.id = SchedulePage THEN PublishSchedulePage ELSE store) /\ pg' = pg
  <2>1. store = [rows |-> store.rows, assigned |-> store.assigned]
    BY DEF StoreOK
  <2> DEFINE all == [i \in DOMAIN pg.rows |-> ParseScheduleRow(pg.rows[i])]
  <2>2. PublishSchedulePage = [store EXCEPT !.rows = all]
    BY DEF PublishSchedulePage
  <2> HIDE DEF all
  <2>3. PublishSchedulePage = [rows |-> all, assigned |-> store.assigned]
    BY <2>1, <2>2
  <2>4. StoreOK(PublishSchedulePage)
    BY <2>3 DEF StoreOK
  <2> QED BY <1>8, <2>4
<1> QED BY <1>1, <1>2, <1>3, <1>4, <1>5, <1>6, <1>7, <1>8, MessageKinds

(* What is known of a page of n messages once j and one more have come.    *)
Received(b, p, s, j, n) ==
  /\ p.id = b.page
  /\ b.page = SchedulePage => p.rows = SubSeq(b.rows, 1, IF j <= Len(b.rows) THEN j ELSE Len(b.rows))
  /\ j > 0 /\ b.page = SwgPage => p.buttons = Buttons(SwgPage)
  /\ j + 1 = n /\ b.page = SchedulePage => s.rows = [i \in DOMAIN b.rows |-> ParseScheduleRow(b.rows[i])]

LEMMA PageFollows ==
  ASSUME PageMessage, BoxOK(box), pg \in PageType, StoreOK(store), Follows(box, pg, store)
  PROVE  /\ pg' \in PageType /\ StoreOK(store') /\ BoxOK(box') /\ Follows(box', pg', store')
         /\ box'.page = box.page /\ box'.field = box.field /\ box'.ready = box.ready /\ box'.wrong = box.wrong
<1> DEFINE P == Paint(box)
           n == Len(P)
           M == MiddleOf(box)
           m == Head(box.paint)
<1>1. PICK k \in 0..n :
        /\ box.paint = SubSeq(P, k + 1, n)
        /\ k > 0 => pg.id = box.page
        /\ k > 0 /\ box.page = SchedulePage =>
             pg.rows = SubSeq(box.rows, 1, IF k - 1 <= Len(box.rows) THEN k - 1 ELSE Len(box.rows))
        /\ k > 1 /\ box.page = SwgPage => pg.buttons = Buttons(SwgPage)
        /\ k = n /\ box.page = SchedulePage => store.rows = [i \in DOMAIN box.rows |-> ParseScheduleRow(box.rows[i])]
  BY DEF Follows
<1>2. box \in BoxType /\ box.row <= Len(box.rows) /\ (box.dialog => box.row # 0) /\ box.rows \in Seq(RowType)
  BY DEF BoxOK, BoxType
<1>3. /\ P \in Seq(Messages) /\ n = Len(M) + 2 /\ Len(M) \in Nat
      /\ P[1] = [kind |-> "PageStart", page |-> box.page]
      /\ P[Len(M) + 2] = [kind |-> "PageEnd"]
      /\ \A i \in 1..Len(M) : P[i + 1] = M[i]
  BY <1>2, PaintParts, Zenon
<1>4. box' = [box EXCEPT !.paint = Tail(box.paint)]
  BY DEF PageMessage
<1> HIDE DEF P
<1>5. box.paint # <<>>
  BY MessageKinds
<1>6. k < n /\ m = P[k + 1] /\ Tail(box.paint) = SubSeq(P, k + 2, n)
  <2>1. (box.paint = <<>>) <=> (k = Len(P))
    BY <1>1, <1>3, Suffix
  <2>2. k < Len(P) => Head(box.paint) = P[k + 1] /\ Tail(box.paint) = SubSeq(P, k + 2, Len(P))
    BY <1>1, <1>3, Suffix
  <2> QED BY <1>3, <1>5, <2>1, <2>2
<1>7. m \in Messages
  <2>1. k + 1 \in 1..Len(P)
    BY <1>3, <1>6
  <2> QED BY <1>3, <1>6, <2>1, ElementOfSeq
<1>8. pg' \in PageType /\ StoreOK(store')
  BY <1>7, PageTyped
<1>9. Tail(box.paint) \in Seq(Messages)
  <2>1. box.paint \in Seq(Messages)
    BY <1>2 DEF BoxType
  <2> QED BY <1>5, <2>1, HeadTailProperties
<1> DEFINE rest == Tail(box.paint)
<1> HIDE DEF rest
<1>10. /\ box' \in BoxType /\ SamePicture(box, box') /\ box'.paint = rest
       /\ box'.row = box.row /\ box'.dialog = box.dialog
       /\ box'.page = box.page /\ box'.field = box.field /\ box'.ready = box.ready /\ box'.wrong = box.wrong
  <2>1. box' = [box EXCEPT !.paint = rest] /\ rest \in Seq(Messages)
    BY <1>4, <1>9 DEF rest
  <2> QED BY <1>2, <2>1 DEF BoxType, SamePicture
<1>11. Paint(box') = P
  BY <1>10, SamePaint DEF P
<1>12. BoxOK(box') /\ box'.rows = box.rows
  BY <1>2, <1>10 DEF BoxOK, SamePicture
<1>13. k + 1 \in 0..n /\ k \in Nat /\ n \in Nat /\ Len(box.rows) \in Nat /\ (k + 1) + 1 = k + 2 /\ k + 1 > 0
  BY <1>1, <1>2, <1>3, <1>6
<1>14. /\ \A i \in 1..Len(M) : M[i].kind \in MiddleKinds
       /\ box.page = SchedulePage =>
            Len(M) = Len(box.rows) /\ \A i \in 1..Len(box.rows) : M[i] = [kind |-> "Row", row |-> box.rows[i]]
       /\ box.page = SwgPage => Len(M) = 1 /\ M[1] = [kind |-> "Buttons", names |-> Buttons(SwgPage)]
  BY <1>2, MiddleParts DEF MiddleOf
<1>15. ASSUME Received(box, pg', store', k, n)
       PROVE  Follows(box', pg', store')
  <2>1. box'.paint = SubSeq(P, (k + 1) + 1, n)
    BY <1>6, <1>10, <1>13 DEF rest
  <2>2. (k + 1) - 1 = k
    BY <1>13
  <2>3. k + 1 > 1 => k > 0
    BY <1>13
  <2>4. n = Len(P)
    OBVIOUS
  <2> HIDE DEF n
  <2> QED BY <1>10, <1>11, <1>12, <1>13, <1>15, <2>1, <2>2, <2>3, <2>4 DEF Follows, Received
<1> HIDE DEF M, n, m
<1>16. CASE k = 0
  <2>1. m = [kind |-> "PageStart", page |-> box.page]
    BY <1>3, <1>6, <1>16
  <2>2. pg' = OnPageStart(pg, box.page) /\ store' = store
    BY <2>1, MessageKinds DEF m
  <2>3. pg'.id = box.page /\ pg'.rows = <<>>
    BY <2>2 DEF OnPageStart, PageType
  <2>4. SubSeq(box.rows, 1, 0) = <<>>
    BY SubSeqEmpty
  <2>5. k + 1 # n /\ ~(k > 0) /\ k <= Len(box.rows)
    BY <1>3, <1>13, <1>16
  <2>6. box.page = SchedulePage => pg'.rows = SubSeq(box.rows, 1, IF k <= Len(box.rows) THEN k ELSE Len(box.rows))
    BY <1>16, <2>3, <2>4, <2>5
  <2>10. Received(box, pg', store', k, n)
    BY <2>3, <2>5, <2>6 DEF Received
  <2> QED BY <1>8, <1>10, <1>12, <1>15, <2>10
<1>17. CASE k \in 1..Len(M)
  <2>1. m = M[k] /\ m.kind \in MiddleKinds
    BY <1>3, <1>6, <1>14, <1>17
  <2>2. pg.id = box.page /\ k > 0 /\ k + 1 # n
    BY <1>1, <1>3, <1>17
  <2>3. pg'.id = pg.id
    <3>1. m.kind # "PageStart"
      BY <2>1 DEF MiddleKinds
    <3> QED BY <3>1, MessageKinds DEF m, PageType
  <2>4. ASSUME box.page = SchedulePage
        PROVE  pg'.rows = SubSeq(box.rows, 1, IF k <= Len(box.rows) THEN k ELSE Len(box.rows))
    <3>1. k \in 1..Len(box.rows) /\ m = [kind |-> "Row", row |-> box.rows[k]]
      BY <1>14, <1>17, <2>1, <2>4
    <3>2. pg.rows = SubSeq(box.rows, 1, k - 1)
      BY <1>1, <1>13, <2>2, <2>4, <3>1
    <3>3. pg' = [pg EXCEPT !.rows = Append(@, box.rows[k])]
      BY <3>1, MessageKinds DEF m
    <3>4. pg'.rows = Append(pg.rows, box.rows[k])
      BY <3>3 DEF PageType
    <3>5. SubSeq(box.rows, 1, k) = SubSeq(box.rows, 1, k - 1) \o <<box.rows[k]>>
      <4>1. 1 \in 1..Len(box.rows) /\ k \in 1..Len(box.rows)
        BY <1>13, <3>1
      <4> QED BY <1>2, <4>1, SubSeqRecursiveSecond
    <3>6. Append(SubSeq(box.rows, 1, k - 1), box.rows[k]) = SubSeq(box.rows, 1, k - 1) \o <<box.rows[k]>>
      <4>1. SubSeq(box.rows, 1, k - 1) \in Seq(RowType)
        BY <3>2 DEF PageType
      <4>2. box.rows[k] \in RowType
        BY <1>2, <3>1, ElementOfSeq
      <4> QED BY <4>1, <4>2, AppendIsConcat
    <3>7. k <= Len(box.rows)
      BY <1>13, <3>1
    <3> QED BY <3>2, <3>4, <3>5, <3>6, <3>7
  <2>5. ASSUME box.page = SwgPage PROVE pg'.buttons = Buttons(SwgPage)
    <3>0. Len(M) = 1 /\ M[1] = [kind |-> "Buttons", names |-> Buttons(SwgPage)]
      BY <1>14, <2>5, Zenon
    <3>1. k = 1 /\ m = [kind |-> "Buttons", names |-> Buttons(SwgPage)]
      BY <1>17, <2>1, <3>0
    <3>2. pg' = [pg EXCEPT !.buttons = Buttons(SwgPage)]
      BY <3>1, MessageKinds DEF m
    <3> QED BY <3>2 DEF PageType
  <2>6. pg'.id = box.page
    BY <2>2, <2>3
  <2>10. Received(box, pg', store', k, n)
    BY <2>2, <2>4, <2>5, <2>6 DEF Received
  <2> QED BY <1>8, <1>10, <1>12, <1>15, <2>10
<1>18. CASE k = Len(M) + 1
  <2>1. m = [kind |-> "PageEnd"]
    <3>1. k + 1 = Len(M) + 2
      BY <1>3, <1>18
    <3> QED BY <1>3, <1>6, <3>1
  <2>2. pg' = pg /\ store' = (IF pg.id = SchedulePage THEN PublishSchedulePage ELSE store)
    BY <2>1, MessageKinds DEF m
  <2>3. pg.id = box.page /\ k > 0
    BY <1>1, <1>3, <1>18
  <2>4. box.page = SchedulePage => pg.rows = box.rows /\ ~(k <= Len(box.rows))
    <3>1. box.page = SchedulePage => k - 1 = Len(box.rows)
      BY <1>13, <1>14, <1>18
    <3>2. box.page = SchedulePage => pg.rows = SubSeq(box.rows, 1, Len(box.rows))
      BY <1>1, <2>3, <3>1
    <3>3. SubSeq(box.rows, 1, Len(box.rows)) = box.rows
      BY <1>2, SubSeqFull
    <3> QED BY <1>13, <3>1, <3>2, <3>3
  <2>5. ASSUME box.page = SchedulePage
        PROVE  store'.rows = [i \in DOMAIN box.rows |-> ParseScheduleRow(box.rows[i])]
    <3>1. store' = [store EXCEPT !.rows = [i \in DOMAIN box.rows |-> ParseScheduleRow(box.rows[i])]]
      BY <2>2, <2>3, <2>4, <2>5 DEF PublishSchedulePage
    <3> DEFINE all == [i \in DOMAIN box.rows |-> ParseScheduleRow(box.rows[i])]
    <3>2. store' = [store EXCEPT !.rows = all]
      BY <3>1
    <3> HIDE DEF all
    <3>3. store = [rows |-> store.rows, assigned |-> store.assigned]
      BY DEF StoreOK
    <3>4. store'.rows = all
      BY <3>2, <3>3
    <3> QED BY <3>4 DEF all
  <2>6. box.page = SchedulePage => SubSeq(box.rows, 1, Len(box.rows)) = box.rows
    BY <1>2, SubSeqFull
  <2>7. box.page = SwgPage => pg.buttons = Buttons(SwgPage)
    <3>1. box.page = SwgPage => Len(M) = 1
      BY <1>14, Zenon
    <3>2. box.page = SwgPage => k > 1
      BY <1>18, <3>1
    <3> QED BY <1>1, <3>2
  <2>8. box.page = SchedulePage => pg'.rows = SubSeq(box.rows, 1, IF k <= Len(box.rows) THEN k ELSE Len(box.rows))
    BY <2>2, <2>4, <2>6
  <2>9. pg'.id = box.page /\ (k > 0 /\ box.page = SwgPage => pg'.buttons = Buttons(SwgPage))
    BY <2>2, <2>3, <2>7
  <2>10. Received(box, pg', store', k, n)
    BY <2>5, <2>8, <2>9 DEF Received
  <2> QED BY <1>8, <1>10, <1>12, <1>15, <2>10
<1>19. k = 0 \/ k \in 1..Len(M) \/ k = Len(M) + 1
  BY <1>3, <1>6, <1>13
<1> QED BY <1>16, <1>17, <1>18, <1>19

(***************************************************************************)
(* What holds as long as no key was queued over a goal, every key was      *)
(* heard and none pressed on a page half painted: a value that is armed is *)
(* for the field highlighted on the panel when the panel asks for it.      *)
(***************************************************************************)

Surveys == {<<19, 0, 2, 0>>, <<0, 2, 0>>, <<2, 0>>, <<0>>}

(* The blind sequence of the set-point, key by key.                        *)
Setting(d, b) ==
  /\ d.armed.field = "heatPool"
  /\ \/ d.queue = <<2, 20, 17, 128>>
     \/ d.queue \in {<<20, 17, 128>>, <<17, 128>>} /\ b.page \notin {TimePage, SwgPage}
     \/ d.queue = <<128>> /\ b.page \notin {TimePage, SwgPage} /\ (b.page = SetTempPage => b.field = "heatPool")

CalmOK(d, b, s, a, p) ==
  /\ ~b.wrong
  /\ b.ready => d.armed # NoArm /\ d.armed.field = b.field /\ d.queue = <<>>
  /\ d.pending \in {0, 20}
  /\ s # NoGoal \/ a # NoGoal \/ p # NoGoal => d.queue = <<>> /\ (d.armed = NoArm \/ b.ready)
  /\ d.queue # <<>> => (d.armed = NoArm /\ d.queue \in Surveys) \/ Setting(d, b)
  /\ s # NoGoal /\ s.opened /\ b.page = TimePage => b.field = IF s.phase = "SetOnTime" THEN "on" ELSE "off"
  /\ a # NoGoal /\ a.phase = "Submit" /\ b.page = SwgPage => b.field = a.body

LEMMA QuietKey ==
  ASSUME NEW pending \in {0, 20}, NEW s, s.cmd # KeySubmit
  PROVE  NextKey(pending, s) # KeySubmit
BY DEF NextKey, KeySubmit

(* A poll with a schedule goal.                                            *)
LEMMA SchedPolled ==
  ASSUME NEW d, NEW b, NEW w \in SchedGoals, NEW page, NEW s, CalmOK(d, b, w, NoGoal, NoGoal),
         ~b.ready, page.id = b.page, SchedStep(w, page, s), s.arm \in Armed,
         NEW key, key = NextKey(d.pending, s), NEW c, PressStep(b, key, c),
         NEW e, e.queue = <<>>, e.pending = 0, e.armed = s.arm
  PROVE  CalmOK(e, c, s.w, NoGoal, NoGoal)
<1>1. w # NoGoal
  BY GoalIsSome
<1>2. ~b.wrong /\ d.pending \in {0, 20}
      /\ (w.opened /\ b.page = TimePage => b.field = IF w.phase = "SetOnTime" THEN "on" ELSE "off")
  BY <1>1 DEF CalmOK
<1>3. SchedKeys(w, page, s) /\ Moves(b, key, c)
  BY DEF SchedStep, PressStep
<1>4. c.wrong = b.wrong /\ (c.ready => key = KeySubmit /\ b.page \in ValuePages /\ c.page = b.page /\ c.field = b.field)
  BY <1>3 DEF Moves
<1>5. key = KeySubmit => s.cmd = KeySubmit
  BY <1>2, QuietKey
<1>6. ASSUME s.arm # NoArm PROVE c.ready /\ s.arm.field = c.field
  <2>1. s.cmd = KeySubmit /\ b.page = TimePage /\ w.opened
        /\ ((w.phase = "SetOnTime" /\ s.arm.field = "on") \/ (w.phase = "SetOffTime" /\ s.arm.field = "off"))
    BY <1>3, <1>6 DEF SchedKeys
  <2>2. key = KeySubmit
    BY <2>1 DEF NextKey, KeySubmit, Keep
  <2>3. key = KeySubmit /\ (b.page = TimePage \/ (b.page = SwgPage /\ b.field # "none")) => c.ready
    BY <1>3 DEF Moves
  <2>4. b.field = s.arm.field
    BY <1>2, <2>1
  <2> QED BY <1>4, <2>1, <2>2, <2>3, <2>4
<1>7. ASSUME c.ready PROVE s.arm # NoArm
  <2>1. s.cmd = KeySubmit /\ page.id \in ValuePages
    BY <1>4, <1>5, <1>7
  <2> QED BY <1>3, <2>1 DEF SchedKeys
<1>8. ASSUME s.w # NoGoal, s.w.opened, c.page = TimePage
      PROVE  c.field = IF s.w.phase = "SetOnTime" THEN "on" ELSE "off"
  <2>1. /\ s.w.phase \in {"SetOnTime", "SetOffTime"}
        /\ \/ b.page = SchedulePage /\ s.cmd = IF s.w.phase = "SetOnTime" THEN 33 ELSE 34
           \/ w.opened /\ w.phase = s.w.phase /\ s.cmd \in {KeyDwell, 17}
    BY <1>3, <1>8 DEF SchedKeys
  <2>2. /\ \/ b.page = TimePage /\ c.field = b.field
           \/ b.page = SchedulePage /\ key = 33 /\ c.field = "on"
           \/ b.page = SchedulePage /\ key = 34 /\ c.field = "off"
    BY <1>3, <1>8 DEF Moves
  <2>3. s.cmd # Keep => key = s.cmd
    BY DEF NextKey
  <2>4. TimePage # SchedulePage
    BY DEF TimePage, SchedulePage
  <2>5. CASE b.page = SchedulePage /\ s.cmd = IF s.w.phase = "SetOnTime" THEN 33 ELSE 34
    <3>1. key = IF s.w.phase = "SetOnTime" THEN 33 ELSE 34
      BY <2>3, <2>5 DEF Keep
    <3> QED BY <2>2, <2>4, <2>5, <3>1
  <2>6. CASE w.opened /\ w.phase = s.w.phase /\ s.cmd \in {KeyDwell, 17}
    <3>1. key # 33 /\ key # 34
      BY <2>3, <2>6 DEF Keep, KeyDwell
    <3> QED BY <1>2, <2>2, <2>6, <3>1
  <2> QED BY <2>1, <2>5, <2>6
<1> QED BY <1>2, <1>4, <1>6, <1>7, <1>8 DEF CalmOK

(* A poll with a goal of the AquaPure writer.                              *)
LEMMA AquaPolled ==
  ASSUME NEW d, NEW b, NEW w \in AquaGoals, NEW page, NEW s, CalmOK(d, b, NoGoal, w, NoGoal),
         ~b.ready, page.id = b.page, AquaKeys(w, page, s),
         NEW key, key = NextKey(d.pending, s), NEW c, PressStep(b, key, c),
         NEW e, e.queue = <<>>, e.pending = 0, e.armed = s.arm
  PROVE  CalmOK(e, c, NoGoal, s.w, NoGoal)
<1>1. w # NoGoal
  BY GoalIsSome
<1>2. ~b.wrong /\ d.pending \in {0, 20} /\ (w.phase = "Submit" /\ b.page = SwgPage => b.field = w.body)
  BY <1>1 DEF CalmOK
<1>3. Moves(b, key, c) /\ w.body \in {"Pool", "Spa", "Boost"}
  BY DEF PressStep, AquaGoals
<1>4. c.wrong = b.wrong /\ (c.ready => key = KeySubmit /\ b.page \in ValuePages /\ c.page = b.page /\ c.field = b.field)
  BY <1>3 DEF Moves
<1>5. key = KeySubmit => s.cmd = KeySubmit
  BY <1>2, QuietKey
<1>6. ASSUME s.arm # NoArm PROVE c.ready /\ s.arm.field = c.field
  <2>1. s.cmd = KeySubmit /\ b.page = SwgPage /\ w.phase = "Submit" /\ s.arm.field = w.body
    BY <1>6 DEF AquaKeys
  <2>2. key = KeySubmit
    BY <2>1 DEF NextKey, KeySubmit, Keep
  <2>3. b.field = w.body /\ b.field # "none"
    BY <1>2, <1>3, <2>1
  <2>4. c.ready
    BY <1>3, <2>1, <2>2, <2>3 DEF Moves
  <2> QED BY <1>4, <2>1, <2>3, <2>4
<1>7. ASSUME c.ready PROVE s.arm # NoArm
  <2>1. s.cmd = KeySubmit /\ page.id \in ValuePages
    BY <1>4, <1>5, <1>7
  <2> QED BY <2>1 DEF AquaKeys
<1>8. ASSUME s.w # NoGoal, s.w.phase = "Submit", c.page = SwgPage
      PROVE  c.field = s.w.body
  <2>1. /\ s.w.body = w.body
        /\ \/ b.page = SwgPage /\ s.cmd = FieldKey(w.body)
           \/ w.phase = "Submit" /\ s.cmd = KeyDwell
    BY <1>8 DEF AquaKeys
  <2>2. s.cmd # Keep => key = s.cmd
    BY DEF NextKey
  <2>3. /\ key = 17 => c.field = "Pool"
        /\ key = 18 => c.field = "Spa"
        /\ key = 19 => c.field = "Boost"
        /\ key = KeyDwell => b.page = SwgPage /\ c.field = b.field
    BY <1>3, <1>8 DEF Moves
  <2>4. CASE b.page = SwgPage /\ s.cmd = FieldKey(w.body)
    <3>1. \/ w.body = "Pool" /\ FieldKey(w.body) = 17
          \/ w.body = "Spa" /\ FieldKey(w.body) = 18
          \/ w.body = "Boost" /\ FieldKey(w.body) = 19
      BY <1>3 DEF FieldKey
    <3> QED BY <2>1, <2>2, <2>3, <2>4, <3>1 DEF Keep
  <2>5. CASE w.phase = "Submit" /\ s.cmd = KeyDwell
    <3>1. key = KeyDwell
      BY <2>2, <2>5 DEF Keep, KeyDwell
    <3> QED BY <1>2, <2>1, <2>3, <2>5, <3>1
  <2> QED BY <2>1, <2>4, <2>5
<1> QED BY <1>2, <1>4, <1>6, <1>7, <1>8 DEF CalmOK

(* A poll with a spa-switch goal, which has no value to arm.               *)
LEMMA SpaPolled ==
  ASSUME NEW d, NEW b, NEW w \in SpaGoals, NEW page, NEW s, CalmOK(d, b, NoGoal, NoGoal, w),
         ~b.ready, page.id = b.page, SpaStep(w, page, s),
         NEW key, key = NextKey(d.pending, s), NEW c, PressStep(b, key, c),
         NEW e, e.queue = <<>>, e.pending = 0, e.armed = s.arm
  PROVE  CalmOK(e, c, NoGoal, NoGoal, s.w)
<1>1. ~b.wrong /\ d.pending \in {0, 20}
  BY DEF CalmOK
<1>2. Moves(b, key, c) /\ s.arm = NoArm /\ (s.cmd = KeySubmit => page.id \notin ValuePages)
  BY DEF PressStep, SpaStep
<1>3. c.wrong = b.wrong /\ (c.ready => key = KeySubmit /\ b.page \in ValuePages)
  BY <1>2 DEF Moves
<1>4. key = KeySubmit => s.cmd = KeySubmit
  BY <1>1, QuietKey
<1>5. ~c.ready
  BY <1>2, <1>3, <1>4
<1> QED BY <1>1, <1>2, <1>3, <1>5 DEF CalmOK

(* A poll without a goal: the pending key, or the next one of the queue.   *)
LEMMA IdlePolled ==
  ASSUME NEW d, NEW b, CalmOK(d, b, NoGoal, NoGoal, NoGoal), ~b.ready, d.queue = <<>>,
         NEW c, PressStep(b, d.pending, c),
         NEW e, e.queue = <<>>, e.pending = 0, e.armed = d.armed
  PROVE  CalmOK(e, c, NoGoal, NoGoal, NoGoal)
<1>1. ~b.wrong /\ d.pending \in {0, 20}
  BY DEF CalmOK
<1>2. c.wrong = b.wrong /\ (c.ready => d.pending = KeySubmit)
  BY DEF PressStep, Moves
<1>3. ~c.ready
  BY <1>1, <1>2 DEF KeySubmit
<1> QED BY <1>1, <1>2, <1>3 DEF CalmOK

LEMMA QueueHeads ==
  /\ Head(<<19, 0, 2, 0>>) = 19 /\ Tail(<<19, 0, 2, 0>>) = <<0, 2, 0>>
  /\ Head(<<0, 2, 0>>) = 0 /\ Tail(<<0, 2, 0>>) = <<2, 0>>
  /\ Head(<<2, 0>>) = 2 /\ Tail(<<2, 0>>) = <<0>>
  /\ Head(<<0>>) = 0 /\ Tail(<<0>>) = <<>>
  /\ Head(<<2, 20, 17, 128>>) = 2 /\ Tail(<<2, 20, 17, 128>>) = <<20, 17, 128>>
  /\ Head(<<20, 17, 128>>) = 20 /\ Tail(<<20, 17, 128>>) = <<17, 128>>
  /\ Head(<<17, 128>>) = 17 /\ Tail(<<17, 128>>) = <<128>>
  /\ Head(<<128>>) = 128 /\ Tail(<<128>>) = <<>>
OBVIOUS

LEMMA QueuePolled ==
  ASSUME NEW d, NEW b, CalmOK(d, b, NoGoal, NoGoal, NoGoal), ~b.ready, d.queue # <<>>,
         NEW c, PressStep(b, Head(d.queue), c),
         NEW e, e.queue = Tail(d.queue), e.pending = d.pending, e.armed = d.armed
  PROVE  CalmOK(e, c, NoGoal, NoGoal, NoGoal)
<1> DEFINE key == Head(d.queue)
<1>1. ~b.wrong /\ d.pending \in {0, 20} /\ ((d.armed = NoArm /\ d.queue \in Surveys) \/ Setting(d, b))
  BY DEF CalmOK
<1>2. Moves(b, key, c)
  BY DEF PressStep
<1>3. c.wrong = b.wrong /\ (c.ready => key = KeySubmit /\ b.page \in ValuePages /\ c.page = b.page /\ c.field = b.field)
  BY <1>2 DEF Moves
<1>4. CASE d.armed = NoArm /\ d.queue \in Surveys
  <2>1. key # 128 /\ Tail(d.queue) \in Surveys \cup {<<>>}
    <3>1. \/ d.queue = <<19, 0, 2, 0>> /\ key = 19 /\ Tail(d.queue) = <<0, 2, 0>>
          \/ d.queue = <<0, 2, 0>> /\ key = 0 /\ Tail(d.queue) = <<2, 0>>
          \/ d.queue = <<2, 0>> /\ key = 2 /\ Tail(d.queue) = <<0>>
          \/ d.queue = <<0>> /\ key = 0 /\ Tail(d.queue) = <<>>
      BY <1>4, QueueHeads, Zenon DEF Surveys
    <3>2. key # 128
      BY <3>1
    <3>3. Tail(d.queue) \in Surveys \cup {<<>>}
      BY <3>1, Zenon DEF Surveys
    <3> QED BY <3>2, <3>3
  <2>2. ~c.ready
    BY <1>3, <2>1 DEF KeySubmit
  <2> QED BY <1>1, <1>3, <1>4, <2>1, <2>2 DEF CalmOK
<1>5. CASE Setting(d, b) /\ d.queue = <<2, 20, 17, 128>>
  <2>1. key = 2 /\ Tail(d.queue) = <<20, 17, 128>>
    BY <1>5, QueueHeads
  <2>2. ~c.ready
    BY <1>3, <2>1 DEF KeySubmit
  <2>3. c.page \notin {TimePage, SwgPage}
    BY <1>2, <2>1 DEF Moves, KeyBack
  <2>4. Setting(e, c)
    BY <1>5, <2>1, <2>3 DEF Setting
  <2> QED BY <1>1, <1>3, <2>2, <2>4 DEF CalmOK
<1>6. CASE Setting(d, b) /\ d.queue = <<20, 17, 128>>
  <2>1. key = 20 /\ Tail(d.queue) = <<17, 128>>
    BY <1>6, QueueHeads
  <2>2. ~c.ready
    BY <1>3, <2>1 DEF KeySubmit
  <2>3. b.page \notin {TimePage, SwgPage}
    BY <1>6 DEF Setting
  <2>4. c.page \notin {TimePage, SwgPage}
    BY <1>2, <2>1, <2>3 DEF Moves
  <2>5. Setting(e, c)
    BY <1>6, <2>1, <2>4 DEF Setting
  <2> QED BY <1>1, <1>3, <2>2, <2>5 DEF CalmOK
<1>7. CASE Setting(d, b) /\ d.queue = <<17, 128>>
  <2>1. key = 17 /\ Tail(d.queue) = <<128>>
    BY <1>7, QueueHeads
  <2>2. ~c.ready
    BY <1>3, <2>1 DEF KeySubmit
  <2>3. b.page \notin {TimePage, SwgPage}
    BY <1>7 DEF Setting
  <2>4. c.page \notin {TimePage, SwgPage} /\ (c.page = SetTempPage => c.field = "heatPool")
    BY <1>2, <2>1, <2>3 DEF Moves
  <2>5. Setting(e, c)
    BY <1>7, <2>1, <2>4 DEF Setting
  <2> QED BY <1>1, <1>3, <2>2, <2>5 DEF CalmOK
<1>8. CASE Setting(d, b) /\ d.queue = <<128>>
  <2>1. key = 128 /\ Tail(d.queue) = <<>>
    BY <1>8, QueueHeads
  <2>2. b.page \notin {TimePage, SwgPage} /\ (b.page = SetTempPage => b.field = "heatPool") /\ d.armed.field = "heatPool"
    BY <1>8 DEF Setting
  <2>3. c.ready => c.field = "heatPool"
    BY <1>3, <2>2 DEF ValuePages
  <2>4. d.armed # NoArm
    BY <2>2 DEF NoArm
  <2> QED BY <1>1, <1>3, <2>1, <2>2, <2>3, <2>4 DEF CalmOK
<1>9. Setting(d, b) => d.queue \in {<<2, 20, 17, 128>>, <<20, 17, 128>>, <<17, 128>>, <<128>>}
  BY DEF Setting
<1> QED BY <1>1, <1>4, <1>5, <1>6, <1>7, <1>8, <1>9

(***************************************************************************)
(* The inductive invariant.                                                *)
(***************************************************************************)

DevType ==
  [emulated : BOOLEAN, op : {"StartUp", "NormalOperation", "FaultHasOccurred", "NotPresent"}, received : BOOLEAN,
   pending : Nat, queue : Seq(Nat), armed : Armed, survey : {"off", "armed", "done"}]
DevOK(d) == d \in DevType /\ Len(d.queue) <= 4

(* No two writers have a goal.                                             *)
WritersOK(s, a, p) ==
  /\ s \in SchedGoals \cup {NoGoal} /\ a \in AquaGoals \cup {NoGoal} /\ p \in SpaGoals \cup {NoGoal}
  /\ s = NoGoal \/ a = NoGoal
  /\ s = NoGoal \/ p = NoGoal
  /\ a = NoGoal \/ p = NoGoal

(* Only an emulation drives the panel.                                     *)
Driven(d, s, a, p) ==
  d.queue # <<>> \/ d.armed # NoArm \/ s # NoGoal \/ a # NoGoal \/ p # NoGoal => d.emulated

IaqShape ==
  /\ DevOK(dev) /\ BoxOK(box) /\ pg \in PageType /\ route \in RouteType /\ StoreOK(store)
  /\ WritersOK(sched, aqua, spa) /\ Driven(dev, sched, aqua, spa)
  /\ ended.over \in Overs
  /\ lost \in Nat /\ late \in Nat /\ overlapped \in BOOLEAN

Calm == ~overlapped /\ lost = 0 /\ late = 0

IaqInv == IaqShape /\ Follows(box, pg, store) /\ (Calm => CalmOK(dev, box, sched, aqua, spa))

LEMMA NewPanelOK ==
  ASSUME NEW rows \in Seq(RowType), NEW has \in BOOLEAN, NEW b, b = Repainted(NewPanel(rows, has))
  PROVE  BoxOK(b) /\ b.paint = Paint(b) /\ b.page = Home /\ b.field = "none" /\ ~b.ready /\ ~b.wrong
<1> DEFINE n == NewPanel(rows, has)
           empty == ""
           none == <<>>
<1>1. n = [page |-> Home, rows |-> rows, row |-> 0, editing |-> FALSE, dialog |-> FALSE, clicked |-> FALSE,
           field |-> "none", pm |-> FALSE, ready |-> FALSE, wrong |-> FALSE, light |-> FALSE, hasAquaPure |-> has,
           window |-> 1, chosen |-> 0, assigned |-> empty, paint |-> none]
  BY DEF NewPanel
<1>2. empty \in Texts /\ none \in Seq(Messages)
  BY SomeTexts, EmptySeq
<1>3. Home \in Pages /\ "none" \in BoxFields
  BY DEF Pages, BoxFields, ArmFields
<1> HIDE DEF n, empty, none
<1>4. n \in BoxType
  BY <1>1, <1>2, <1>3 DEF BoxType
<1>5. n.row = 0 /\ n.rows = rows /\ ~n.dialog /\ n.page = Home /\ n.field = "none" /\ ~n.ready /\ ~n.wrong
  BY <1>1
<1>6. BoxOK(n)
  BY <1>4, <1>5 DEF BoxOK
<1>7. b = Repainted(n)
  BY DEF n
<1> QED BY <1>5, <1>6, <1>7, PaintedAgain

LEMMA IaqStarts == IaqInit => IaqInv
<1> SUFFICES ASSUME IaqInit PROVE IaqInv
  OBVIOUS
<1>1. DevOK(dev) /\ dev.queue = <<>> /\ dev.armed = NoArm /\ dev.pending = 0
  <2> DEFINE none == <<>>
  <2>1. none \in Seq(Nat) /\ Len(none) = 0 /\ NoArm \in Armed
    BY EmptySeq, NothingArmed
  <2>2. CASE dev \in [emulated : BOOLEAN, op : {"StartUp"}, received : {FALSE}, pending : {0}, queue : {none},
                      armed : {NoArm}, survey : {"off", "armed"}]
    <3> HIDE DEF none
    <3>2. dev = [emulated |-> dev.emulated, op |-> dev.op, received |-> dev.received, pending |-> dev.pending,
                 queue |-> dev.queue, armed |-> dev.armed, survey |-> dev.survey]
      BY <2>2
    <3>3. dev.emulated \in BOOLEAN /\ dev.received \in {FALSE}
      BY <2>2
    <3>4. dev.op = "StartUp" /\ dev.survey \in {"off", "armed"} /\ dev.queue = none /\ dev.armed = NoArm /\ dev.pending = 0
      BY <2>2
    <3>5. dev.received \in BOOLEAN
      BY <3>3
    <3>6. dev.op \in {"StartUp", "NormalOperation", "FaultHasOccurred", "NotPresent"} /\ dev.survey \in {"off", "armed", "done"}
      BY <3>4
    <3>7. dev.queue \in Seq(Nat) /\ dev.armed \in Armed /\ dev.pending \in Nat
      BY <2>1, <3>4
    <3>8. dev \in DevType
      BY <3>2, <3>3, <3>5, <3>6, <3>7 DEF DevType
    <3>1. dev \in DevType /\ dev.queue = none /\ dev.armed = NoArm /\ dev.pending = 0
      BY <3>4, <3>8
    <3> QED BY <2>1, <3>1 DEF none, DevOK
  <2>3. CASE dev = [emulated |-> TRUE, op |-> "NormalOperation", received |-> TRUE, pending |-> 0, queue |-> none,
                    armed |-> NoArm, survey |-> "armed"]
    <3> HIDE DEF none
    <3> DEFINE normal == "NormalOperation"
               armed == "armed"
               yes == TRUE
    <3>2. normal \in {"StartUp", "NormalOperation", "FaultHasOccurred", "NotPresent"}
          /\ armed \in {"off", "armed", "done"} /\ yes \in BOOLEAN
      OBVIOUS
    <3>3. dev = [emulated |-> yes, op |-> normal, received |-> yes, pending |-> 0, queue |-> none,
                 armed |-> NoArm, survey |-> armed]
      BY <2>3
    <3> HIDE DEF normal, armed, yes
    <3>1. dev \in DevType /\ dev.queue = none /\ dev.armed = NoArm /\ dev.pending = 0
      BY <2>1, <3>2, <3>3 DEF DevType
    <3> QED BY <2>1, <3>1 DEF none, DevOK
  <2> QED BY <2>2, <2>3 DEF IaqInit
<1>2. BoxOK(box) /\ box.paint = Paint(box) /\ box.page = Home /\ ~box.ready /\ ~box.wrong
  <2>1. PICK panel \in {NewPanel(<<>>, TRUE), NewPanel(<<Printed>>, FALSE)} : box = Repainted(panel)
    BY DEF IaqInit
  <2>2. <<>> \in Seq(RowType) /\ <<Printed>> \in Seq(RowType)
    BY PrintedRow, ShortSequences, EmptySeq
  <2> QED BY <2>1, <2>2, NewPanelOK
<1>3. pg \in PageType
  <2> DEFINE none == <<>>
             empty == ""
  <2>1. pg = [id |-> 0, rows |-> none, devices |-> none, picker |-> none, buttons |-> none, meridiem |-> empty]
    BY DEF IaqInit
  <2>2. none \in Seq(RowType) /\ none \in Seq({"pump"}) /\ none \in Seq(Texts) /\ empty \in Texts
    BY EmptySeq, SomeTexts
  <2>3. none \in PaintedButtons
    <3>1. Buttons(SchedulePage) = none /\ SchedulePage \in Pages
      BY DEF Buttons, Home, Menu, SwgPage, SetupPage, SchedulePage, Pages
    <3> QED BY <3>1 DEF PaintedButtons
  <2> HIDE DEF none, empty
  <2> QED BY <2>1, <2>2, <2>3 DEF PageType
<1>4. route \in RouteType
  BY DEF IaqInit, RouteType
<1>5. StoreOK(store) /\ sched = NoGoal /\ aqua = NoGoal /\ spa = NoGoal
      /\ ended.over \in Overs /\ lost = 0 /\ late = 0 /\ overlapped = FALSE
  BY DEF IaqInit, StoreOK, Overs
<1>6. Follows(box, pg, store)
  BY <1>2, FollowsNew DEF BoxOK
<1>7. CalmOK(dev, box, sched, aqua, spa)
  BY <1>1, <1>2, <1>5 DEF CalmOK
<1>8. IaqShape
  BY <1>1, <1>2, <1>3, <1>4, <1>5 DEF IaqShape, WritersOK, Driven
<1> QED BY <1>6, <1>7, <1>8 DEF IaqInv

(* A page that is painted is the panel's own, complete with its buttons.   *)
LEMMA Synced ==
  ASSUME NEW b \in BoxType, NEW p, NEW s, Follows(b, p, s), b.paint = <<>>
  PROVE  /\ p.id = b.page /\ Shown(p)
         /\ b.page = SchedulePage => s.rows = [i \in DOMAIN b.rows |-> ParseScheduleRow(b.rows[i])]
<1> DEFINE P == Paint(b)
           n == Len(P)
<1>1. PICK k \in 0..n :
        /\ b.paint = SubSeq(P, k + 1, n)
        /\ k > 0 => p.id = b.page
        /\ k > 1 /\ b.page = SwgPage => p.buttons = Buttons(SwgPage)
        /\ k = n /\ b.page = SchedulePage => s.rows = [i \in DOMAIN b.rows |-> ParseScheduleRow(b.rows[i])]
  BY DEF Follows
<1>2. P \in Seq(Messages) /\ n = Len(MiddleOf(b)) + 2 /\ Len(MiddleOf(b)) \in Nat
  BY PaintParts, Zenon
<1> HIDE DEF P
<1>3. k = n
  BY <1>1, <1>2, Suffix
<1>4. k > 0 /\ k > 1
  BY <1>2, <1>3
<1> QED BY <1>1, <1>3, <1>4 DEF Shown

LEMMA IaqInvSafe == IaqInv => WritersSafe
<1> SUFFICES ASSUME IaqInv PROVE WritersSafe
  OBVIOUS
<1> USE DEF IaqInv, IaqShape
<1>1. \/ Goals = {}
      \/ Goals = {sched} /\ sched \in SchedGoals
      \/ Goals = {aqua} /\ aqua \in AquaGoals
      \/ Goals = {spa} /\ spa \in SpaGoals
  BY DEF Goals, HasPendingGoal, WritersOK
<1>2. Cardinality(Goals) <= 1
  <2>1. Goals = {} => Cardinality(Goals) = 0
    BY FS_EmptySet
  <2>2. Cardinality({sched}) = 1 /\ Cardinality({aqua}) = 1 /\ Cardinality({spa}) = 1
    BY FS_Singleton
  <2> QED BY <1>1, <2>1, <2>2
<1>3. ASSUME NEW w \in Goals PROVE w.polls \in 0..(PollLimit + 1) /\ w.settle \in 0..SettlePolls
  <2>1. PollLimit \in Nat
    BY WriterConstants
  <2>2. w \in SchedGoals \/ w \in AquaGoals \/ w \in SpaGoals
    BY <1>1
  <2> QED BY <2>1, <2>2 DEF SchedGoals, AquaGoals, SpaGoals
<1>4. dev.op \in {"StartUp", "NormalOperation", "FaultHasOccurred", "NotPresent"} /\ dev.pending \in Nat
      /\ Len(dev.queue) <= 4 /\ dev.armed.field \in ArmFields
  BY DEF DevOK, DevType, Armed
<1>5. dev.queue # <<>> \/ dev.armed # NoArm \/ Goals # {} => dev.emulated
  BY DEF Driven, Goals, HasPendingGoal
<1>6. IaqTypeOK
  BY <1>3, <1>4, <1>5 DEF IaqTypeOK, ArmFields, Overs
<1>7. ValuesMeant
  BY DEF ValuesMeant, Calm, CalmOK
<1>8. StoreFollows
  <2>1. box \in BoxType
    BY DEF BoxOK
  <2> QED BY <2>1, Synced DEF StoreFollows
<1> QED BY <1>2, <1>6, <1>7, <1>8 DEF WritersSafe, OneWriter

(***************************************************************************)
(* A poll, taken apart.                                                    *)
(***************************************************************************)

Idle(w) == Result(w, Keep, NoArm, "no")
SpaPoll == IF HasPendingGoal(spa) THEN SpaSwitchStep(spa, pg, store.assigned) ELSE Idle(spa)
MenuSeen == ObserveMenuPage(route, pg)
AquaPoll ==
  IF HasPendingGoal(aqua) THEN AquaPureStep(aqua, pg, MenuSeen) ELSE [step |-> Idle(aqua), route |-> MenuSeen]
SchedPoll == IF HasPendingGoal(sched) THEN ScheduleStep(sched, pg) ELSE Idle(sched)
KeyPolled == NextKey(NextKey(NextKey(dev.pending, SpaPoll), AquaPoll.step), SchedPoll)
ArmPolled ==
  IF SchedPoll.arm # NoArm THEN SchedPoll.arm ELSE IF AquaPoll.step.arm # NoArm THEN AquaPoll.step.arm ELSE dev.armed
KeySent == IF dev.queue # <<>> THEN Head(dev.queue) ELSE KeyPolled
QueuePoll == IF dev.queue # <<>> THEN Tail(dev.queue) ELSE dev.queue
PendingPoll == IF dev.queue # <<>> THEN KeyPolled ELSE 0

LEMMA PollIs ==
  ASSUME NEW heard, Poll(heard)
  PROVE  /\ ~box.ready
         /\ late' = IF box.paint = <<>> THEN late ELSE late + 1
         /\ lost' = IF heard THEN lost ELSE lost + 1
         /\ spa' = SpaPoll.w /\ aqua' = AquaPoll.step.w /\ sched' = SchedPoll.w
         /\ route' = AquaPoll.route
         /\ dev' = [Noted(dev) EXCEPT !.armed = ArmPolled, !.queue = IF @ # <<>> THEN Tail(@) ELSE @,
                                      !.pending = PendingPoll]
         /\ ended' = Ended(<<spa, aqua, sched>>, <<SpaPoll, AquaPoll.step, SchedPoll>>)
         /\ box' = IF heard /\ dev.emulated THEN Press(box, KeySent) ELSE box
         /\ pg' = pg /\ store' = store /\ overlapped' = overlapped
BY DEF Poll, Idle, SpaPoll, MenuSeen, AquaPoll, SchedPoll, KeyPolled, ArmPolled, KeySent, PendingPoll

LEMMA IdleStep ==
  ASSUME NEW G
  PROVE  Idle(NoGoal) \in Results(G) /\ Idle(NoGoal).w = NoGoal /\ Idle(NoGoal).cmd = Keep
         /\ Idle(NoGoal).arm = NoArm /\ Idle(NoGoal).over = "no"
<1>1. Keep \in Keys /\ NoArm \in Armed /\ "no" \in Overs
  BY NothingArmed DEF Keys, Overs
<1> DEFINE none == NoGoal
           arm == NoArm
<1>2. Idle(NoGoal) = [w |-> none, cmd |-> Keep, arm |-> arm, over |-> "no"]
  BY DEF Idle, Result
<1> HIDE DEF none, arm
<1>3. Idle(NoGoal) \in [w : G \cup {none}, cmd : Keys, arm : Armed, over : Overs]
      /\ Idle(NoGoal).w = none /\ Idle(NoGoal).cmd = Keep /\ Idle(NoGoal).arm = arm /\ Idle(NoGoal).over = "no"
  BY <1>1, <1>2 DEF arm
<1> QED BY <1>3 DEF none, arm, Results

LEMMA IdleKey ==
  ASSUME NEW key, NEW s, s.cmd = Keep
  PROVE  NextKey(key, s) = key
BY DEF NextKey

LEMMA SomeKey ==
  ASSUME NEW key \in Nat, NEW s, s.cmd \in Keys
  PROVE  NextKey(key, s) \in Nat
BY DEF NextKey, Keys, Keep

(* What the three writers return.                                          *)
LEMMA WritersPoll ==
  ASSUME IaqShape
  PROVE  /\ SchedPoll \in Results(SchedGoals) /\ AquaPoll.step \in Results(AquaGoals) /\ SpaPoll \in Results(SpaGoals)
         /\ AquaPoll.route \in RouteType
         /\ sched = NoGoal => SchedPoll = Idle(NoGoal)
         /\ aqua = NoGoal => AquaPoll.step = Idle(NoGoal)
         /\ spa = NoGoal => SpaPoll = Idle(NoGoal)
         /\ sched # NoGoal => sched \in SchedGoals /\ SchedStep(sched, pg, SchedPoll)
         /\ aqua # NoGoal => aqua \in AquaGoals /\ AquaStep(aqua, pg, AquaPoll.step)
         /\ spa # NoGoal => spa \in SpaGoals /\ SpaStep(spa, pg, SpaPoll)
<1>1. pg \in PageType /\ route \in RouteType /\ sched \in SchedGoals \cup {NoGoal}
      /\ aqua \in AquaGoals \cup {NoGoal} /\ spa \in SpaGoals \cup {NoGoal}
  BY DEF IaqShape, WritersOK
<1>2. MenuSeen \in RouteType
  BY <1>1, MenuObserved DEF MenuSeen
<1>3. sched = NoGoal => SchedPoll = Idle(NoGoal)
  BY DEF SchedPoll, HasPendingGoal
<1>4. sched # NoGoal => sched \in SchedGoals /\ SchedStep(sched, pg, SchedPoll)
  BY <1>1, ScheduleSteps DEF SchedPoll, HasPendingGoal
<1>5. aqua = NoGoal => AquaPoll.step = Idle(NoGoal) /\ AquaPoll.route = MenuSeen
  BY DEF AquaPoll, HasPendingGoal
<1>6. aqua # NoGoal => aqua \in AquaGoals /\ AquaStep(aqua, pg, AquaPoll.step) /\ AquaPoll.route \in RouteType
  <2>1. ASSUME aqua # NoGoal PROVE AquaPoll = AquaPureStep(aqua, pg, MenuSeen) /\ aqua \in AquaGoals
    BY <1>1, <2>1 DEF AquaPoll, HasPendingGoal
  <2> QED BY <1>1, <1>2, <2>1, AquaPureSteps DEF AquaStepped
<1>7. spa = NoGoal => SpaPoll = Idle(NoGoal)
  BY DEF SpaPoll, HasPendingGoal
<1>8. spa # NoGoal => spa \in SpaGoals /\ SpaStep(spa, pg, SpaPoll)
  BY <1>1, SpaSwitchSteps DEF SpaPoll, HasPendingGoal
<1>9. SchedPoll \in Results(SchedGoals)
  BY <1>3, <1>4, IdleStep DEF SchedStep
<1>10. AquaPoll.step \in Results(AquaGoals)
  BY <1>5, <1>6, IdleStep DEF AquaStep
<1>11. SpaPoll \in Results(SpaGoals)
  BY <1>7, <1>8, IdleStep DEF SpaStep
<1> QED BY <1>2, <1>3, <1>4, <1>5, <1>6, <1>7, <1>8, <1>9, <1>10, <1>11

LEMMA KeysPolled ==
  ASSUME IaqShape
  PROVE  KeyPolled \in Nat /\ KeySent \in Nat /\ ArmPolled \in Armed
         /\ QueuePoll \in Seq(Nat) /\ Len(QueuePoll) <= 4 /\ (dev.queue = <<>> => QueuePoll = <<>>)
<1>1. dev.pending \in Nat /\ dev.queue \in Seq(Nat) /\ Len(dev.queue) <= 4 /\ dev.armed \in Armed
  BY DEF IaqShape, DevOK, DevType
<1>2. SpaPoll.cmd \in Keys /\ AquaPoll.step.cmd \in Keys /\ SchedPoll.cmd \in Keys
      /\ SchedPoll.arm \in Armed /\ AquaPoll.step.arm \in Armed
  BY WritersPoll DEF Results
<1>3. KeyPolled \in Nat
  BY <1>1, <1>2, SomeKey DEF KeyPolled
<1>4. dev.queue # <<>> => Head(dev.queue) \in Nat /\ Tail(dev.queue) \in Seq(Nat) /\ Len(Tail(dev.queue)) = Len(dev.queue) - 1
  BY <1>1, HeadTailProperties
<1> QED BY <1>1, <1>2, <1>3, <1>4 DEF KeySent, ArmPolled, QueuePoll

(* Traffic is noted: neither the keys nor the values change.               *)
SameKeys(d, e) == e.emulated = d.emulated /\ e.pending = d.pending /\ e.queue = d.queue /\ e.armed = d.armed

LEMMA NotedType ==
  ASSUME NEW d \in DevType
  PROVE  Noted(d) \in DevType /\ SameKeys(d, Noted(d)) /\ Noted(d).survey = d.survey
<1> DEFINE op == IF d.op = "StartUp" /\ ~d.emulated THEN "NormalOperation" ELSE d.op
           yes == TRUE
<1>1. Noted(d) = [d EXCEPT !.received = yes, !.op = op]
  BY DEF Noted, DevType
<1>2. op \in {"StartUp", "NormalOperation", "FaultHasOccurred", "NotPresent"} /\ yes \in BOOLEAN
  BY DEF DevType
<1> HIDE DEF op, yes
<1> QED BY <1>1, <1>2 DEF DevType, SameKeys

LEMMA DevPolled ==
  ASSUME IaqShape, NEW heard, Poll(heard)
  PROVE  DevOK(dev') /\ dev'.emulated = dev.emulated
         /\ dev'.armed = ArmPolled /\ dev'.queue = QueuePoll /\ dev'.pending = PendingPoll
<1>1. dev \in DevType
  BY DEF IaqShape, DevOK
<1>2. Noted(dev) \in DevType /\ Noted(dev).emulated = dev.emulated /\ Noted(dev).queue = dev.queue
  BY <1>1, NotedType DEF SameKeys
<1>3. dev' = [Noted(dev) EXCEPT !.armed = ArmPolled, !.queue = IF @ # <<>> THEN Tail(@) ELSE @, !.pending = PendingPoll]
  BY PollIs
<1>4. dev' = [Noted(dev) EXCEPT !.armed = ArmPolled, !.queue = QueuePoll, !.pending = PendingPoll]
  BY <1>2, <1>3 DEF QueuePoll, DevType
<1>5. ArmPolled \in Armed /\ QueuePoll \in Seq(Nat) /\ Len(QueuePoll) <= 4 /\ PendingPoll \in Nat
  BY KeysPolled DEF PendingPoll
<1> DEFINE n == Noted(dev)
<1>6. n \in DevType /\ n.emulated = dev.emulated /\ dev' = [n EXCEPT !.armed = ArmPolled, !.queue = QueuePoll, !.pending = PendingPoll]
  BY <1>2, <1>4
<1> HIDE DEF n
<1>7. dev' \in DevType /\ dev'.emulated = dev.emulated /\ dev'.armed = ArmPolled /\ dev'.queue = QueuePoll
      /\ dev'.pending = PendingPoll
  BY <1>5, <1>6 DEF DevType
<1> QED BY <1>5, <1>7 DEF DevOK

(* How the goals that ended, ended.                                        *)
LEMMA EndedOver ==
  ASSUME ended.over \in Overs, NEW before, NEW x, NEW y, NEW z, {x.over, y.over, z.over} \subseteq Overs
  PROVE  Ended(before, <<x, y, z>>).over \in Overs
<1> DEFINE steps == <<x, y, z>>
           over == {i \in 1..3 : steps[i].over # "no"}
<1>1. \A i \in 1..3 : steps[i].over \in Overs
  OBVIOUS
<1> HIDE DEF steps
<1>2. CASE over = {}
  BY <1>2 DEF Ended, steps
<1>3. CASE over # {}
  <2>1. (CHOOSE i \in over : TRUE) \in 1..3
    BY <1>3
  <2> DEFINE i == CHOOSE j \in over : TRUE
  <2>2. Ended(before, steps) = [goal |-> before[i], over |-> steps[i].over]
    BY <1>3 DEF Ended
  <2>3. i \in 1..3
    BY <2>1
  <2> HIDE DEF i
  <2>4. steps[i].over \in Overs
    BY <1>1, <2>3
  <2> QED BY <2>2, <2>4 DEF steps
<1> QED BY <1>2, <1>3

LEMMA WritersPolled ==
  ASSUME IaqShape, NEW heard, Poll(heard)
  PROVE  WritersOK(sched', aqua', spa') /\ Driven(dev', sched', aqua', spa')
<1>1. sched' = SchedPoll.w /\ aqua' = AquaPoll.step.w /\ spa' = SpaPoll.w
  BY PollIs
<1>2. SchedPoll.w \in SchedGoals \cup {NoGoal} /\ AquaPoll.step.w \in AquaGoals \cup {NoGoal}
      /\ SpaPoll.w \in SpaGoals \cup {NoGoal}
  BY WritersPoll DEF Results
<1>3. /\ sched = NoGoal => SchedPoll.w = NoGoal /\ SchedPoll.arm = NoArm
      /\ aqua = NoGoal => AquaPoll.step.w = NoGoal /\ AquaPoll.step.arm = NoArm
      /\ spa = NoGoal => SpaPoll.w = NoGoal
  BY WritersPoll, IdleStep
<1>4. WritersOK(sched', aqua', spa')
  BY <1>1, <1>2, <1>3 DEF IaqShape, WritersOK
<1>5. ASSUME ~dev.emulated
      PROVE  dev'.queue = <<>> /\ dev'.armed = NoArm /\ sched' = NoGoal /\ aqua' = NoGoal /\ spa' = NoGoal
  <2>1. dev.queue = <<>> /\ dev.armed = NoArm /\ sched = NoGoal /\ aqua = NoGoal /\ spa = NoGoal
    BY <1>5 DEF IaqShape, Driven
  <2>2. dev'.armed = ArmPolled /\ dev'.queue = QueuePoll
    BY DevPolled
  <2>3. ArmPolled = NoArm /\ QueuePoll = <<>>
    BY <1>3, <2>1 DEF ArmPolled, QueuePoll
  <2> QED BY <1>1, <1>3, <2>1, <2>2, <2>3
<1>6. dev'.emulated = dev.emulated
  BY DevPolled
<1> QED BY <1>4, <1>5, <1>6 DEF Driven

LEMMA BoxPolled ==
  ASSUME IaqShape, Follows(box, pg, store), NEW heard, Poll(heard)
  PROVE  /\ BoxOK(box') /\ Follows(box', pg', store')
         /\ \/ heard /\ dev.emulated /\ PressStep(box, KeySent, box')
            \/ ~(heard /\ dev.emulated) /\ box' = box
<1>1. box' = (IF heard /\ dev.emulated THEN Press(box, KeySent) ELSE box) /\ pg' = pg /\ store' = store
  BY PollIs
<1>2. BoxOK(box) /\ KeySent \in Nat
  BY KeysPolled DEF IaqShape
<1>3. CASE heard /\ dev.emulated
  <2>1. PressStep(box, KeySent, box')
    BY <1>1, <1>2, <1>3, EveryPress
  <2>2. BoxOK(box') /\ Drawn(box, box')
    BY <2>1 DEF PressStep
  <2>3. box' \in BoxType
    BY <2>2 DEF BoxOK
  <2>4. Follows(box', pg, store)
    BY <2>2, <2>3, FollowsOn
  <2> QED BY <1>1, <1>3, <2>1, <2>2, <2>4
<1>4. CASE ~(heard /\ dev.emulated)
  <2>1. box' = box
    BY <1>1, <1>4
  <2> QED BY <1>1, <1>2, <1>4, <2>1
<1> QED BY <1>3, <1>4

LEMMA ShapePolled ==
  ASSUME IaqShape, Follows(box, pg, store), NEW heard \in BOOLEAN, Poll(heard)
  PROVE  IaqShape'
<1>1. DevOK(dev') /\ WritersOK(sched', aqua', spa') /\ Driven(dev', sched', aqua', spa') /\ BoxOK(box')
  BY DevPolled, WritersPolled, BoxPolled
<1>2. pg' = pg /\ store' = store /\ overlapped' = overlapped /\ route' = AquaPoll.route
      /\ late' = (IF box.paint = <<>> THEN late ELSE late + 1) /\ lost' = (IF heard THEN lost ELSE lost + 1)
      /\ ended' = Ended(<<spa, aqua, sched>>, <<SpaPoll, AquaPoll.step, SchedPoll>>)
  BY PollIs
<1>3. AquaPoll.route \in RouteType
  BY WritersPoll
<1>4. {SpaPoll.over, AquaPoll.step.over, SchedPoll.over} \subseteq Overs
  BY WritersPoll DEF Results
<1>5. ended'.over \in Overs
  BY <1>2, <1>4, EndedOver DEF IaqShape
<1>6. late' \in Nat /\ lost' \in Nat
  BY <1>2 DEF IaqShape
<1>7. pg \in PageType /\ StoreOK(store) /\ overlapped \in BOOLEAN
  BY DEF IaqShape
<1> QED BY <1>1, <1>2, <1>3, <1>5, <1>6, <1>7 DEF IaqShape

LEMMA CalmPolled ==
  ASSUME IaqInv, NEW heard \in BOOLEAN, Poll(heard), Calm'
  PROVE  CalmOK(dev', box', sched', aqua', spa')
<1>1. Calm /\ heard /\ box.paint = <<>>
  <2>1. late' = (IF box.paint = <<>> THEN late ELSE late + 1) /\ lost' = (IF heard THEN lost ELSE lost + 1)
        /\ overlapped' = overlapped
    BY PollIs
  <2>2. late \in Nat /\ lost \in Nat
    BY DEF IaqInv, IaqShape
  <2>3. ~overlapped' /\ lost' = 0 /\ late' = 0
    BY DEF Calm
  <2>4. box.paint = <<>> /\ late = 0
    BY <2>1, <2>2, <2>3
  <2>5. heard /\ lost = 0
    BY <2>1, <2>2, <2>3
  <2> QED BY <2>1, <2>3, <2>4, <2>5 DEF Calm
<1>2. IaqShape /\ Follows(box, pg, store) /\ CalmOK(dev, box, sched, aqua, spa)
  BY <1>1 DEF IaqInv
<1>3. ~box.ready /\ sched' = SchedPoll.w /\ aqua' = AquaPoll.step.w /\ spa' = SpaPoll.w
  BY PollIs
<1>4. dev'.armed = ArmPolled /\ dev'.queue = QueuePoll /\ dev'.pending = PendingPoll
  BY <1>2, DevPolled
<1>5. pg.id = box.page /\ Shown(pg)
  BY <1>1, <1>2, Synced DEF IaqShape, BoxOK
<1>6. /\ \/ dev.emulated /\ PressStep(box, KeySent, box')
         \/ ~dev.emulated /\ box' = box
  BY <1>1, <1>2, BoxPolled
<1>7. /\ sched = NoGoal => SchedPoll.w = NoGoal /\ SchedPoll.arm = NoArm /\ SchedPoll.cmd = Keep
      /\ aqua = NoGoal => AquaPoll.step.w = NoGoal /\ AquaPoll.step.arm = NoArm /\ AquaPoll.step.cmd = Keep
      /\ spa = NoGoal => SpaPoll.w = NoGoal /\ SpaPoll.arm = NoArm /\ SpaPoll.cmd = Keep
  BY <1>2, WritersPoll, IdleStep
<1>8. SchedPoll.arm \in Armed /\ AquaPoll.step.arm \in Armed
  BY <1>2, WritersPoll DEF Results
<1>9. /\ sched = NoGoal \/ aqua = NoGoal
      /\ sched = NoGoal \/ spa = NoGoal
      /\ aqua = NoGoal \/ spa = NoGoal
  BY <1>2 DEF IaqShape, WritersOK
<1>10. sched # NoGoal \/ aqua # NoGoal \/ spa # NoGoal => dev.emulated /\ dev.queue = <<>> /\ dev.armed = NoArm
  BY <1>2, <1>3 DEF IaqShape, Driven, CalmOK
<1>11. CASE sched # NoGoal
  <2>1. aqua = NoGoal /\ spa = NoGoal /\ dev.emulated /\ dev.queue = <<>> /\ dev.armed = NoArm
    BY <1>9, <1>10, <1>11
  <2>2. sched \in SchedGoals /\ SchedStep(sched, pg, SchedPoll)
    BY <1>2, <1>11, WritersPoll
  <2>3. KeyPolled = NextKey(dev.pending, SchedPoll) /\ KeySent = KeyPolled
    BY <1>7, <2>1, IdleKey DEF KeyPolled, KeySent
  <2>4. ArmPolled = SchedPoll.arm /\ QueuePoll = <<>> /\ PendingPoll = 0
    BY <1>7, <2>1 DEF ArmPolled, QueuePoll, PendingPoll
  <2>5. PressStep(box, KeyPolled, box')
    BY <1>6, <2>1, <2>3
  <2>6. CalmOK(dev, box, sched, NoGoal, NoGoal)
    BY <1>2, <2>1
  <2>7. CalmOK(dev', box', SchedPoll.w, NoGoal, NoGoal)
    BY <1>3, <1>4, <1>5, <1>8, <2>2, <2>3, <2>4, <2>5, <2>6, SchedPolled
  <2> QED BY <1>3, <1>7, <2>1, <2>7
<1>12. CASE aqua # NoGoal
  <2>1. sched = NoGoal /\ spa = NoGoal /\ dev.emulated /\ dev.queue = <<>> /\ dev.armed = NoArm
    BY <1>9, <1>10, <1>12
  <2>2. aqua \in AquaGoals /\ AquaKeys(aqua, pg, AquaPoll.step)
    BY <1>2, <1>5, <1>12, WritersPoll DEF AquaStep
  <2>3. KeyPolled = NextKey(dev.pending, AquaPoll.step) /\ KeySent = KeyPolled
    BY <1>7, <2>1, IdleKey DEF KeyPolled, KeySent
  <2>4. ArmPolled = AquaPoll.step.arm /\ QueuePoll = <<>> /\ PendingPoll = 0
    BY <1>7, <2>1 DEF ArmPolled, QueuePoll, PendingPoll
  <2>5. PressStep(box, KeyPolled, box')
    BY <1>6, <2>1, <2>3
  <2>6. CalmOK(dev, box, NoGoal, aqua, NoGoal)
    BY <1>2, <2>1
  <2>7. CalmOK(dev', box', NoGoal, AquaPoll.step.w, NoGoal)
    BY <1>3, <1>4, <1>5, <1>8, <2>2, <2>3, <2>4, <2>5, <2>6, AquaPolled
  <2> QED BY <1>3, <1>7, <2>1, <2>7
<1>13. CASE spa # NoGoal
  <2>1. sched = NoGoal /\ aqua = NoGoal /\ dev.emulated /\ dev.queue = <<>> /\ dev.armed = NoArm
    BY <1>9, <1>10, <1>13
  <2>2. spa \in SpaGoals /\ SpaStep(spa, pg, SpaPoll)
    BY <1>2, <1>13, WritersPoll
  <2>3. KeyPolled = NextKey(dev.pending, SpaPoll) /\ KeySent = KeyPolled
    BY <1>7, <2>1, IdleKey DEF KeyPolled, KeySent
  <2>4. ArmPolled = SpaPoll.arm /\ QueuePoll = <<>> /\ PendingPoll = 0
    <3>1. SpaPoll.arm = NoArm
      BY <2>2 DEF SpaStep
    <3> QED BY <1>7, <2>1, <3>1 DEF ArmPolled, QueuePoll, PendingPoll
  <2>5. PressStep(box, KeyPolled, box')
    BY <1>6, <2>1, <2>3
  <2>6. CalmOK(dev, box, NoGoal, NoGoal, spa)
    BY <1>2, <2>1
  <2>7. CalmOK(dev', box', NoGoal, NoGoal, SpaPoll.w)
    BY <1>3, <1>4, <1>5, <2>2, <2>3, <2>4, <2>5, <2>6, SpaPolled
  <2> QED BY <1>3, <1>7, <2>1, <2>7
<1>14. CASE sched = NoGoal /\ aqua = NoGoal /\ spa = NoGoal
  <2>1. sched' = NoGoal /\ aqua' = NoGoal /\ spa' = NoGoal /\ KeyPolled = dev.pending /\ ArmPolled = dev.armed
    BY <1>3, <1>7, <1>14, IdleKey DEF KeyPolled, ArmPolled
  <2>2. CalmOK(dev, box, NoGoal, NoGoal, NoGoal)
    BY <1>2, <1>14
  <2>3. CASE dev.queue = <<>> /\ dev.emulated
    <3>1. PressStep(box, dev.pending, box')
      BY <1>6, <2>1, <2>3 DEF KeySent
    <3>2. dev'.queue = <<>> /\ dev'.pending = 0 /\ dev'.armed = dev.armed
      BY <1>4, <2>1, <2>3 DEF QueuePoll, PendingPoll
    <3>3. CalmOK(dev', box', NoGoal, NoGoal, NoGoal)
      BY <1>3, <2>2, <2>3, <3>1, <3>2, IdlePolled
    <3> QED BY <2>1, <3>3
  <2>4. CASE dev.queue # <<>>
    <3>1. dev.emulated
      BY <1>2, <2>4 DEF IaqShape, Driven
    <3>2. PressStep(box, Head(dev.queue), box')
      BY <1>6, <2>4, <3>1 DEF KeySent
    <3>3. dev'.queue = Tail(dev.queue) /\ dev'.pending = dev.pending /\ dev'.armed = dev.armed
      BY <1>4, <2>1, <2>4 DEF QueuePoll, PendingPoll
    <3>4. CalmOK(dev', box', NoGoal, NoGoal, NoGoal)
      BY <1>3, <2>2, <2>4, <3>2, <3>3, QueuePolled
    <3> QED BY <2>1, <3>4
  <2>5. CASE dev.queue = <<>> /\ ~dev.emulated
    <3>1. box' = box
      BY <1>6, <2>5
    <3>2. dev'.queue = <<>> /\ dev'.pending = 0
      BY <1>4, <2>5 DEF QueuePoll, PendingPoll
    <3>3. ~box'.ready /\ ~box'.wrong
      BY <1>3, <2>2, <3>1 DEF CalmOK
    <3> QED BY <2>1, <3>2, <3>3 DEF CalmOK
  <2> QED BY <2>3, <2>4, <2>5
<1> QED BY <1>11, <1>12, <1>13, <1>14

(***************************************************************************)
(* The other steps.                                                        *)
(***************************************************************************)

(* A message that leaves the keys, the values and the goals alone.         *)
LEMMA QuietStep ==
  ASSUME IaqInv, DevOK(dev'), SameKeys(dev, dev'), BoxOK(box'), Follows(box', pg', store'),
         box'.page = box.page, box'.field = box.field, box'.ready = box.ready, box'.wrong = box.wrong,
         pg' \in PageType, StoreOK(store'), route' \in RouteType,
         UNCHANGED <<sched, aqua, spa, ended, lost, late>>, overlapped' \in BOOLEAN, overlapped => overlapped'
  PROVE  IaqInv'
<1>1. IaqShape'
  BY DEF IaqInv, IaqShape, SameKeys, Driven
<1>2. ASSUME Calm' PROVE CalmOK(dev', box', sched', aqua', spa')
  <2>1. CalmOK(dev, box, sched, aqua, spa)
    BY <1>2 DEF Calm, IaqInv
  <2> QED BY <2>1 DEF CalmOK, SameKeys, Setting
<1> QED BY <1>1, <1>2 DEF IaqInv

LEMMA NotedOK ==
  ASSUME NEW d, DevOK(d)
  PROVE  DevOK(Noted(d)) /\ SameKeys(d, Noted(d))
BY NotedType DEF DevOK, SameKeys

LEMMA PageKept ==
  ASSUME IaqInv, PageMessage
  PROVE  IaqInv'
<1>1. BoxOK(box) /\ pg \in PageType /\ StoreOK(store) /\ Follows(box, pg, store) /\ DevOK(dev) /\ route \in RouteType
      /\ overlapped \in BOOLEAN
  BY DEF IaqInv, IaqShape
<1>2. /\ pg' \in PageType /\ StoreOK(store') /\ BoxOK(box') /\ Follows(box', pg', store')
      /\ box'.page = box.page /\ box'.field = box.field /\ box'.ready = box.ready /\ box'.wrong = box.wrong
  BY <1>1, PageFollows
<1>3. dev' = Noted(dev) /\ route' = ObserveMenuPage(route, pg') /\ UNCHANGED <<sched, aqua, spa, ended, lost, late, overlapped>>
  BY DEF PageMessage, ProcessControllerUpdates
<1>4. route' \in RouteType
  BY <1>1, <1>2, <1>3, MenuObserved
<1>5. DevOK(dev') /\ SameKeys(dev, dev')
  BY <1>1, <1>3, NotedOK
<1> QED BY <1>1, <1>2, <1>3, <1>4, <1>5, QuietStep

(* Nothing but the device and the menu's route changes.                    *)
LEMMA DeviceOnly ==
  ASSUME IaqInv, DevOK(dev'), SameKeys(dev, dev'), route' \in RouteType,
         UNCHANGED <<pg, sched, aqua, spa, store, box, ended, lost, late>>, overlapped' \in BOOLEAN, overlapped => overlapped'
  PROVE  IaqInv'
<1>1. BoxOK(box) /\ pg \in PageType /\ StoreOK(store) /\ Follows(box, pg, store)
  BY DEF IaqInv, IaqShape
<1> QED BY <1>1, QuietStep

LEMMA OtherKept ==
  ASSUME IaqInv, OtherMessage
  PROVE  IaqInv'
<1>1. pg \in PageType /\ DevOK(dev) /\ route \in RouteType /\ overlapped \in BOOLEAN
  BY DEF IaqInv, IaqShape
<1>2. dev' = Noted(dev) /\ route' = ObserveMenuPage(route, pg)
      /\ UNCHANGED <<pg, sched, aqua, spa, store, box, ended, lost, late, overlapped>>
  BY DEF OtherMessage, ProcessControllerUpdates
<1>3. route' \in RouteType
  BY <1>1, <1>2, MenuObserved
<1>4. DevOK(dev') /\ SameKeys(dev, dev')
  BY <1>1, <1>2, NotedOK
<1> QED BY <1>1, <1>2, <1>3, <1>4, DeviceOnly

(* The device starts to operate, or turns out to be missing or faulty.     *)
WithOp(d, op) == [d EXCEPT !.op = op]
OpStates == {"StartUp", "NormalOperation", "FaultHasOccurred", "NotPresent"}

LEMMA OpChanged ==
  ASSUME NEW d, DevOK(d), NEW op \in OpStates
  PROVE  DevOK(WithOp(d, op)) /\ SameKeys(d, WithOp(d, op))
<1>1. WithOp(d, op) \in DevType /\ SameKeys(d, WithOp(d, op))
  BY DEF DevOK, DevType, WithOp, OpStates, SameKeys
<1> QED BY <1>1 DEF DevOK, SameKeys

LEMMA OpNow ==
  ASSUME NEW d, DevOK(d)
  PROVE  d.op \in OpStates /\ "NormalOperation" \in OpStates /\ "FaultHasOccurred" \in OpStates /\ "NotPresent" \in OpStates
BY DEF DevOK, DevType, OpStates

LEMMA HeartbeatKept ==
  ASSUME IaqInv, Slot_IAQ_Heartbeat
  PROVE  IaqInv'
<1>1. DevOK(dev) /\ route \in RouteType /\ overlapped \in BOOLEAN
  BY DEF IaqInv, IaqShape
<1> DEFINE op == IF dev.op = "StartUp" /\ ~dev.emulated THEN "NormalOperation" ELSE dev.op
<1>2. dev' = WithOp(dev, op) /\ UNCHANGED <<pg, sched, aqua, spa, route, store, box, ended, lost, late, overlapped>>
  BY <1>1 DEF Slot_IAQ_Heartbeat, WithOp, DevOK, DevType
<1>3. op \in OpStates
  BY <1>1, OpNow
<1> HIDE DEF op
<1>4. DevOK(dev') /\ SameKeys(dev, dev')
  BY <1>1, <1>2, <1>3, OpChanged
<1> QED BY <1>1, <1>2, <1>4, DeviceOnly

LEMMA WatchdogKept ==
  ASSUME IaqInv, WatchdogTimeoutOccurred
  PROVE  IaqInv'
<1>1. DevOK(dev) /\ route \in RouteType /\ overlapped \in BOOLEAN
  BY DEF IaqInv, IaqShape
<1> DEFINE op == IF dev.received THEN "FaultHasOccurred" ELSE "NotPresent"
<1>2. dev' = WithOp(dev, op) /\ UNCHANGED <<pg, sched, aqua, spa, route, store, box, ended, lost, late, overlapped>>
  BY DEF WatchdogTimeoutOccurred, WithOp
<1>3. op \in OpStates
  BY <1>1, OpNow
<1> HIDE DEF op
<1>4. DevOK(dev') /\ SameKeys(dev, dev')
  BY <1>1, <1>2, <1>3, OpChanged
<1> QED BY <1>1, <1>2, <1>4, DeviceOnly

LEMMA AuxStatusKept ==
  ASSUME IaqInv, Slot_IAQ_AuxStatus
  PROVE  IaqInv'
<1>1. pg \in PageType /\ DevOK(dev) /\ route \in RouteType /\ overlapped \in BOOLEAN
  BY DEF IaqInv, IaqShape
<1> DEFINE op == IF dev.op = "StartUp" THEN "NormalOperation" ELSE dev.op
<1>2. dev' = Noted(WithOp(dev, op)) /\ route' = ObserveMenuPage(route, pg)
      /\ UNCHANGED <<pg, sched, aqua, spa, store, box, ended, lost, late, overlapped>>
  BY <1>1 DEF Slot_IAQ_AuxStatus, WithOp, DevOK, DevType
<1>3. op \in OpStates
  BY <1>1, OpNow
<1> HIDE DEF op
<1>4. DevOK(WithOp(dev, op)) /\ SameKeys(dev, WithOp(dev, op))
  BY <1>1, <1>3, OpChanged
<1>5. DevOK(dev') /\ SameKeys(dev, dev')
  BY <1>2, <1>4, NotedOK DEF SameKeys
<1>6. route' \in RouteType
  BY <1>1, <1>2, MenuObserved
<1> QED BY <1>1, <1>2, <1>5, <1>6, DeviceOnly

(* A free channel: no goal, nothing queued, nothing armed.                 *)
LEMMA FreeChannel ==
  ASSUME ~ChannelBusy
  PROVE  sched = NoGoal /\ aqua = NoGoal /\ spa = NoGoal /\ dev.queue = <<>> /\ dev.armed = NoArm
BY DEF ChannelBusy, IsBusy, Goals, HasPendingGoal

LEMMA CalmIsQuiet ==
  ASSUME IaqInv, Calm, ~ChannelBusy
  PROVE  ~box.ready /\ ~box.wrong /\ dev.pending \in {0, 20}
BY FreeChannel DEF IaqInv, CalmOK

(* The survey of the pages starts.                                         *)
WithSurvey(d) == [d EXCEPT !.survey = "done", !.queue = <<19, 0, 2, 0>>]

LEMMA SurveyKeys ==
  <<19, 0, 2, 0>> \in Seq(Nat) /\ Len(<<19, 0, 2, 0>>) = 4 /\ <<19, 0, 2, 0>> # <<>> /\ <<19, 0, 2, 0>> \in Surveys
<1>1. <<19, 0, 2, 0>> \in Seq(Nat) /\ Len(<<19, 0, 2, 0>>) = 4
  OBVIOUS
<1>2. <<19, 0, 2, 0>> # <<>>
  OBVIOUS
<1> QED BY <1>1, <1>2, Zenon DEF Surveys

LEMMA SurveyStarted ==
  ASSUME NEW d, DevOK(d)
  PROVE  /\ DevOK(WithSurvey(d)) /\ WithSurvey(d).queue = <<19, 0, 2, 0>> /\ WithSurvey(d).emulated = d.emulated
         /\ WithSurvey(d).armed = d.armed /\ WithSurvey(d).pending = d.pending
<1> DEFINE keys == <<19, 0, 2, 0>>
           done == "done"
<1>1. keys \in Seq(Nat) /\ Len(keys) = 4 /\ done \in {"off", "armed", "done"}
  BY SurveyKeys
<1>2. WithSurvey(d) = [d EXCEPT !.survey = done, !.queue = keys]
  BY DEF WithSurvey
<1> HIDE DEF keys, done
<1>3. /\ WithSurvey(d) \in DevType /\ WithSurvey(d).queue = keys /\ WithSurvey(d).emulated = d.emulated
      /\ WithSurvey(d).armed = d.armed /\ WithSurvey(d).pending = d.pending
  BY <1>1, <1>2 DEF DevOK, DevType
<1> QED BY <1>1, <1>3 DEF DevOK, keys

LEMMA MainStatusKept ==
  ASSUME IaqInv, Slot_IAQ_MainStatus
  PROVE  IaqInv'
<1> DEFINE d == MaybeStartPageSurvey(dev)
           op == IF d.op = "StartUp" THEN "NormalOperation" ELSE d.op
<1>1. pg \in PageType /\ DevOK(dev) /\ route \in RouteType /\ overlapped \in BOOLEAN
  BY DEF IaqInv, IaqShape
<1>2. \/ d = dev
      \/ dev.emulated /\ d = WithSurvey(dev)
  BY DEF MaybeStartPageSurvey, WithSurvey, BuildSurveyCommandSequence, KeyDwell, KeyBack
<1>3. DevOK(d) /\ d.emulated = dev.emulated /\ d.armed = dev.armed /\ d.pending = dev.pending
      /\ (d.queue = dev.queue \/ (d.queue = <<19, 0, 2, 0>> /\ dev.emulated))
  <2> HIDE DEF d
  <2>1. /\ DevOK(WithSurvey(dev)) /\ WithSurvey(dev).queue = <<19, 0, 2, 0>> /\ WithSurvey(dev).emulated = dev.emulated
        /\ WithSurvey(dev).armed = dev.armed /\ WithSurvey(dev).pending = dev.pending
    BY <1>1, SurveyStarted
  <2> QED BY <1>1, <1>2, <2>1, Zenon
<1>4. dev' = Noted([d EXCEPT !.op = IF @ = "StartUp" THEN "NormalOperation" ELSE @])
      /\ route' = ObserveMenuPage(route, pg) /\ overlapped' = (overlapped \/ (d.queue # dev.queue /\ ChannelBusy))
      /\ UNCHANGED <<pg, sched, aqua, spa, store, box, ended, lost, late>>
  BY DEF Slot_IAQ_MainStatus
<1> HIDE DEF d
<1>5. dev' = Noted(WithOp(d, op))
  BY <1>3, <1>4 DEF WithOp, DevOK, DevType
<1>6. op \in OpStates
  BY <1>3, OpNow
<1> HIDE DEF op
<1>7. DevOK(dev') /\ SameKeys(d, dev')
  <2>1. DevOK(WithOp(d, op)) /\ SameKeys(d, WithOp(d, op))
    BY <1>3, <1>6, OpChanged
  <2>2. DevOK(dev') /\ SameKeys(WithOp(d, op), dev')
    BY <1>5, <2>1, NotedOK
  <2> QED BY <2>1, <2>2 DEF SameKeys
<1>8. route' \in RouteType /\ overlapped' \in BOOLEAN
  BY <1>1, <1>4, MenuObserved
<1>9. CASE d.queue = dev.queue
  <2>1. SameKeys(dev, dev')
    BY <1>3, <1>7, <1>9 DEF SameKeys
  <2> QED BY <1>4, <1>7, <1>8, <2>1, DeviceOnly
<1>10. CASE d.queue # dev.queue
  <2>1. dev.emulated /\ dev'.emulated /\ dev'.queue = <<19, 0, 2, 0>> /\ dev'.armed = dev.armed /\ dev'.pending = dev.pending
    BY <1>3, <1>7, <1>10 DEF SameKeys
  <2>2. IaqShape'
    BY <1>4, <1>7, <1>8, <2>1 DEF IaqInv, IaqShape, Driven
  <2>3. Follows(box', pg', store')
    BY <1>4 DEF IaqInv
  <2>4. ASSUME Calm' PROVE CalmOK(dev', box', sched', aqua', spa')
    <3>1. Calm /\ ~ChannelBusy
      BY <1>4, <1>10, <2>4 DEF Calm
    <3>2. ~box.ready /\ ~box.wrong /\ dev.pending \in {0, 20} /\ sched = NoGoal /\ aqua = NoGoal /\ spa = NoGoal
          /\ dev.armed = NoArm
      BY <3>1, FreeChannel, CalmIsQuiet
    <3>3. dev'.queue \in Surveys /\ dev'.armed = NoArm /\ dev'.pending \in {0, 20}
      BY <2>1, <3>2, SurveyKeys
    <3> QED BY <1>4, <3>2, <3>3 DEF CalmOK
  <2> QED BY <2>2, <2>3, <2>4 DEF IaqInv
<1> QED BY <1>9, <1>10

(* The panel asks for its value.                                           *)
WithArm(d, value) == [d EXCEPT !.armed = value]
NotReady(b) == [b EXCEPT !.ready = FALSE]

LEMMA ControlReadyKept ==
  ASSUME IaqInv, Slot_IAQ_ControlReady
  PROVE  IaqInv'
<1>1. BoxOK(box) /\ pg \in PageType /\ StoreOK(store) /\ Follows(box, pg, store) /\ DevOK(dev) /\ route \in RouteType
      /\ overlapped \in BOOLEAN /\ Driven(dev, sched, aqua, spa)
  BY DEF IaqInv, IaqShape
<1>2. box.ready /\ UNCHANGED <<pg, sched, aqua, spa, store, ended, lost, late, overlapped>>
  BY DEF Slot_IAQ_ControlReady
<1>3. CASE dev.armed # NoArm
  <2>1. dev.emulated /\ dev' = WithArm(dev, NoArm) /\ route' = route /\ box' = Take(box, dev.armed)
    BY <1>1, <1>3 DEF Slot_IAQ_ControlReady, Driven, WithArm
  <2>2. dev.armed \in Armed
    BY <1>1 DEF DevOK, DevType
  <2>3. TakeStep(box, dev.armed, box')
    BY <1>1, <2>1, <2>2, ValueTaken
  <2>4. dev' \in DevType /\ dev'.armed = NoArm /\ dev'.queue = dev.queue /\ dev'.pending = dev.pending
        /\ dev'.emulated = dev.emulated
    BY <1>1, <2>1, NothingArmed DEF DevOK, DevType, WithArm
  <2>5. DevOK(dev') /\ Driven(dev', sched', aqua', spa')
    BY <1>1, <1>2, <2>1, <2>4 DEF DevOK, Driven
  <2>6. BoxOK(box') /\ Drawn(box, box') /\ ~box'.ready /\ box'.wrong = (box.wrong \/ dev.armed.field # box.field)
        /\ ((box'.page = box.page /\ box'.field = box.field) \/ box'.page = SchedulePage)
    BY <2>3 DEF TakeStep
  <2>7. Follows(box', pg', store')
    <3>1. box' \in BoxType
      BY <2>6 DEF BoxOK
    <3>2. Follows(box', pg, store)
      BY <1>1, <2>6, <3>1, FollowsOn
    <3> QED BY <1>2, <3>2
  <2>8. IaqShape'
    BY <1>1, <1>2, <2>1, <2>5, <2>6 DEF IaqInv, IaqShape
  <2>9. ASSUME Calm' PROVE CalmOK(dev', box', sched', aqua', spa')
    <3>1. CalmOK(dev, box, sched, aqua, spa)
      BY <1>2, <2>9 DEF IaqInv, Calm
    <3>2. ~box.wrong /\ dev.armed.field = box.field /\ dev.queue = <<>> /\ dev.pending \in {0, 20}
      BY <1>2, <3>1 DEF CalmOK
    <3>3. ~box'.wrong /\ ~box'.ready /\ dev'.queue = <<>> /\ dev'.armed = NoArm /\ dev'.pending \in {0, 20}
      BY <2>4, <2>6, <3>2
    <3>4. SchedulePage # TimePage /\ SchedulePage # SwgPage
      BY DEF SchedulePage, TimePage, SwgPage
    <3>5. sched # NoGoal /\ sched.opened /\ box'.page = TimePage
            => box'.field = IF sched.phase = "SetOnTime" THEN "on" ELSE "off"
      <4>1. sched # NoGoal /\ sched.opened /\ box.page = TimePage
              => box.field = IF sched.phase = "SetOnTime" THEN "on" ELSE "off"
        BY <3>1 DEF CalmOK
      <4> QED BY <2>6, <3>4, <4>1
    <3>6. aqua # NoGoal /\ aqua.phase = "Submit" /\ box'.page = SwgPage => box'.field = aqua.body
      <4>1. aqua # NoGoal /\ aqua.phase = "Submit" /\ box.page = SwgPage => box.field = aqua.body
        BY <3>1 DEF CalmOK
      <4> QED BY <2>6, <3>4, <4>1
    <3> QED BY <1>2, <3>3, <3>5, <3>6 DEF CalmOK
  <2> QED BY <2>7, <2>8, <2>9 DEF IaqInv
<1>4. CASE dev.armed = NoArm
  <2>1. dev' = Noted(dev) /\ box' = NotReady(box) /\ pg' = pg /\ route' = ObserveMenuPage(route, pg')
    BY <1>4 DEF Slot_IAQ_ControlReady, ProcessControllerUpdates, NotReady
  <2>2. DevOK(dev') /\ SameKeys(dev, dev') /\ route' \in RouteType
    BY <1>1, <2>1, NotedOK, MenuObserved
  <2>3. box' \in BoxType /\ SamePicture(box, box') /\ box'.paint = box.paint /\ box'.row = box.row /\ box'.dialog = box.dialog
    BY <1>1, <2>1 DEF BoxOK, BoxType, NotReady, SamePicture
  <2>4. BoxOK(box') /\ Drawn(box, box')
    BY <1>1, <2>3 DEF BoxOK, Drawn, SamePicture
  <2>5. Follows(box', pg, store)
    BY <1>1, <2>3, <2>4, FollowsOn
  <2>6. IaqShape'
    BY <1>1, <1>2, <2>2, <2>4 DEF IaqInv, IaqShape, Driven, SameKeys
  <2>7. ~Calm'
    <3>1. ASSUME Calm' PROVE FALSE
      <4>1. CalmOK(dev, box, sched, aqua, spa)
        BY <1>2, <3>1 DEF IaqInv, Calm
      <4> QED BY <1>2, <1>4, <4>1 DEF CalmOK
    <3> QED BY <3>1
  <2> QED BY <1>2, <2>5, <2>6, <2>7 DEF IaqInv
<1> QED BY <1>3, <1>4

(***************************************************************************)
(* The requests.                                                           *)
(***************************************************************************)

(* A goal is taken up on a free channel.                                   *)
LEMMA GoalTaken ==
  ASSUME IaqInv, ~ChannelBusy, dev.emulated, WritersOK(sched', aqua', spa'),
         sched' # NoGoal => ~sched'.opened, aqua' # NoGoal => aqua'.phase # "Submit",
         UNCHANGED <<dev, pg, route, store, box, ended, lost, late, overlapped>>
  PROVE  IaqInv'
<1>1. IaqShape'
  BY DEF IaqInv, IaqShape, Driven
<1>2. Follows(box', pg', store')
  BY DEF IaqInv
<1>3. ASSUME Calm' PROVE CalmOK(dev', box', sched', aqua', spa')
  <2>1. Calm
    BY <1>3 DEF Calm
  <2>2. ~box.ready /\ ~box.wrong /\ dev.pending \in {0, 20} /\ dev.queue = <<>> /\ dev.armed = NoArm
    BY <2>1, FreeChannel, CalmIsQuiet
  <2> QED BY <2>2 DEF CalmOK
<1> QED BY <1>1, <1>2, <1>3 DEF IaqInv

LEMMA NewScheduleGoal ==
  ASSUME NEW op \in {"Create", "Edit", "Delete"}, NEW match \in AskedPrograms, NEW program \in AskedPrograms
  PROVE  ScheduleGoal(op, match, program) \in SchedGoals /\ ~ScheduleGoal(op, match, program).opened
<1>1. PollLimit \in Nat /\ SettlePolls \in Nat
  BY WriterConstants
<1> DEFINE phase == "NavigateToList"
           no == FALSE
           phases == {"NavigateToList", "AddProgram", "SelectDevice", "SetOnTime", "SetOffTime", "SetDay",
                      "Verify", "SelectRow", "PressEdit", "PressDelete", "ConfirmDelete", "VerifyGone"}
           ops == {"Create", "Edit", "Delete"}
           g == ScheduleGoal(op, match, program)
<1>2. phase \in phases /\ no \in BOOLEAN /\ ~no /\ 0 \in 0..PollLimit /\ 0 \in 0..SettlePolls /\ op \in ops
  BY <1>1
<1>3. g = [op |-> op, program |-> program, match |-> match, phase |-> phase, polls |-> 0, settle |-> 0,
           scrolls |-> 0, added |-> no, clicked |-> no, opened |-> no]
  BY DEF ScheduleGoal
<1>4. SchedGoals = {w \in [op : ops, program : AskedPrograms, match : AskedPrograms, phase : phases, polls : 0..PollLimit,
                           settle : 0..SettlePolls, scrolls : Nat, added : BOOLEAN, clicked : BOOLEAN, opened : BOOLEAN] :
                      w.opened => w.phase \in {"SetOnTime", "SetOffTime"}}
  BY DEF SchedGoals
<1> HIDE DEF phase, no, phases, ops, g
<1>5. g \in [op : ops, program : AskedPrograms, match : AskedPrograms, phase : phases, polls : 0..PollLimit,
             settle : 0..SettlePolls, scrolls : Nat, added : BOOLEAN, clicked : BOOLEAN, opened : BOOLEAN]
  BY <1>2, <1>3
<1>6. ~g.opened
  BY <1>2, <1>3
<1> QED BY <1>4, <1>5, <1>6 DEF g

LEMMA ScheduleKept ==
  ASSUME IaqInv, NEW op \in {"Create", "Edit", "Delete"}, NEW match \in AskedPrograms, NEW program \in AskedPrograms,
         RequestSchedule(op, match, program)
  PROVE  IaqInv'
<1>1. dev.emulated /\ ~ChannelBusy
  <2>1. \/ "Accepted" = QueueCreate(sched, dev.emulated, ChannelBusy, program)
        \/ "Accepted" = QueueDelete(sched, dev.emulated, ChannelBusy, match)
        \/ "Accepted" = QueueEdit(sched, dev.emulated, ChannelBusy, match, program)
    BY DEF RequestSchedule
  <2> QED BY <2>1 DEF QueueCreate, QueueDelete, QueueEdit
<1>2. sched' = ScheduleGoal(op, match, program)
      /\ UNCHANGED <<dev, pg, aqua, spa, route, store, box, ended, lost, late, overlapped>>
  BY DEF RequestSchedule
<1>3. sched' \in SchedGoals /\ ~sched'.opened
  BY <1>2, NewScheduleGoal
<1>4. aqua' = NoGoal /\ spa' = NoGoal
  BY <1>1, <1>2, FreeChannel
<1>5. WritersOK(sched', aqua', spa')
  BY <1>3, <1>4 DEF WritersOK
<1> QED BY <1>1, <1>2, <1>3, <1>4, <1>5, GoalTaken

LEMMA AquaGoalOf ==
  ASSUME NEW op \in {"Percentage", "Boost"}, NEW n \in Int, NEW body \in {"Pool", "Spa", "Boost"},
         op = "Boost" <=> body = "Boost",
         NEW g, g = [op |-> op, n |-> n, body |-> body, phase |-> "Navigate", polls |-> 0, settle |-> 0,
                     unwinds |-> 0, tries |-> 0]
  PROVE  g \in AquaGoals /\ g.phase # "Submit"
<1>1. PollLimit \in Nat /\ SettlePolls \in Nat
  BY WriterConstants
<1> DEFINE phase == "Navigate"
           phases == {"Navigate", "SelectField", "Submit", "ReturnHome", "Failed"}
           ops == {"Percentage", "Boost"}
           bodies == {"Pool", "Spa", "Boost"}
<1>2. phase \in phases /\ phase # "Submit" /\ 0 \in 0..(PollLimit + 1) /\ 0 \in 0..SettlePolls /\ op \in ops /\ body \in bodies
  BY <1>1
<1>3. g = [op |-> op, n |-> n, body |-> body, phase |-> phase, polls |-> 0, settle |-> 0, unwinds |-> 0, tries |-> 0]
  OBVIOUS
<1>4. AquaGoals = {w \in [op : ops, n : Int, body : bodies, phase : phases, polls : 0..(PollLimit + 1),
                          settle : 0..SettlePolls, unwinds : Nat, tries : Nat] :
                     /\ w.op = "Boost" <=> w.body = "Boost"
                     /\ w.op = "Boost" => w.phase # "Submit"}
  BY DEF AquaGoals
<1> HIDE DEF phase, phases, ops, bodies
<1>5. g \in [op : ops, n : Int, body : bodies, phase : phases, polls : 0..(PollLimit + 1),
             settle : 0..SettlePolls, unwinds : Nat, tries : Nat]
  BY <1>2, <1>3
<1>6. g.op = op /\ g.body = body /\ g.phase = phase
  BY <1>3
<1> QED BY <1>2, <1>4, <1>5, <1>6

LEMMA Armable ==
  ASSUME NEW pending, NEW emulated, NEW busy, NEW r, ArmAquaPure(pending, emulated, busy, r) = "Accepted"
  PROVE  emulated /\ ~busy
BY DEF ArmAquaPure

(* A goal of the AquaPure writer.                                          *)
LEMMA AquaTaken ==
  ASSUME IaqInv, dev.emulated, ~ChannelBusy, aqua' \in AquaGoals, aqua'.phase # "Submit",
         UNCHANGED <<dev, pg, sched, spa, route, store, box, ended, lost, late, overlapped>>
  PROVE  IaqInv'
<1>1. sched' = NoGoal /\ spa' = NoGoal
  BY FreeChannel
<1>2. WritersOK(sched', aqua', spa')
  BY <1>1 DEF WritersOK
<1> QED BY <1>1, <1>2, GoalTaken

LEMMA PercentageKept ==
  ASSUME IaqInv, SetChlorinatorPercentage(50, "Spa")
  PROVE  IaqInv'
<1>1. ArmAquaPure(aqua, dev.emulated, ChannelBusy, route) = "Accepted" /\ aqua' = PercentageGoal(50, "Spa")
      /\ UNCHANGED <<dev, pg, sched, spa, route, store, box, ended, lost, late, overlapped>>
  BY DEF SetChlorinatorPercentage, QueuePercentage
<1>2. dev.emulated /\ ~ChannelBusy
  BY <1>1, Armable
<1>3. aqua' = [op |-> "Percentage", n |-> 50, body |-> "Spa", phase |-> "Navigate", polls |-> 0, settle |-> 0,
               unwinds |-> 0, tries |-> 0]
  BY <1>1 DEF PercentageGoal
<1>4. "Percentage" \in {"Percentage", "Boost"} /\ "Spa" \in {"Pool", "Spa", "Boost"} /\ 50 \in Int
      /\ ("Percentage" = "Boost" <=> "Spa" = "Boost")
  OBVIOUS
<1>5. aqua' \in AquaGoals /\ aqua'.phase # "Submit"
  BY <1>3, <1>4, AquaGoalOf
<1> QED BY <1>1, <1>2, <1>5, AquaTaken

LEMMA BoostKept ==
  ASSUME IaqInv, SetChlorinatorBoost(TRUE)
  PROVE  IaqInv'
<1>1. ArmAquaPure(aqua, dev.emulated, ChannelBusy, route) = "Accepted" /\ aqua' = BoostGoal(TRUE)
      /\ UNCHANGED <<dev, pg, sched, spa, route, store, box, ended, lost, late, overlapped>>
  BY DEF SetChlorinatorBoost
<1>2. dev.emulated /\ ~ChannelBusy
  BY <1>1, Armable
<1>3. aqua' = [op |-> "Boost", n |-> 1, body |-> "Boost", phase |-> "Navigate", polls |-> 0, settle |-> 0,
               unwinds |-> 0, tries |-> 0]
  BY <1>1 DEF BoostGoal, PercentageGoal
<1>4. "Boost" \in {"Percentage", "Boost"} /\ "Boost" \in {"Pool", "Spa", "Boost"} /\ 1 \in Int
  OBVIOUS
<1>5. aqua' \in AquaGoals /\ aqua'.phase # "Submit"
  BY <1>3, <1>4, AquaGoalOf
<1> QED BY <1>1, <1>2, <1>5, AquaTaken

LEMMA SpaGoalOf ==
  ASSUME NEW ordinal \in Nat, NEW function \in Texts
  PROVE  SpaSwitchGoal(ordinal, function) \in SpaGoals
<1>1. PollLimit \in Nat /\ SettlePolls \in Nat /\ "unseen" \in Texts
  BY WriterConstants, SomeTexts
<1> DEFINE op == "SpaSwitch"
           phase == "Navigate"
           unseen == "unseen"
           no == FALSE
           phases == {"Navigate", "SelectRow", "FindFunction", "Verify"}
           ops == {"SpaSwitch"}
<1>2. phase \in phases /\ op \in ops /\ 0 \in 0..PollLimit /\ 0 \in 0..SettlePolls /\ unseen \in Texts /\ no \in BOOLEAN
  BY <1>1
<1>3. SpaSwitchGoal(ordinal, function) =
        [op |-> op, ordinal |-> ordinal, function |-> function, phase |-> phase, polls |-> 0, settle |-> 0,
         scrolls |-> 0, selected |-> no, first |-> unseen]
  BY DEF SpaSwitchGoal
<1>4. SpaGoals = [op : ops, ordinal : Nat, function : Texts, phase : phases, polls : 0..PollLimit,
                  settle : 0..SettlePolls, scrolls : Nat, selected : BOOLEAN, first : Texts]
  BY DEF SpaGoals
<1> HIDE DEF op, phase, unseen, no, phases, ops
<1> QED BY <1>2, <1>3, <1>4

LEMMA AssignmentKept ==
  ASSUME IaqInv, SetSpaSwitchAssignment(1, 1, "Light")
  PROVE  IaqInv'
<1>1. QueueSpaSwitch(spa, dev.emulated, ChannelBusy, 1, 1, "Light") = "Accepted"
      /\ spa' = SpaSwitchGoal((1 - 1) * 4 + 1, "Light")
      /\ UNCHANGED <<dev, pg, sched, aqua, route, store, box, ended, lost, late, overlapped>>
  BY DEF SetSpaSwitchAssignment
<1>2. dev.emulated /\ ~ChannelBusy
  BY <1>1 DEF QueueSpaSwitch
<1>3. "Light" \in Texts /\ (1 - 1) * 4 + 1 \in Nat
  <2>1. "Light" \in Texts
    BY SomeTexts
  <2>2. (1 - 1) * 4 + 1 \in Nat
    OBVIOUS
  <2> QED BY <2>1, <2>2
<1>4. spa' \in SpaGoals
  BY <1>1, <1>3, SpaGoalOf
<1>5. sched' = NoGoal /\ aqua' = NoGoal
  BY <1>1, <1>2, FreeChannel
<1>6. WritersOK(sched', aqua', spa')
  BY <1>4, <1>5 DEF WritersOK
<1> QED BY <1>1, <1>2, <1>5, <1>6, GoalTaken

(* The set-point's keys and value.                                         *)
WithSetpoint(d) == [d EXCEPT !.queue = <<2, 20, 17, 128>>, !.armed = [field |-> "heatPool", n |-> 80]]

LEMMA SetpointKeys ==
  /\ <<2, 20, 17, 128>> \in Seq(Nat) /\ Len(<<2, 20, 17, 128>>) = 4 /\ <<2, 20, 17, 128>> # <<>>
  /\ [field |-> "heatPool", n |-> 80] \in Armed /\ [field |-> "heatPool", n |-> 80].field = "heatPool"
<1>1. <<2, 20, 17, 128>> \in Seq(Nat) /\ Len(<<2, 20, 17, 128>>) = 4
  OBVIOUS
<1>2. <<2, 20, 17, 128>> # <<>>
  OBVIOUS
<1>3. "heatPool" \in ArmFields /\ "heatPool" # "none" /\ 80 \in Int
  BY DEF ArmFields
<1> QED BY <1>1, <1>2, <1>3, ArmedValue

LEMMA SetpointQueued ==
  ASSUME NEW d, DevOK(d)
  PROVE  /\ DevOK(WithSetpoint(d)) /\ WithSetpoint(d).queue = <<2, 20, 17, 128>>
         /\ WithSetpoint(d).armed.field = "heatPool" /\ WithSetpoint(d).emulated = d.emulated
         /\ WithSetpoint(d).pending = d.pending
<1> DEFINE keys == <<2, 20, 17, 128>>
           value == [field |-> "heatPool", n |-> 80]
<1>1. keys \in Seq(Nat) /\ Len(keys) = 4 /\ value \in Armed /\ value.field = "heatPool"
  BY SetpointKeys
<1>2. WithSetpoint(d) = [d EXCEPT !.queue = keys, !.armed = value]
  BY DEF WithSetpoint
<1> HIDE DEF keys, value
<1>3. /\ WithSetpoint(d) \in DevType /\ WithSetpoint(d).queue = keys /\ WithSetpoint(d).armed = value
      /\ WithSetpoint(d).emulated = d.emulated /\ WithSetpoint(d).pending = d.pending
  BY <1>1, <1>2 DEF DevOK, DevType
<1> QED BY <1>1, <1>3 DEF DevOK, keys

LEMMA SetpointKept ==
  ASSUME IaqInv, QueueSetpoint(17, "heatPool", 80)
  PROVE  IaqInv'
<1>1. DevOK(dev) /\ overlapped \in BOOLEAN
  BY DEF IaqInv, IaqShape
<1>2. dev.emulated /\ dev' = WithSetpoint(dev) /\ overlapped' = (overlapped \/ ChannelBusy)
      /\ UNCHANGED <<pg, sched, aqua, spa, route, store, box, ended, lost, late>>
  BY DEF QueueSetpoint, WithSetpoint, KeyBack, KeySubmit
<1>3. DevOK(dev') /\ dev'.queue = <<2, 20, 17, 128>> /\ dev'.armed.field = "heatPool" /\ dev'.emulated
      /\ dev'.pending = dev.pending
  BY <1>1, <1>2, SetpointQueued
<1>4. IaqShape'
  BY <1>1, <1>2, <1>3 DEF IaqInv, IaqShape, Driven, ChannelBusy
<1>5. Follows(box', pg', store')
  BY <1>2 DEF IaqInv
<1>6. ASSUME Calm' PROVE CalmOK(dev', box', sched', aqua', spa')
  <2>1. Calm /\ ~ChannelBusy
    BY <1>2, <1>6 DEF Calm
  <2>2. ~box.ready /\ ~box.wrong /\ dev.pending \in {0, 20} /\ sched = NoGoal /\ aqua = NoGoal /\ spa = NoGoal
    BY <2>1, FreeChannel, CalmIsQuiet
  <2>3. Setting(dev', box')
    BY <1>3 DEF Setting
  <2> QED BY <1>2, <1>3, <2>2, <2>3 DEF CalmOK
<1> QED BY <1>4, <1>5, <1>6 DEF IaqInv

(* The buttons of every page.                                              *)
LEMMA PageButtons ==
  /\ Buttons(Home) = HomeButtons
  /\ \A p \in Pages : p # Home =>
       \/ Buttons(p) = [i \in {8} |-> "AquaPure"]
       \/ Buttons(p) = [i \in 0..2 |-> SwgFields[i + 1]]
       \/ Buttons(p) = [i \in {5} |-> "Spa Remotes"]
       \/ Buttons(p) = <<>>
<1>1. Buttons(Home) = HomeButtons
  BY DEF Buttons, Home, Menu, SwgPage, SetupPage
<1>2. Buttons(Menu) = [i \in {8} |-> "AquaPure"]
  BY DEF Buttons, Home, Menu, SwgPage, SetupPage
<1>3. Buttons(SwgPage) = [i \in 0..2 |-> SwgFields[i + 1]]
  BY DEF Buttons, Home, Menu, SwgPage, SetupPage
<1>4. Buttons(SetupPage) = [i \in {5} |-> "Spa Remotes"]
  BY DEF Buttons, Home, Menu, SwgPage, SetupPage
<1>5. ASSUME NEW p, p \notin {Home, Menu, SwgPage, SetupPage} PROVE Buttons(p) = <<>>
  BY <1>5, Zenon DEF Buttons
<1> QED BY <1>1, <1>2, <1>3, <1>4, <1>5, Zenon

(* The light's button is on the home page only, in its place there.        *)
LEMMA LightButton ==
  ASSUME NEW page \in PageType, FindButtonContaining(page, "Light") # NoIndex
  PROVE  ButtonKey(FindButtonContaining(page, "Light")) = 20
<1> DEFINE at == {i \in DOMAIN page.buttons : page.buttons[i] = "Light"}
<1>1. FindButtonContaining(page, "Light") = IF at = {} THEN NoIndex ELSE CHOOSE i \in at : \A j \in at : i <= j
  BY DEF FindButtonContaining
<1>2. at # {}
  BY <1>1
<1>3. page.buttons \in PaintedButtons
  BY DEF PageType
<1>4. PICK p \in Pages : page.buttons = Buttons(p)
  BY <1>3 DEF PaintedButtons
<1>5. p = Home
  <2>1. SUFFICES ASSUME p # Home PROVE at = {}
    BY <1>2
  <2>2. \/ Buttons(p) = [i \in {8} |-> "AquaPure"]
        \/ Buttons(p) = [i \in 0..2 |-> SwgFields[i + 1]]
        \/ Buttons(p) = [i \in {5} |-> "Spa Remotes"]
        \/ Buttons(p) = <<>>
    BY <2>1, PageButtons
  <2>3. CASE Buttons(p) = [i \in {8} |-> "AquaPure"]
    BY <1>4, <2>3
  <2>4. CASE Buttons(p) = [i \in 0..2 |-> SwgFields[i + 1]]
    <3>1. \A i \in 0..2 : SwgFields[i + 1] \in {"Pool", "Spa", "Boost"}
      BY DEF SwgFields
    <3> QED BY <1>4, <2>4, <3>1
  <2>5. CASE Buttons(p) = [i \in {5} |-> "Spa Remotes"]
    BY <1>4, <2>5
  <2>6. CASE Buttons(p) = <<>>
    BY <1>4, <2>6
  <2> QED BY <2>2, <2>3, <2>4, <2>5, <2>6
<1>6. page.buttons = [i \in {3} |-> "Light"]
  BY <1>4, <1>5, PageButtons DEF HomeButtons
<1>7. at = {3}
  BY <1>6
<1> HIDE DEF at
<1>8. (CHOOSE i \in at : \A j \in at : i <= j) = 3
  BY <1>7
<1>9. FindButtonContaining(page, "Light") = 3
  BY <1>1, <1>2, <1>8
<1> QED BY <1>9 DEF ButtonKey

WithKey(d, key) == [d EXCEPT !.pending = key]

LEMMA ButtonKept ==
  ASSUME IaqInv, ActuateDevice("Light", TRUE)
  PROVE  IaqInv'
<1>1. DevOK(dev) /\ overlapped \in BOOLEAN /\ pg \in PageType
  BY DEF IaqInv, IaqShape
<1>2. FindButtonContaining(pg, "Light") # NoIndex /\ dev' = WithKey(dev, ButtonKey(FindButtonContaining(pg, "Light")))
      /\ overlapped' = (overlapped \/ ChannelBusy)
      /\ UNCHANGED <<pg, sched, aqua, spa, route, store, box, ended, lost, late>>
  BY DEF ActuateDevice, WithKey
<1>3. dev' = WithKey(dev, 20)
  BY <1>1, <1>2, LightButton
<1>4. DevOK(dev') /\ dev'.queue = dev.queue /\ dev'.armed = dev.armed /\ dev'.emulated = dev.emulated /\ dev'.pending = 20
  <2>1. dev' \in DevType /\ dev'.queue = dev.queue /\ dev'.armed = dev.armed /\ dev'.emulated = dev.emulated
        /\ dev'.pending = 20
    BY <1>1, <1>3 DEF DevOK, DevType, WithKey
  <2> QED BY <1>1, <2>1 DEF DevOK
<1>5. IaqShape'
  BY <1>1, <1>2, <1>4 DEF IaqInv, IaqShape, Driven, ChannelBusy
<1>6. Follows(box', pg', store')
  BY <1>2 DEF IaqInv
<1>7. ASSUME Calm' PROVE CalmOK(dev', box', sched', aqua', spa')
  <2>1. CalmOK(dev, box, sched, aqua, spa)
    BY <1>2, <1>7 DEF Calm, IaqInv
  <2> QED BY <1>2, <1>4, <2>1 DEF CalmOK, Setting
<1> QED BY <1>5, <1>6, <1>7 DEF IaqInv

LEMMA IaqKept == IaqInv /\ [IaqNext]_iaqVars => IaqInv'
<1> SUFFICES ASSUME IaqInv, [IaqNext]_iaqVars PROVE IaqInv'
  OBVIOUS
<1>1. CASE UNCHANGED iaqVars
  <2>1. UNCHANGED <<dev, pg, sched, aqua, spa, route, store, box, ended, lost, late, overlapped>>
    BY <1>1 DEF iaqVars
  <2> QED BY <2>1 DEF IaqInv, IaqShape, Calm
<1>2. ASSUME NEW heard \in BOOLEAN, Poll(heard) PROVE IaqInv'
  <2>1. IaqShape /\ Follows(box, pg, store)
    BY DEF IaqInv
  <2>2. IaqShape' /\ Follows(box', pg', store')
    BY <1>2, <2>1, ShapePolled, BoxPolled
  <2>3. Calm' => CalmOK(dev', box', sched', aqua', spa')
    BY <1>2, CalmPolled
  <2> QED BY <2>2, <2>3 DEF IaqInv
<1>3. ASSUME NEW p \in Programs, RequestSchedule("Create", p, p) PROVE IaqInv'
  BY <1>3, ScheduleKept DEF AskedPrograms
<1>4. CASE RequestSchedule("Delete", ParseScheduleRow(Printed), ParseScheduleRow(Printed))
  BY <1>4, ScheduleKept DEF AskedPrograms
<1>5. ASSUME NEW p \in Programs, RequestSchedule("Edit", ParseScheduleRow(Printed), p) PROVE IaqInv'
  BY <1>5, ScheduleKept DEF AskedPrograms
<1>6. CASE PageMessage
  BY <1>6, PageKept
<1>7. CASE Slot_IAQ_ControlReady
  BY <1>7, ControlReadyKept
<1>8. CASE Slot_IAQ_MainStatus
  BY <1>8, MainStatusKept
<1>9. CASE Slot_IAQ_AuxStatus
  BY <1>9, AuxStatusKept
<1>10. CASE OtherMessage
  BY <1>10, OtherKept
<1>11. CASE Slot_IAQ_Heartbeat
  BY <1>11, HeartbeatKept
<1>12. CASE WatchdogTimeoutOccurred
  BY <1>12, WatchdogKept
<1>13. CASE SetChlorinatorPercentage(50, "Spa")
  BY <1>13, PercentageKept
<1>14. CASE SetChlorinatorBoost(TRUE)
  BY <1>14, BoostKept
<1>15. CASE SetSpaSwitchAssignment(1, 1, "Light")
  BY <1>15, AssignmentKept
<1>16. CASE QueueSetpoint(17, "heatPool", 80)
  BY <1>16, SetpointKept
<1>17. CASE ActuateDevice("Light", TRUE)
  BY <1>17, ButtonKept
<1> QED BY <1>1, <1>2, <1>3, <1>4, <1>5, <1>6, <1>7, <1>8, <1>9, <1>10, <1>11, <1>12, <1>13, <1>14, <1>15, <1>16, <1>17
     DEF IaqNext, Polled

(***************************************************************************)
(* One writer at a time drives the panel, its values land in the fields    *)
(* they were meant for unless keys were queued over a goal, a poll's       *)
(* answer was missed or a key fell on a page half painted, and the store   *)
(* lists what the panel does (iaq_device.cpp ChannelBusy,                  *)
(* iaq_aquapure_writer.cpp StepSubmit, iaq_schedule_writer.cpp             *)
(* SetTimeField, iaq_page_model.cpp PublishSchedulePage).                  *)
(***************************************************************************)
THEOREM WritersAreSafe == IaqSpec => []WritersSafe
<1>1. IaqSpec => []IaqInv
  BY IaqStarts, IaqKept, PTL DEF IaqSpec
<1> QED BY <1>1, IaqInvSafe, PTL

(***************************************************************************)
(* The composition: a step of the part in focus is a step of that part and *)
(* leaves the others alone.                                                *)
(***************************************************************************)
LEMMA PartsStep ==
  ASSUME [ControllersNext]_controllersVars
  PROVE  /\ [DispatchNext]_dispatchVars /\ [IaqNext]_iaqVars /\ [CellNext]_chlorVars
         /\ [StartNext]_startVars /\ [RemoteNext]_remoteVars
<1>1. CASE ControllersNext
  <2>1. \/ UNCHANGED <<iaqVars, chlorVars, startVars, remoteVars>> /\ DispatchNext
        \/ UNCHANGED <<dispatchVars, chlorVars, startVars, remoteVars>> /\ IaqNext
        \/ UNCHANGED <<dispatchVars, iaqVars, startVars, remoteVars>> /\ CellNext
        \/ UNCHANGED <<dispatchVars, iaqVars, chlorVars, remoteVars>> /\ StartNext
        \/ UNCHANGED <<dispatchVars, iaqVars, chlorVars, startVars>> /\ RemoteNext
    BY <1>1, Zenon DEF ControllersNext, RemoteNext
  <2> QED BY <2>1
<1>2. CASE UNCHANGED controllersVars
  BY <1>2 DEF controllersVars
<1> QED BY <1>1, <1>2

LEMMA PartsKept ==
  ASSUME DispatchInv, IaqInv, CellInv, StartInv, RemoteInv, [ControllersNext]_controllersVars
  PROVE  DispatchInv' /\ IaqInv' /\ CellInv' /\ StartInv' /\ RemoteInv'
BY PartsStep, DispatchKept, IaqKept, CellConstants, CellKept, StartUpConstants, StartUpKept, RemoteKept

LEMMA PartsStart == ControllersInit => DispatchInv /\ IaqInv /\ CellInv /\ StartInv /\ RemoteInv
<1> SUFFICES ASSUME ControllersInit PROVE DispatchInv /\ IaqInv /\ CellInv /\ StartInv /\ RemoteInv
  OBVIOUS
<1>1. DispatchInit /\ IaqInit /\ CellInit /\ StartInit /\ RemoteInit
  BY Zenon DEF ControllersInit
<1> QED BY <1>1, DispatchStarts, IaqStarts, CellConstants, CellStarts, StartUpConstants, StartUpStarts, RemoteStarts

LEMMA PartsAreSafe == DispatchInv /\ IaqInv /\ CellInv /\ StartInv /\ RemoteInv => DispatchSafe /\ WritersSafe /\ CellSafe /\ BusShared
BY DispatchInvIsSafe, IaqInvSafe, CellConstants, CellInvIsSafe, StartInvIsSafe, RemoteInvIsSafe DEF BusShared

(* No emulation speaks where a real device was known, none twice, and the  *)
(* presses on the bus are reported once and told apart, while requests are *)
(* carried out once, the writers' values land where they were meant to and *)
(* the cell is shown steadily.                                             *)
THEOREM BusIsShared == ControllersSpec => [](DispatchSafe /\ WritersSafe /\ CellSafe /\ BusShared)
<1> DEFINE Parts == DispatchInv /\ IaqInv /\ CellInv /\ StartInv /\ RemoteInv
<1>1. ControllersInit => Parts
  BY PartsStart
<1>2. Parts /\ [ControllersNext]_controllersVars => Parts'
  BY PartsKept
<1>3. Parts => DispatchSafe /\ WritersSafe /\ CellSafe /\ BusShared
  BY PartsAreSafe
<1> HIDE DEF Parts
<1> QED BY <1>1, <1>2, <1>3, PTL DEF ControllersSpec
=============================================================================
