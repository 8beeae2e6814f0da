--------------------------- MODULE LLMDispatch_proofs ---------------------------
(***************************************************************************)
(* Proofs about LLMDispatch, for every set of calls and endpoints and all  *)
(* limits, windows, cooldowns and thresholds.  The tokens of a set of      *)
(* calls are a fold; the lemmas about it are proved by induction over the  *)
(* subsets of Calls, with a set of sets where a predicate would stand.     *)
(***************************************************************************)
EXTENDS LLMDispatch, FiniteSetTheorems, WellFoundedInduction, TLAPS

-----------------------------------------------------------------------------
(* Least and greatest.                                                      *)

LEMMA MinIsIn ==
    ASSUME NEW S, S \subseteq Nat, S # {}
    PROVE  Min(S) \in S /\ \A u \in S : Min(S) <= u
  <1>1. PICK x \in S : \A y \in S : ~ (<<y, x>> \in OpToRel(<, Nat))
    BY NatLessThanWellFounded, WFMin
  <1>2. \A y \in S : ~ (y < x)
    BY <1>1 DEF OpToRel
  <1>3. \A y \in S : x <= y
    BY <1>2
  <1> QED
    BY <1>3 DEF Min

LEMMA MaxOfPair ==
    ASSUME NEW a \in Int, NEW b \in Int
    PROVE  Max({a, b}) = IF a >= b THEN a ELSE b
  <1> DEFINE m == IF a >= b THEN a ELSE b
  <1>1. m \in {a, b} /\ \A y \in {a, b} : m >= y
    OBVIOUS
  <1>2. \A x \in {a, b} : (\A y \in {a, b} : x >= y) => x = m
    OBVIOUS
  <1>3. Max({a, b}) \in {a, b} /\ \A y \in {a, b} : Max({a, b}) >= y
    BY <1>1 DEF Max
  <1> QED
    BY <1>2, <1>3

LEMMA MaxOfThree ==
    ASSUME NEW a \in Int, NEW b \in Int, NEW c \in Int
    PROVE  Max({a, b, c}) \in {a, b, c}
  <1> DEFINE m == IF a >= b THEN IF a >= c THEN a ELSE c
                  ELSE IF b >= c THEN b ELSE c
  <1>1. m \in {a, b, c} /\ \A y \in {a, b, c} : m >= y
    OBVIOUS
  <1> QED
    BY <1>1 DEF Max

LEMMA MinOfPair ==
    ASSUME NEW a \in Nat, NEW b \in Nat
    PROVE  Min({a, b}) = IF a <= b THEN a ELSE b
  <1>1. Min({a, b}) \in {a, b} /\ \A y \in {a, b} : Min({a, b}) <= y
    BY MinIsIn
  <1> QED
    BY <1>1

\* The longest wait is the window.
LEMMA LongestWait == Max({Window, 1}) = Window
  BY MaxOfPair, DispatchAssumption

\* Induction over the naturals, for a set in place of a predicate.
LEMMA AllNaturals ==
    ASSUME NEW S, 0 \in S, \A i \in Nat : i \in S => i + 1 \in S
    PROVE  Nat \subseteq S
  <1>1. PICK Bad : Bad = {i \in Nat : i \notin S}
    OBVIOUS
  <1> SUFFICES ASSUME Bad # {} PROVE FALSE
    BY <1>1
  <1>2. PICK x \in Bad : \A y \in Bad : ~ (<<y, x>> \in OpToRel(<, Nat))
    BY <1>1, NatLessThanWellFounded, WFMin
  <1>3. \A y \in Bad : ~ (y < x)
    BY <1>1, <1>2 DEF OpToRel
  <1>4. x \in Nat /\ x # 0
    BY <1>1
  <1>5. x - 1 \in Nat /\ x - 1 < x /\ (x - 1) + 1 = x
    BY <1>4
  <1>6. x - 1 \in S
    BY <1>1, <1>3, <1>5
  <1> QED
    BY <1>1, <1>5, <1>6

-----------------------------------------------------------------------------
(* Sums of tokens.                                                          *)

\* Induction over the calls of a finite set, for a set of sets in place of a
\* predicate: least counterexamples have a least cardinality.
LEMMA SubsetsAll ==
    ASSUME NEW P, {} \in P,
           \A A \in SUBSET Calls : A # {} /\ (\A x \in A : A \ {x} \in P) => A \in P
    PROVE  SUBSET Calls \subseteq P
  <1>1. PICK Bad : Bad = {A \in SUBSET Calls : A \notin P}
    OBVIOUS
  <1> SUFFICES ASSUME Bad # {} PROVE FALSE
    BY <1>1
  <1>2. PICK N : N = {Cardinality(A) : A \in Bad}
    OBVIOUS
  <1>3. \A A \in SUBSET Calls : IsFiniteSet(A) /\ Cardinality(A) \in Nat
    BY DispatchAssumption, FS_Subset, FS_CardinalityType
  <1>4. N \subseteq Nat /\ N # {}
    BY <1>1, <1>2, <1>3
  <1>5. Min(N) \in N /\ \A n \in N : Min(N) <= n
    BY <1>4, MinIsIn
  <1>6. PICK A \in Bad : Cardinality(A) = Min(N)
    BY <1>2, <1>5
  <1>7. ASSUME NEW x \in A PROVE A \ {x} \in P
    <2>1. A \in SUBSET Calls /\ A \ {x} \in SUBSET Calls
      BY <1>1
    <2>2. Cardinality(A \ {x}) = Cardinality(A) - 1
      BY <1>3, <2>1, FS_RemoveElement
    <2>3. Cardinality(A \ {x}) \in Nat /\ Cardinality(A) \in Nat
      BY <1>3, <2>1
    <2>4. Cardinality(A \ {x}) \notin N
      BY <1>5, <1>6, <2>2, <2>3
    <2> QED
      BY <1>1, <1>2, <2>1, <2>4
  <1> QED
    BY <1>1, <1>7

\* The call the sum takes first, and a sum over the sets of D.
First(s) == CHOOSE x \in s : TRUE

IsSum(f, D) ==
    f = [s \in D |-> IF s = {} THEN 0 ELSE Est[First(s)] + f[s \ {First(s)}]]

LEMMA TokensIsSum ==
    ASSUME NEW S
    PROVE  Tokens(S) = (CHOOSE f : IsSum(f, SUBSET S))[S]
  BY DEF Tokens, MapThenSumSet, MapThenFoldSet, IsSum, First

LEMMA FirstIsIn == ASSUME NEW s, s # {} PROVE First(s) \in s
  BY DEF First

\* Such a sum exists: one more element at a time.
LEMMA SumExists ==
    ASSUME NEW S \in SUBSET Calls
    PROVE  \E f : IsSum(f, SUBSET S)
  <1> DEFINE Small(n) == {s \in SUBSET S : Cardinality(s) <= n}
  <1>0. \A s \in SUBSET S : IsFiniteSet(s) /\ Cardinality(s) \in Nat
    BY DispatchAssumption, FS_Subset, FS_CardinalityType
  <1> DEFINE T == {n \in Nat : \E f : IsSum(f, Small(n))}
  <1>1. 0 \in T
    <2>1. \A s \in Small(0) : s = {}
      BY <1>0, FS_EmptySet
    <2>2. PICK f : f = [s \in Small(0) |-> 0]
      OBVIOUS
    <2>3. IsSum(f, Small(0))
      BY <2>1, <2>2 DEF IsSum
    <2> QED
      BY <2>3
  <1>2. ASSUME NEW n \in Nat, n \in T PROVE n + 1 \in T
    <2>1. PICK f : IsSum(f, Small(n))
      BY <1>2
    <2>2. PICK g : g = [s \in Small(n + 1) |->
                          IF s = {} THEN 0 ELSE Est[First(s)] + f[s \ {First(s)}]]
      OBVIOUS
    <2>3. Small(n) \subseteq Small(n + 1)
      BY <1>0
    <2>4. \A s \in Small(n) : g[s] = f[s]
      <3> HIDE DEF Small
      <3> QED
        BY <2>1, <2>2, <2>3 DEF IsSum
    <2>5. ASSUME NEW s \in Small(n + 1), s # {} PROVE s \ {First(s)} \in Small(n)
      <3>1. First(s) \in s /\ s \in SUBSET S /\ s \ {First(s)} \in SUBSET S
        BY <2>5, FirstIsIn
      <3>2. Cardinality(s \ {First(s)}) = Cardinality(s) - 1
        BY <1>0, <3>1, FS_RemoveElement
      <3>3. Cardinality(s) <= n + 1 /\ Cardinality(s) \in Nat
        BY <1>0
      <3> QED
        BY <3>1, <3>2, <3>3
    <2>6. IsSum(g, Small(n + 1))
      <3> HIDE DEF Small
      <3>1. \A s \in Small(n + 1) :
                g[s] = IF s = {} THEN 0 ELSE Est[First(s)] + g[s \ {First(s)}]
        BY <2>2, <2>4, <2>5
      <3>2. g = [s \in Small(n + 1) |-> g[s]]
        BY <2>2
      <3> QED
        BY <3>1, <3>2 DEF IsSum
    <2> HIDE DEF Small
    <2>7. n + 1 \in Nat
      OBVIOUS
    <2>8. \E h : IsSum(h, Small(n + 1))
      BY <2>6, Zenon
    <2> QED
      BY <2>7, <2>8
  <1>3. Nat \subseteq T
    <2> HIDE DEF T
    <2> QED
      BY <1>1, <1>2, AllNaturals
  <1>4. Small(Cardinality(S)) = SUBSET S
    BY <1>0, FS_Subset
  <1>5. Cardinality(S) \in T
    BY <1>0, <1>3
  <1> QED
    BY <1>4, <1>5

\* And it is the same whatever set it is a part of.
LEMMA SumUnique ==
    ASSUME NEW S \in SUBSET Calls, NEW T \in SUBSET S, NEW f, NEW g,
           IsSum(f, SUBSET S), IsSum(g, SUBSET T)
    PROVE  f[T] = g[T]
  <1> DEFINE P == {u \in SUBSET Calls : u \in SUBSET T => f[u] = g[u]}
  <1>1. \A u \in SUBSET T :
            /\ f[u] = IF u = {} THEN 0 ELSE Est[First(u)] + f[u \ {First(u)}]
            /\ g[u] = IF u = {} THEN 0 ELSE Est[First(u)] + g[u \ {First(u)}]
    BY DEF IsSum
  <1>2. {} \in P
    BY <1>1
  <1>3. ASSUME NEW A \in SUBSET Calls, A # {}, \A x \in A : A \ {x} \in P PROVE A \in P
    <2> SUFFICES ASSUME A \in SUBSET T PROVE f[A] = g[A]
      OBVIOUS
    <2>1. First(A) \in A
      BY <1>3, FirstIsIn
    <2>2. f[A \ {First(A)}] = g[A \ {First(A)}]
      BY <1>3, <2>1
    <2> QED
      BY <1>1, <1>3, <2>2
  <1>4. SUBSET Calls \subseteq P
    <2> HIDE DEF P
    <2> QED
      BY <1>2, <1>3, SubsetsAll
  <1> QED
    BY <1>4

LEMMA TokensOfNone == Tokens({}) = 0
  <1>1. PICK f : IsSum(f, SUBSET {}) /\ Tokens({}) = f[{}]
    BY SumExists, TokensIsSum
  <1> QED
    BY <1>1 DEF IsSum

LEMMA TokensOfFirst ==
    ASSUME NEW S \in SUBSET Calls, S # {}
    PROVE  Tokens(S) = Est[First(S)] + Tokens(S \ {First(S)})
  <1>1. PICK f : IsSum(f, SUBSET S) /\ Tokens(S) = f[S]
    BY SumExists, TokensIsSum
  <1>2. PICK R : R = S \ {First(S)}
    OBVIOUS
  <1>3. R \in SUBSET Calls /\ R \in SUBSET S
    BY <1>2
  <1>4. PICK g : IsSum(g, SUBSET R) /\ Tokens(R) = g[R]
    BY <1>3, SumExists, TokensIsSum
  <1>5. f[R] = g[R]
    <2>1. IsSum(f, SUBSET S) /\ IsSum(g, SUBSET R)
      BY <1>1, <1>4
    <2> QED
      BY <1>3, <2>1, SumUnique
  <1>6. f[S] = Est[First(S)] + f[R]
    BY <1>1, <1>2 DEF IsSum
  <1> QED
    BY <1>1, <1>2, <1>4, <1>5, <1>6

LEMMA TokensTyped ==
    ASSUME NEW S \in SUBSET Calls
    PROVE  Tokens(S) \in Nat
  <1> DEFINE P == {A \in SUBSET Calls : Tokens(A) \in Nat}
  <1>1. {} \in P
    BY TokensOfNone
  <1>2. ASSUME NEW A \in SUBSET Calls, A # {}, \A x \in A : A \ {x} \in P PROVE A \in P
    <2>1. First(A) \in A
      BY <1>2, FirstIsIn
    <2>2. Tokens(A \ {First(A)}) \in Nat /\ Est[First(A)] \in Nat
      BY <1>2, <2>1, DispatchAssumption
    <2> QED
      BY <1>2, <2>2, TokensOfFirst
  <1>3. SUBSET Calls \subseteq P
    <2> HIDE DEF P
    <2> QED
      BY <1>1, <1>2, SubsetsAll
  <1> QED
    BY <1>3

\* Whichever call is taken first.
LEMMA TokensOfOne ==
    ASSUME NEW S \in SUBSET Calls, NEW c \in S
    PROVE  Tokens(S) = Est[c] + Tokens(S \ {c})
  <1> DEFINE P == {A \in SUBSET Calls : \A x \in A : Tokens(A) = Est[x] + Tokens(A \ {x})}
  <1>1. {} \in P
    OBVIOUS
  <1>2. ASSUME NEW A \in SUBSET Calls, A # {}, \A x \in A : A \ {x} \in P PROVE A \in P
    <2> SUFFICES ASSUME NEW x \in A PROVE Tokens(A) = Est[x] + Tokens(A \ {x})
      OBVIOUS
    <2>1. PICK y \in A : y = First(A) /\ Tokens(A) = Est[y] + Tokens(A \ {y})
      BY <1>2, FirstIsIn, TokensOfFirst
    <2>2. CASE x = y
      BY <2>1, <2>2
    <2>3. CASE x # y
      <3>1. PICK B : B = (A \ {y}) \ {x} /\ B = (A \ {x}) \ {y}
        OBVIOUS
      <3>2. Tokens(A \ {y}) = Est[x] + Tokens(B)
        BY <1>2, <2>3, <3>1
      <3>3. Tokens(A \ {x}) = Est[y] + Tokens(B)
        BY <1>2, <2>3, <3>1
      <3>4. Tokens(B) \in Nat /\ Est[x] \in Nat /\ Est[y] \in Nat
        BY <3>1, TokensTyped, DispatchAssumption
      <3> QED
        BY <2>1, <3>2, <3>3, <3>4
    <2> QED
      BY <2>2, <2>3
  <1>3. SUBSET Calls \subseteq P
    <2> HIDE DEF P
    <2> QED
      BY <1>1, <1>2, SubsetsAll
  <1> QED
    BY <1>3

\* Fewer calls have no more tokens.
LEMMA TokensOfFewer ==
    ASSUME NEW S \in SUBSET Calls, NEW R \in SUBSET S
    PROVE  Tokens(R) <= Tokens(S)
  <1> DEFINE P == {A \in SUBSET Calls : R \subseteq A => Tokens(R) <= Tokens(A)}
  <1>0. \A A \in SUBSET Calls : Tokens(A) \in Nat
    BY TokensTyped
  <1>1. {} \in P
    <2>1. R \subseteq {} => R = {}
      OBVIOUS
    <2> QED
      BY <1>0, <2>1
  <1>2. ASSUME NEW A \in SUBSET Calls, A # {}, \A x \in A : A \ {x} \in P PROVE A \in P
    <2> SUFFICES ASSUME R \subseteq A PROVE Tokens(R) <= Tokens(A)
      OBVIOUS
    <2>1. CASE R = A
      BY <1>0, <2>1
    <2>2. CASE R # A
      <3>1. PICK x \in A : x \notin R
        BY <2>2
      <3>2. Tokens(R) <= Tokens(A \ {x})
        BY <1>2, <3>1
      <3>3. Tokens(A) = Est[x] + Tokens(A \ {x})
        BY <1>2, TokensOfOne
      <3>4. /\ Est[x] \in Nat /\ Tokens(A \ {x}) \in Nat
            /\ Tokens(R) \in Nat /\ Tokens(A) \in Nat
        BY <1>0, DispatchAssumption
      <3> QED
        BY <3>2, <3>3, <3>4
    <2> QED
      BY <2>1, <2>2
  <1>3. SUBSET Calls \subseteq P
    <2> HIDE DEF P
    <2> QED
      BY <1>1, <1>2, SubsetsAll
  <1> QED
    BY <1>3

-----------------------------------------------------------------------------
(* Types.                                                                   *)

CallState == [pc : {"new", "fallback", "acquire", "asleep", "calling", "over"},
              bucket : Buckets \cup {NoEndpoint},
              wait : 0..Window, outcome : Outcomes]

LEMMA TypedCalls == TypeOK => call \in [Calls -> CallState]
  BY LongestWait DEF TypeOK, CallState

LEMMA CallsTyped ==
    ASSUME call \in [Calls -> CallState],
           events \in [Buckets -> SUBSET Calls],
           cooling \in [Buckets -> 0..Cooldown],
           failures \in [Endpoints -> 0..Threshold],
           open \in [Endpoints -> BOOLEAN],
           age \in [Calls -> 0..Window + 1]
    PROVE  TypeOK
  BY LongestWait DEF TypeOK, CallState

LEMMA InitTyped == Init => TypeOK
  <1> SUFFICES ASSUME Init PROVE TypeOK
    OBVIOUS
  <1> USE DispatchAssumption DEF Init
  <1>1. call \in [Calls -> CallState]
    BY DEF CallState, Outcomes, NewCall
  <1>2. age \in [Calls -> 0..Window + 1]
    OBVIOUS
  <1>3. cooling \in [Buckets -> 0..Cooldown] /\ failures \in [Endpoints -> 0..Threshold]
    OBVIOUS
  <1>4. events \in [Buckets -> SUBSET Calls] /\ open \in [Endpoints -> BOOLEAN]
    OBVIOUS
  <1> QED
    BY <1>1, <1>2, <1>3, <1>4, CallsTyped

\* The sleep the throttle computes is within the window.
LEMMA WaitTyped ==
    ASSUME TypeOK, NEW b \in Buckets, NEW c \in Calls
    PROVE  Wait(b, c) \in 0..Window
  <1>0. Trim(b) \subseteq Calls /\ (\A d \in Trim(b) : age[d] \in 0..Window)
    BY DEF TypeOK, Trim
  <1>w. Window \in Nat /\ Window >= 1
    BY DispatchAssumption
  <1>1. CASE Trim(b) = {}
    BY <1>w, <1>1 DEF Wait
  <1>2. CASE Trim(b) # {}
    <2>1. RpmWait(b) \in 0..Window
      <3>1. \E o \in Trim(b) : \A d \in Trim(b) : age[d] <= age[o]
        <4> DEFINE S == {Window - age[d] : d \in Trim(b)}
        <4>1. S \subseteq Nat /\ S # {}
          BY <1>0, <1>w, <1>2
        <4>2. Min(S) \in S /\ \A u \in S : Min(S) <= u
          BY <4>1, MinIsIn
        <4>3. PICK o \in Trim(b) : Min(S) = Window - age[o]
          BY <4>2
        <4>4. \A d \in Trim(b) : Window - age[o] <= Window - age[d]
          BY <4>2, <4>3
        <4> QED
          BY <1>0, <1>w, <4>4
      <3>2. Oldest(b) \in Trim(b)
        BY <3>1 DEF Oldest
      <3>3. age[Oldest(b)] \in 0..Window
        BY <1>0, <3>2
      <3> QED
        BY <1>w, <3>3 DEF RpmWait
    <2>2. TpmWait(b, c) \in 0..Window
      <3> DEFINE room == {d \in Trim(b) :
                             Tokens({x \in Trim(b) : age[x] < age[d]}) + Est[c]
                                 <= Effective(b, Tpm)}
      <3>1. room # {} => Min({Window - age[d] : d \in room}) \in 0..Window
        <4> DEFINE S == {Window - age[d] : d \in room}
        <4>1. room \subseteq Trim(b)
          OBVIOUS
        <4> HIDE DEF room
        <4>2. S \subseteq 0..Window /\ (room # {} => S # {})
          BY <1>0, <1>w, <4>1
        <4>3. S \subseteq Nat
          BY <1>w, <4>2
        <4>4. ASSUME S # {} PROVE Min(S) \in S
          <5> HIDE DEF S
          <5> QED
            BY <4>3, <4>4, MinIsIn
        <4> QED
          BY <4>2, <4>4
      <3>2. TpmWait(b, c) = IF Tokens(Trim(b)) + Est[c] <= Effective(b, Tpm) THEN 0
                            ELSE IF room = {} THEN Window
                            ELSE Min({Window - age[d] : d \in room})
        BY DEF TpmWait
      <3> HIDE DEF room
      <3> QED
        BY <1>w, <3>1, <3>2
    <2>3. Max({RpmWait(b), TpmWait(b, c), 1}) \in {RpmWait(b), TpmWait(b, c), 1}
      BY <2>1, <2>2, MaxOfThree
    <2> QED
      BY <1>2, <1>w, <2>1, <2>2, <2>3 DEF Wait
  <1> QED
    BY <1>1, <1>2

\* A call whose next step asks its bucket has one.
Bucketed == \A c \in Calls : call[c].pc \in {"acquire", "asleep", "calling"}
                => call[c].bucket \in Buckets

\* What the steps of a call write into its record.
LEMMA OverPut ==
    ASSUME call \in [Calls -> CallState], NEW c \in Calls, NEW o \in Outcomes, Over(c, o)
    PROVE  /\ call' \in [Calls -> CallState]
           /\ call'[c].pc = "over" /\ call'[c].outcome = o
           /\ call'[c].bucket = call[c].bucket
           /\ \A d \in Calls \ {c} : call'[d] = call[d]
  <1>1. 0 \in 0..Window
    BY DispatchAssumption
  <1>2. PICK r : r = [call[c] EXCEPT !.pc = "over", !.wait = 0, !.outcome = o]
    OBVIOUS
  <1>3. call' = [call EXCEPT ![c] = r]
    BY <1>2 DEF Over
  <1>4. r \in CallState
    BY <1>1, <1>2 DEF CallState
  <1>5. r.pc = "over" /\ r.outcome = o /\ r.bucket = call[c].bucket
    BY <1>2 DEF CallState
  <1> QED
    BY <1>3, <1>4, <1>5

LEMMA RoutePut ==
    ASSUME call \in [Calls -> CallState], NEW c \in Calls, NEW b \in Buckets, Route(c, b)
    PROVE  /\ call' \in [Calls -> CallState]
           /\ call'[c].pc = "acquire" /\ call'[c].bucket = b
           /\ call'[c].outcome = call[c].outcome
           /\ \A d \in Calls \ {c} : call'[d] = call[d]
  BY DEF Route, CallState

LEMMA PcPut ==
    ASSUME call \in [Calls -> CallState], NEW c \in Calls,
           NEW pc \in {"fallback", "acquire", "calling"},
           call' = [call EXCEPT ![c].pc = pc]
    PROVE  /\ call' \in [Calls -> CallState]
           /\ call'[c].pc = pc /\ call'[c].bucket = call[c].bucket
           /\ call'[c].outcome = call[c].outcome
           /\ \A d \in Calls \ {c} : call'[d] = call[d]
  BY DEF CallState

\* How the record of a call changes in one of its own steps: it stays in its
\* bucket once it has one, and its outcome is set when it is over.
Moves(c) ==
    /\ call' \in [Calls -> CallState]
    /\ \A d \in Calls \ {c} : call'[d] = call[d]
    /\ call[c].pc # "over"
    /\ call'[c].pc \in {"acquire", "asleep", "calling"} => call'[c].bucket \in Buckets
    /\ call'[c].pc # "over" => call'[c].outcome = call[c].outcome
    /\ call[c].pc \in {"acquire", "asleep", "calling"} =>
           call'[c].bucket = call[c].bucket

LEMMA CallMoves ==
    ASSUME TypeOK, Bucketed, NEW c \in Calls,
           Proceed(c) \/ FallbackUnread(c) \/ GivesUp(c)
    PROVE  Moves(c)
  <1> USE TypedCalls DEF Moves
  <1>0. call \in [Calls -> CallState] /\ Primary[c] \in Buckets
        /\ (Fallback[c] # NoEndpoint => Fallback[c] \in Buckets)
        /\ {"refused", "too_large", "answered", "limited", "failed", "gave_up"} \subseteq Outcomes
    BY DispatchAssumption DEF Buckets, Outcomes
  <1>1. CASE Resolve(c)
    <2>1. CASE Route(c, Primary[c])
      BY <1>0, <1>1, <2>1, RoutePut DEF Resolve
    <2>2. CASE call' = [call EXCEPT ![c].pc = "fallback"]
      BY <1>0, <1>1, <2>2, PcPut DEF Resolve
    <2> QED
      BY <1>1, <2>1, <2>2 DEF Resolve
  <1>2. CASE FailOver(c)
    <2>1. CASE Fallback[c] # NoEndpoint /\ Route(c, Fallback[c])
      BY <1>0, <1>2, <2>1, RoutePut DEF FailOver
    <2>2. CASE Over(c, "refused")
      BY <1>0, <1>2, <2>2, OverPut DEF FailOver
    <2> QED
      BY <1>2, <2>1, <2>2 DEF FailOver
  <1>3. CASE FallbackUnread(c)
    BY <1>0, <1>3, RoutePut DEF FallbackUnread
  <1>4. CASE Acquire(c)
    <2> DEFINE b == call[c].bucket
    <2>0. call[c].pc = "acquire" /\ b \in Buckets
      BY <1>4 DEF Acquire, Bucketed
    <2>1. CASE call' = [call EXCEPT ![c].pc = "calling"]
      BY <1>0, <2>0, <2>1, PcPut
    <2>2. CASE Over(c, "too_large")
      BY <1>0, <2>0, <2>2, OverPut
    <2>3. CASE call' = [call EXCEPT ![c].pc = "asleep", ![c].wait = Wait(b, c)]
      <3>1. Wait(b, c) \in 0..Window
        BY <2>0, WaitTyped
      <3> QED
        BY <1>0, <2>0, <2>3, <3>1 DEF CallState
    <2> QED
      BY <1>4, <2>1, <2>2, <2>3 DEF Acquire
  <1>5. CASE Wake(c)
    BY <1>0, <1>5, PcPut DEF Wake, Bucketed
  <1>6. CASE Succeeds(c) \/ RateLimited(c) \/ Fails(c) \/ GivesUp(c)
    <2>1. PICK o \in Outcomes : Over(c, o) /\ call[c].pc # "over"
      BY <1>0, <1>6 DEF Succeeds, RateLimited, Fails, GivesUp
    <2> QED
      BY <1>0, <2>1, OverPut
  <1> QED
    BY <1>1, <1>2, <1>3, <1>4, <1>5, <1>6 DEF Proceed, Ends

\* The next call of a recurring caller starts anew, and its entry is gone.
LEMMA AgainMoves ==
    ASSUME TypeOK, NEW c \in Calls, Again(c)
    PROVE  /\ call' \in [Calls -> CallState] /\ call'[c] = NewCall
           /\ \A d \in Calls \ {c} : call'[d] = call[d]
           /\ call[c].outcome \in {"answered", "limited"}
           /\ events' \in [Buckets -> SUBSET Calls]
           /\ \A b \in Buckets : events'[b] = events[b] \ {c}
           /\ age' = age /\ cooling' = cooling /\ UNCHANGED breakerVars /\ age[c] > Window
  <1>1. NewCall \in CallState
    BY DispatchAssumption DEF NewCall, CallState, Outcomes
  <1>2. call \in [Calls -> CallState]
    BY TypedCalls
  <1> QED
    BY <1>1, <1>2 DEF Again, TypeOK

\* Time passes: only what is left to sleep changes in a call.
LEMMA TickMoves ==
    ASSUME TypeOK, Tick
    PROVE  /\ call' \in [Calls -> CallState]
           /\ \A c \in Calls : /\ call'[c].pc = call[c].pc
                               /\ call'[c].bucket = call[c].bucket
                               /\ call'[c].outcome = call[c].outcome
           /\ cooling' \in [Buckets -> 0..Cooldown]
           /\ age' \in [Calls -> 0..Window + 1]
  <1>w. Window \in Nat /\ Cooldown \in Nat
    BY DispatchAssumption
  <1>1. \A n \in Nat : Max({0, n - 1}) = IF n = 0 THEN 0 ELSE n - 1
    BY MaxOfPair
  <1>2. call \in [Calls -> CallState]
    BY TypedCalls
  <1>3. \A c \in Calls : Max({0, call[c].wait - 1}) \in 0..Window
    BY <1>w, <1>1, <1>2 DEF CallState
  <1>4. call' = [c \in Calls |-> [call[c] EXCEPT !.wait = Max({0, call[c].wait - 1})]]
    BY DEF Tick
  <1>5. \A c \in Calls : /\ call'[c] \in CallState /\ call'[c].pc = call[c].pc
                         /\ call'[c].bucket = call[c].bucket
                         /\ call'[c].outcome = call[c].outcome
    BY <1>2, <1>3, <1>4 DEF CallState
  <1>6. \A b \in Buckets : Max({0, cooling[b] - 1}) \in 0..Cooldown
    <2> TAKE b \in Buckets
    <2>1. cooling[b] \in 0..Cooldown
      BY DEF TypeOK
    <2> QED
      BY <1>w, <1>1, <2>1
  <1>7. \A c \in Calls : Older(age[c]) \in 0..Window + 1
    BY <1>w DEF TypeOK, Older
  <1> QED
    BY <1>4, <1>5, <1>6, <1>7 DEF Tick

LEMMA BreakerTyped ==
    ASSUME TypeOK, NEW b, RecordSuccess(b) \/ RecordFailure(b) \/ UNCHANGED breakerVars
    PROVE  failures' \in [Endpoints -> 0..Threshold] /\ open' \in [Endpoints -> BOOLEAN]
  <1>1. CASE UNCHANGED breakerVars
    BY <1>1 DEF TypeOK, breakerVars
  <1>2. CASE RecordSuccess(b)
    <2>1. 0 \in 0..Threshold
      BY DispatchAssumption
    <2> QED
      BY <1>1, <1>2, <2>1 DEF RecordSuccess, TypeOK
  <1>3. CASE RecordFailure(b)
    <2>1. CASE b \in Endpoints
      <3>1. failures[b] \in Nat /\ Threshold \in Nat
        BY <2>1, DispatchAssumption DEF TypeOK
      <3>2. Min({Threshold, failures[b] + 1}) \in 0..Threshold
        BY <3>1, MinOfPair
      <3> QED
        BY <1>3, <2>1, <3>2 DEF RecordFailure, TypeOK
    <2> QED
      BY <1>1, <1>3, <2>1 DEF RecordFailure
  <1> QED
    BY <1>1, <1>2, <1>3

LEMMA TypeStep ==
    ASSUME TypeOK, Bucketed, [Next]_vars
    PROVE  TypeOK' /\ Bucketed'
  <1>1. CASE UNCHANGED vars
    BY <1>1 DEF TypeOK, Bucketed, vars, throttleVars, breakerVars
  <1>2. ASSUME NEW c \in Calls, Proceed(c) \/ FallbackUnread(c) \/ GivesUp(c)
        PROVE  TypeOK' /\ Bucketed'
    <2>1. Moves(c)
      BY <1>2, CallMoves
    <2>2. Bucketed'
      BY <2>1 DEF Moves, Bucketed
    <2>3. events' \in [Buckets -> SUBSET Calls]
      <3>1. CASE Acquire(c)
        <4>1. \A b \in Buckets : Trim(b) \subseteq Calls
          BY DEF Trim, TypeOK
        <4>2. call[c].bucket \in Buckets
          BY <3>1 DEF Acquire, Bucketed
        <4>3. \E S \in SUBSET Calls : events' = [events EXCEPT ![call[c].bucket] = S]
          BY <3>1, <4>1, <4>2 DEF Acquire
        <4> QED
          BY <4>3 DEF TypeOK
      <3>2. CASE events' = events
        BY <3>2 DEF TypeOK
      <3> QED
        BY <1>2, <3>1, <3>2
           DEF Proceed, Ends, Resolve, FailOver, FallbackUnread, Wake, Succeeds,
               RateLimited, Fails, GivesUp, throttleVars
    <2>4. age' \in [Calls -> 0..Window + 1]
      <3>0. 0 \in 0..Window + 1
        BY DispatchAssumption
      <3>1. age' = age \/ age' = [age EXCEPT ![c] = 0]
        BY <1>2 DEF Proceed, Ends, Resolve, FailOver, FallbackUnread, Acquire, Wake,
               Succeeds, RateLimited, Fails, GivesUp
      <3> QED
        BY <3>0, <3>1 DEF TypeOK
    <2>5. cooling' \in [Buckets -> 0..Cooldown]
      <3>0. Cooldown \in 0..Cooldown
        BY DispatchAssumption
      <3>1. cooling' = cooling \/ cooling' = [cooling EXCEPT ![call[c].bucket] = Cooldown]
        BY <1>2 DEF Proceed, Ends, Resolve, FailOver, FallbackUnread, Acquire, Wake,
               Succeeds, RateLimited, Fails, GivesUp, throttleVars
      <3> QED
        BY <3>0, <3>1 DEF TypeOK
    <2>6. failures' \in [Endpoints -> 0..Threshold] /\ open' \in [Endpoints -> BOOLEAN]
      BY <1>2, BreakerTyped
         DEF Proceed, Ends, Resolve, FailOver, FallbackUnread, Acquire, Wake,
               Succeeds, RateLimited, Fails, GivesUp
    <2>7. call' \in [Calls -> CallState]
      BY <2>1 DEF Moves
    <2>8. TypeOK'
      BY <2>3, <2>4, <2>5, <2>6, <2>7, LongestWait DEF TypeOK, CallState
    <2> QED
      BY <2>2, <2>8
  <1>3. CASE Tick
    <2>1. TypeOK'
      BY <1>3, TickMoves, LongestWait DEF Tick, TypeOK, CallState, breakerVars
    <2> QED
      BY <1>3, <2>1, TickMoves DEF Bucketed
  <1>4. ASSUME NEW c \in Calls, Again(c) PROVE TypeOK' /\ Bucketed'
    <2>1. TypeOK'
      BY <1>4, AgainMoves, LongestWait DEF TypeOK, CallState, breakerVars
    <2> QED
      BY <1>4, <2>1, AgainMoves DEF Bucketed, NewCall
  <1> QED
    BY <1>1, <1>2, <1>3, <1>4 DEF Next

\* Calls, throttle and breakers keep their types: the sleep the throttle
\* computes (llm_throttle.py) is never negative and never longer than the
\* window, whatever entries are in it.
THEOREM DispatchTypeCorrect == Spec => []TypeOK
  <1>1. Init => TypeOK /\ Bucketed
    BY InitTyped DEF Init, Bucketed, NewCall
  <1> QED
    BY <1>1, TypeStep, PTL DEF Spec

-----------------------------------------------------------------------------
(* What the breaker counts.                                                 *)

Failed(e) == {c \in Calls : call[c].bucket = e /\ call[c].outcome = "failed"}

\* The counter never exceeds the calls that failed, and an open breaker has
\* counted up to the threshold; a call has no outcome before it is over.
Counted ==
    /\ \A c \in Calls : call[c].pc # "over" => call[c].outcome = "none"
    /\ \A e \in Endpoints : /\ failures[e] <= Cardinality(Failed(e))
                            /\ open[e] => failures[e] = Threshold

LEMMA FailedFinite ==
    ASSUME NEW e
    PROVE  IsFiniteSet(Failed(e)) /\ Cardinality(Failed(e)) \in Nat
  <1>1. Failed(e) \in SUBSET Calls
    BY DEF Failed
  <1> QED
    BY <1>1, DispatchAssumption, FS_Subset, FS_CardinalityType

LEMMA InitCounted == Init => Counted
  <1> SUFFICES ASSUME Init, NEW e \in Endpoints PROVE Counted
    BY DEF Init, Counted, NewCall
  <1>1. \A d \in Endpoints : failures[d] <= Cardinality(Failed(d))
    BY FailedFinite DEF Init
  <1> QED
    BY <1>1 DEF Init, Counted, NewCall

\* An outcome other than a failure, or a failure recorded.
LEMMA CountedKept ==
    ASSUME TypeOK, Counted, NEW c \in Calls, Moves(c),
           call'[c].outcome # "failed",
           \/ UNCHANGED breakerVars
           \/ RecordSuccess(call[c].bucket),
           call'[c].pc # "over" \/ call'[c].outcome # "none"
    PROVE  Counted'
  <1>1. \A e \in Endpoints : Failed(e)' = Failed(e)
    BY DEF Failed, Moves, Counted
  <1>2. \A d \in Calls : call'[d].pc # "over" => call'[d].outcome = "none"
    BY DEF Moves, Counted
  <1>3. \A e \in Endpoints : \/ failures'[e] = failures[e] /\ open'[e] = open[e]
                             \/ failures'[e] = 0 /\ ~open'[e]
    <2>1. CASE UNCHANGED breakerVars
      BY <2>1 DEF breakerVars
    <2>2. CASE RecordSuccess(call[c].bucket) /\ call[c].bucket \in Endpoints
      BY <2>2 DEF RecordSuccess, TypeOK
    <2> QED
      BY <2>1, <2>2 DEF RecordSuccess
  <1>4. ASSUME NEW e \in Endpoints
        PROVE  /\ failures'[e] <= Cardinality(Failed(e))
               /\ open'[e] => failures'[e] = Threshold
    BY <1>3, FailedFinite DEF Counted
  <1> QED
    BY <1>1, <1>2, <1>4 DEF Counted

\* A call to b fails, and the breaker of b counts it.
LEMMA CountedFailure ==
    ASSUME TypeOK, Bucketed, Counted, NEW c \in Calls, Fails(c)
    PROVE  Counted'
  <1>0. PICK b : b = call[c].bucket
    OBVIOUS
  <1>1. Moves(c) /\ call'[c].pc = "over" /\ call'[c].outcome = "failed"
        /\ call'[c].bucket = b /\ call[c].outcome = "none"
    BY <1>0, CallMoves, OverPut, TypedCalls DEF Fails, Proceed, Ends, Outcomes, Counted
  <1>2. \A d \in Calls : call'[d].pc # "over" => call'[d].outcome = "none"
    BY <1>1 DEF Moves, Counted
  <1>3. RecordFailure(b)
    BY <1>0 DEF Fails
  <1>4. Failed(b)' = Failed(b) \cup {c} /\ c \notin Failed(b)
    BY <1>1 DEF Failed, Moves
  <1>5. \A e \in Endpoints \ {b} : Failed(e)' = Failed(e)
    BY <1>1 DEF Failed, Moves
  <1>6. Cardinality(Failed(b)') = Cardinality(Failed(b)) + 1
    BY <1>4, FailedFinite, FS_AddElement
  <1>7. ASSUME NEW e \in Endpoints
        PROVE  /\ failures'[e] <= Cardinality(Failed(e)')
               /\ open'[e] => failures'[e] = Threshold
    <2>0. /\ failures[e] \in Nat /\ Threshold \in Nat /\ failures[e] <= Threshold
          /\ Cardinality(Failed(e)) \in Nat
          /\ failures[e] <= Cardinality(Failed(e))
          /\ open[e] => failures[e] = Threshold
      BY FailedFinite, DispatchAssumption DEF TypeOK, Counted
    <2>1. CASE e = b
      <3>1. /\ failures' = [failures EXCEPT ![e] = Min({Threshold, failures[e] + 1})]
            /\ open' = [open EXCEPT ![e] =
                            @ \/ Min({Threshold, failures[e] + 1}) = Threshold]
        BY <1>3, <2>1 DEF RecordFailure
      <3>2. Min({Threshold, failures[e] + 1}) =
                IF Threshold <= failures[e] + 1 THEN Threshold ELSE failures[e] + 1
        BY <2>0, MinOfPair
      <3>3. failures'[e] = Min({Threshold, failures[e] + 1})
        BY <3>1 DEF TypeOK
      <3>4. open'[e] => open[e] \/ Min({Threshold, failures[e] + 1}) = Threshold
        BY <3>1 DEF TypeOK
      <3>5. failures'[e] <= Cardinality(Failed(e)')
        BY <1>6, <2>0, <2>1, <3>2, <3>3
      <3>6. open[e] => Min({Threshold, failures[e] + 1}) = Threshold
        BY <2>0, <3>2
      <3> QED
        BY <3>3, <3>4, <3>5, <3>6
    <2>2. CASE e # b
      <3>1. failures'[e] = failures[e] /\ open'[e] = open[e]
        BY <1>3, <2>2 DEF RecordFailure, breakerVars, TypeOK
      <3> QED
        BY <1>5, <2>0, <2>2, <3>1
    <2> QED
      BY <2>1, <2>2
  <1> QED
    BY <1>2, <1>7 DEF Counted

LEMMA CountedStep ==
    ASSUME TypeOK, Bucketed, Counted, [Next]_vars
    PROVE  Counted'
  <1>1. CASE UNCHANGED vars
    BY <1>1 DEF Counted, Failed, vars, breakerVars
  <1>2. CASE Tick
    <2>1. \A e \in Endpoints : Failed(e)' = Failed(e)
      BY <1>2, TickMoves DEF Failed
    <2> QED
      BY <1>2, <2>1, TickMoves DEF Counted, Tick, breakerVars
  <1>3. ASSUME NEW c \in Calls, Proceed(c) \/ FallbackUnread(c) \/ GivesUp(c), ~Fails(c)
        PROVE  Counted'
    <2>1. Moves(c)
      BY <1>3, CallMoves
    <2>2. UNCHANGED breakerVars \/ RecordSuccess(call[c].bucket)
      BY <1>3 DEF Proceed, Ends, Resolve, FailOver, FallbackUnread, Acquire, Wake,
                  Succeeds, RateLimited, GivesUp
    <2>3. CASE \E o \in {"refused", "too_large", "answered", "limited", "gave_up"} : Over(c, o)
      <3>1. \E o \in {"refused", "too_large", "answered", "limited", "gave_up"} :
                call'[c].outcome = o
        BY <2>3, OverPut, TypedCalls DEF Outcomes
      <3> QED
        BY <2>1, <2>2, <3>1, CountedKept
    <2>4. CASE call'[c].pc # "over"
      <3>1. call'[c].outcome = "none"
        BY <2>1, <2>4 DEF Moves, Counted
      <3> QED
        BY <2>1, <2>2, <2>4, <3>1, CountedKept
    <2>5. \/ \E o \in {"refused", "too_large", "answered", "limited", "gave_up"} : Over(c, o)
          \/ call'[c].pc # "over"
      <3>0. call \in [Calls -> CallState]
        BY TypedCalls
      <3> USE DEF CallState
      <3>1. CASE Resolve(c)
        BY <3>0, <3>1 DEF Resolve, Route
      <3>2. CASE FailOver(c)
        BY <3>0, <3>2 DEF FailOver, Route
      <3>3. CASE FallbackUnread(c)
        BY <3>0, <3>3 DEF FallbackUnread, Route
      <3>4. CASE Acquire(c)
        BY <3>0, <3>4 DEF Acquire
      <3>5. CASE Wake(c)
        BY <3>0, <3>5 DEF Wake
      <3>6. CASE Succeeds(c) \/ RateLimited(c) \/ GivesUp(c)
        BY <3>6 DEF Succeeds, RateLimited, GivesUp
      <3> QED
        BY <1>3, <3>1, <3>2, <3>3, <3>4, <3>5, <3>6 DEF Proceed, Ends
    <2> QED
      BY <2>3, <2>4, <2>5
  <1>4. ASSUME NEW c \in Calls, Fails(c) PROVE Counted'
    BY <1>4, CountedFailure
  <1>5. ASSUME NEW c \in Calls, Again(c) PROVE Counted'
    <2>1. \A e \in Endpoints : Failed(e)' = Failed(e)
      BY <1>5, AgainMoves DEF Failed, NewCall
    <2>2. \A d \in Calls : call'[d].pc # "over" => call'[d].outcome = "none"
      BY <1>5, AgainMoves DEF Counted, NewCall
    <2>3. UNCHANGED breakerVars
      BY <1>5, AgainMoves
    <2> QED
      BY <2>1, <2>2, <2>3 DEF Counted, breakerVars
  <1> QED
    BY <1>1, <1>2, <1>3, <1>4, <1>5 DEF Next

\* An endpoint's breaker is open only after Threshold of its calls failed for
\* another reason than a rate limit (llm_dispatch.py), for every number of
\* calls and every threshold.
THEOREM DispatchTripsOnFailures == Spec => []TripsOnFailures
  <1>1. Init => TypeOK /\ Bucketed
    BY InitTyped DEF Init, Bucketed, NewCall
  <1>2. Spec => [](TypeOK /\ Bucketed)
    BY <1>1, TypeStep, PTL DEF Spec
  <1>3. Spec => []Counted
    BY <1>2, InitCounted, CountedStep, PTL DEF Spec
  <1>4. Counted => TripsOnFailures
    BY FailedFinite DEF Counted, TripsOnFailures, Failed
  <1> QED
    BY <1>3, <1>4, PTL

-----------------------------------------------------------------------------
(* The rate of calls.                                                       *)

\* A bucket's entries are calls that were let through, and none that was let
\* through within the window is missing.
Entered ==
    \A b \in Buckets : /\ \A c \in events[b] : call[c].pc \in {"calling", "over"}
                       /\ Sent(b) \subseteq events[b]

WithinRpm == \A b \in Buckets : Cardinality(Trim(b)) <= Rpm

WithinTpm == \A b \in Buckets : Tokens(Trim(b)) <= Tpm

RateInv == Entered /\ WithinRpm /\ WithinTpm

LEMMA TrimFinite ==
    ASSUME TypeOK, NEW b \in Buckets, NEW S \in SUBSET Trim(b)
    PROVE  /\ IsFiniteSet(Trim(b)) /\ Cardinality(Trim(b)) \in Nat
           /\ IsFiniteSet(S) /\ Cardinality(S) \in Nat
           /\ Cardinality(S) <= Cardinality(Trim(b))
  <1>1. Trim(b) \in SUBSET Calls
    BY DEF Trim, TypeOK
  <1>2. IsFiniteSet(Trim(b))
    BY <1>1, DispatchAssumption, FS_Subset
  <1> QED
    BY <1>2, FS_Subset, FS_CardinalityType

\* The entries of a part of a bucket's window have no more tokens than it.
LEMMA TrimTokens ==
    ASSUME TypeOK, NEW b \in Buckets, NEW S \in SUBSET Trim(b)
    PROVE  /\ Tokens(Trim(b)) \in Nat /\ Tokens(S) \in Nat
           /\ Tokens(S) <= Tokens(Trim(b))
  <1>1. Trim(b) \in SUBSET Calls /\ S \in SUBSET Calls
    BY DEF Trim, TypeOK
  <1> QED
    BY <1>1, TokensTyped, TokensOfFewer

LEMMA RateSuffices == ASSUME TypeOK, RateInv PROVE WindowRespected
  <1> SUFFICES ASSUME NEW b \in Buckets
               PROVE  Cardinality(Sent(b)) <= Rpm /\ Tokens(Sent(b)) <= Tpm
    BY DEF WindowRespected
  <1>1. Sent(b) \in SUBSET Trim(b)
    BY DEF RateInv, Entered, Sent, Trim
  <1>2. Cardinality(Trim(b)) <= Rpm /\ Rpm \in Nat
    BY DispatchAssumption DEF RateInv, WithinRpm
  <1>3. Tokens(Trim(b)) <= Tpm /\ Tpm \in Nat
    BY DispatchAssumption DEF RateInv, WithinTpm
  <1>4. Cardinality(Sent(b)) <= Rpm
    BY <1>1, <1>2, TrimFinite
  <1>5. Tokens(Sent(b)) <= Tpm
    BY <1>1, <1>3, TrimTokens
  <1> QED
    BY <1>4, <1>5

LEMMA InitRate == Init => RateInv
  <1> SUFFICES ASSUME Init PROVE RateInv
    OBVIOUS
  <1>1. Entered
    BY DEF Init, Entered, Sent, NewCall
  <1>2. \A b \in Buckets : Trim(b) = {}
    BY DEF Init, Trim
  <1>3. Rpm \in Nat /\ Tpm \in Nat
    BY DispatchAssumption
  <1>4. WithinRpm
    BY <1>2, <1>3, FS_EmptySet DEF WithinRpm
  <1>5. WithinTpm
    BY <1>2, <1>3, TokensOfNone DEF WithinTpm
  <1> QED
    BY <1>1, <1>4, <1>5 DEF RateInv

\* Inside the cooldown the limit is lower, never higher.
LEMMA EffectiveIsLower ==
    ASSUME NEW b, NEW limit \in Nat \ {0}
    PROVE  Effective(b, limit) \in Nat /\ Effective(b, limit) <= limit
  <1>1. limit \div 2 \in Nat /\ limit \div 2 <= limit
    OBVIOUS
  <1>2. Max({1, limit \div 2}) = IF 1 >= limit \div 2 THEN 1 ELSE limit \div 2
    BY <1>1, MaxOfPair
  <1> QED
    BY <1>1, <1>2 DEF Effective

\* A step that adds no entry and makes none younger.
LEMMA LimitsKept ==
    ASSUME TypeOK, WithinRpm, WithinTpm,
           \A b \in Buckets : Trim(b)' \subseteq Trim(b)
    PROVE  WithinRpm' /\ WithinTpm'
  <1> SUFFICES ASSUME NEW b \in Buckets
               PROVE  Cardinality(Trim(b)') <= Rpm /\ Tokens(Trim(b)') <= Tpm
    <2>1. WithinRpm' <=> \A b \in Buckets : Cardinality(Trim(b)') <= Rpm
      BY DEF WithinRpm
    <2>2. WithinTpm' <=> \A b \in Buckets : Tokens(Trim(b)') <= Tpm
      BY DEF WithinTpm
    <2> QED
      BY <2>1, <2>2
  <1>1. Cardinality(Trim(b)) <= Rpm /\ Rpm \in Nat
    BY DispatchAssumption DEF WithinRpm
  <1>2. PICK S : S = Trim(b)'
    OBVIOUS
  <1>3. S \in SUBSET Trim(b)
    BY <1>2
  <1>4. Cardinality(S) \in Nat /\ Cardinality(Trim(b)) \in Nat
        /\ Cardinality(S) <= Cardinality(Trim(b))
    BY <1>3, TrimFinite
  <1>5. Tokens(Trim(b)) <= Tpm /\ Tpm \in Nat
    BY DispatchAssumption DEF WithinTpm
  <1>6. /\ Tokens(S) \in Nat /\ Tokens(Trim(b)) \in Nat
        /\ Tokens(S) <= Tokens(Trim(b))
    BY <1>3, TrimTokens
  <1>7. Tokens(S) <= Tpm
    BY <1>5, <1>6
  <1> QED
    BY <1>1, <1>2, <1>4, <1>7

\* A call is let through.
LEMMA AdmitRate ==
    ASSUME TypeOK, Bucketed, Counted, RateInv, NEW c \in Calls, NEW b \in Buckets,
           call[c].pc = "acquire", call[c].bucket = b, Fits(b, c),
           events' = [events EXCEPT ![b] = Trim(b) \cup {c}],
           call' = [call EXCEPT ![c].pc = "calling"],
           age' = [age EXCEPT ![c] = 0]
    PROVE  RateInv'
  <1>0. /\ \A d \in Calls \ {c} : call'[d] = call[d] /\ age'[d] = age[d]
        /\ call'[c].pc = "calling" /\ call'[c].bucket = b /\ age'[c] = 0
        /\ call'[c].outcome = "none"
    BY PcPut, TypedCalls DEF Counted, TypeOK
  <1>1. \A a \in Buckets : c \notin events[a]
    BY DEF RateInv, Entered
  <1>2. /\ events'[b] = Trim(b) \cup {c}
        /\ \A a \in Buckets \ {b} : events'[a] = events[a]
        /\ \A a \in Buckets : events[a] \subseteq Calls
    BY DEF TypeOK
  <1>3. Trim(b) \subseteq events[b] /\ Trim(b) = {d \in events[b] : age[d] <= Window}
    BY DEF Trim
  <1>4. Entered'
    <2>1. \A a \in Buckets : \A d \in events'[a] : call'[d].pc \in {"calling", "over"}
      BY <1>0, <1>2, <1>3 DEF RateInv, Entered
    <2>2. \A a \in Buckets : Sent(a)' \subseteq events'[a]
      <3> TAKE a \in Buckets
      <3>1. \A d \in Sent(a)' : d # c => d \in Sent(a) /\ age[d] <= Window
        BY <1>0 DEF Sent
      <3>2. c \in Sent(a)' => a = b
        BY <1>0 DEF Sent
      <3>3. Sent(a) \subseteq events[a]
        BY DEF RateInv, Entered
      <3> QED
        BY <1>2, <1>3, <3>1, <3>2, <3>3
    <2> QED
      BY <2>1, <2>2 DEF Entered
  <1>5. ASSUME NEW a \in Buckets
        PROVE  Cardinality(Trim(a)') <= Rpm /\ Tokens(Trim(a)') <= Tpm
    <2>1. CASE a = b
      <3>1. Trim(a)' = Trim(b) \cup {c}
        <4>1. Trim(a)' = {d \in Trim(b) \cup {c} : age'[d] <= Window}
          BY <1>2, <2>1 DEF Trim
        <4>2. 0 <= Window
          BY DispatchAssumption
        <4>3. \A d \in Trim(b) \cup {c} : age'[d] <= Window
          BY <1>0, <1>1, <1>2, <1>3, <4>2
        <4> QED
          BY <4>1, <4>3
      <3>2. IsFiniteSet(Trim(b)) /\ Cardinality(Trim(b)) \in Nat
        BY TrimFinite
      <3>3. Cardinality(Trim(b) \cup {c}) = Cardinality(Trim(b)) + 1
        BY <1>1, <1>3, <3>2, FS_AddElement
      <3>4. Cardinality(Trim(b)) + 1 <= Effective(b, Rpm)
        BY DEF Fits
      <3>5. Cardinality(Trim(b) \cup {c}) <= Rpm
        <4>1. /\ Rpm \in Nat \ {0}
              /\ Effective(b, Rpm) \in Nat /\ Effective(b, Rpm) <= Rpm
          BY DispatchAssumption, EffectiveIsLower
        <4> QED
          BY <3>2, <3>3, <3>4, <4>1
      <3>6. Tokens(Trim(b) \cup {c}) <= Tpm
        <4>1. /\ Trim(b) \cup {c} \in SUBSET Calls
              /\ (Trim(b) \cup {c}) \ {c} = Trim(b)
          BY <1>1, <1>2, <1>3
        <4>2. Tokens(Trim(b) \cup {c}) = Est[c] + Tokens(Trim(b))
          <5>1. PICK W : W = Trim(b) \cup {c}
            OBVIOUS
          <5>2. W \in SUBSET Calls /\ c \in W /\ W \ {c} = Trim(b)
            BY <4>1, <5>1
          <5> QED
            BY <5>1, <5>2, TokensOfOne
        <4>3. Tokens(Trim(b)) + Est[c] <= Effective(b, Tpm)
          BY DEF Fits
        <4>4. /\ Tpm \in Nat \ {0}
              /\ Effective(b, Tpm) \in Nat /\ Effective(b, Tpm) <= Tpm
          BY DispatchAssumption, EffectiveIsLower
        <4>5. Tokens(Trim(b)) \in Nat /\ Est[c] \in Nat
          BY TrimTokens, DispatchAssumption
        <4> QED
          BY <4>2, <4>3, <4>4, <4>5
      <3> QED
        BY <3>1, <3>5, <3>6
    <2>2. CASE a # b
      <3>1. Trim(a)' = Trim(a)
        BY <1>0, <1>1, <1>2, <2>2 DEF Trim
      <3>2. Cardinality(Trim(a)) <= Rpm /\ Tokens(Trim(a)) <= Tpm
        BY DEF RateInv, WithinRpm, WithinTpm
      <3> QED
        BY <3>1, <3>2
    <2> QED
      BY <2>1, <2>2
  <1>6. WithinRpm'
    BY <1>5 DEF WithinRpm
  <1>7. WithinTpm'
    BY <1>5 DEF WithinTpm
  <1> QED
    BY <1>4, <1>6, <1>7 DEF RateInv

\* Any other step of a call: it does not start a call to a provider, and drops
\* at most entries that have left the window.
LEMMA OtherRate ==
    ASSUME TypeOK, Bucketed, Counted, RateInv, NEW c \in Calls, Moves(c), age' = age,
           call'[c].pc # "calling",
           \/ events' = events
           \/ \E b \in Buckets : events' = [events EXCEPT ![b] = Trim(b)],
           \/ call[c].pc = "calling" /\ call'[c].pc = "over"
           \/ /\ call[c].pc # "calling"
              /\ call'[c].outcome \notin {"answered", "limited", "failed"}
    PROVE  RateInv'
  <1>1. \A b \in Buckets : /\ events'[b] \subseteq events[b]
                           /\ Trim(b) \subseteq events'[b]
    BY DEF TypeOK, Trim
  <1>2. \A b \in Buckets : Trim(b)' \subseteq Trim(b)
    BY <1>1 DEF Trim
  <1>3. \A b \in Buckets : Sent(b)' \subseteq Sent(b)
    BY DEF Sent, Moves
  <1>4. \A b \in Buckets : Sent(b) \subseteq Trim(b)
    BY DEF RateInv, Entered, Sent, Trim
  <1>5. \A b \in Buckets : \A d \in events'[b] : call'[d].pc \in {"calling", "over"}
    BY <1>1 DEF RateInv, Entered, Moves, TypeOK
  <1>6. Entered'
    BY <1>1, <1>3, <1>4, <1>5 DEF Entered
  <1> QED
    BY <1>2, <1>6, LimitsKept DEF RateInv

LEMMA RateStep ==
    ASSUME TypeOK, Bucketed, Counted, RateInv, [Next]_vars
    PROVE  RateInv'
  <1>1. CASE UNCHANGED vars
    <2>1. Entered' /\ \A b \in Buckets : Trim(b)' \subseteq Trim(b)
      BY <1>1 DEF RateInv, Entered, Sent, Trim, vars, throttleVars
    <2> QED
      BY <2>1, LimitsKept DEF RateInv
  <1>2. CASE Tick
    <2>1. \A c \in Calls : age[c] <= age'[c]
      BY <1>2, DispatchAssumption DEF Tick, Older, TypeOK
    <2>2. events' = events /\ \A b \in Buckets : events[b] \subseteq Calls
      BY <1>2 DEF Tick, TypeOK
    <2>3. \A c \in Calls : age'[c] <= Window => age[c] <= Window
      <3>1. \A c \in Calls : age[c] \in Nat /\ age'[c] \in Nat
        <4>1. age \in [Calls -> 0..Window + 1]
          BY DEF TypeOK
        <4>2. age' \in [Calls -> 0..Window + 1]
          BY <1>2, TickMoves
        <4> QED
          BY <4>1, <4>2
      <3>2. Window \in Nat
        BY DispatchAssumption
      <3> QED
        BY <2>1, <3>1, <3>2
    <2>4. \A b \in Buckets : Trim(b)' \subseteq Trim(b) /\ Sent(b)' \subseteq Sent(b)
      BY <1>2, <2>2, <2>3, TickMoves DEF Trim, Sent
    <2>5. Entered'
      BY <1>2, <2>2, <2>4, TickMoves DEF RateInv, Entered
    <2> QED
      BY <2>4, <2>5, LimitsKept DEF RateInv
  <1>3. ASSUME NEW c \in Calls, Proceed(c) \/ FallbackUnread(c) \/ GivesUp(c)
        PROVE  RateInv'
    <2>0. Moves(c) /\ call \in [Calls -> CallState]
      BY <1>3, CallMoves, TypedCalls
    <2>1. CASE Acquire(c)
      <3>0. PICK b \in Buckets : b = call[c].bucket
        BY <2>1 DEF Acquire, Bucketed
      <3>1. CASE Fits(b, c)
        BY <2>1, <3>0, <3>1, AdmitRate DEF Acquire
      <3>2. CASE ~Fits(b, c)
        <4>1. /\ events' = [events EXCEPT ![b] = Trim(b)] /\ age' = age
              /\ call[c].pc = "acquire"
              /\ \/ Over(c, "too_large")
                 \/ call' = [call EXCEPT ![c].pc = "asleep", ![c].wait = Wait(b, c)]
          BY <2>1, <3>0, <3>2 DEF Acquire
        <4>2. /\ call'[c].pc # "calling"
              /\ call'[c].outcome \notin {"answered", "limited", "failed"}
          BY <2>0, <4>1 DEF Over, CallState, Counted
        <4> QED
          BY <2>0, <4>1, <4>2, OtherRate
      <3> QED
        BY <3>1, <3>2
    <2>2. CASE Succeeds(c) \/ RateLimited(c) \/ Fails(c)
      <3>1. /\ events' = events /\ age' = age /\ call[c].pc = "calling"
            /\ \E o \in Outcomes : Over(c, o)
        BY <2>2 DEF Succeeds, RateLimited, Fails, throttleVars, Outcomes
      <3>2. call'[c].pc = "over"
        BY <2>0, <3>1, OverPut
      <3> QED
        BY <2>0, <3>1, <3>2, OtherRate
    <2>3. CASE Resolve(c) \/ FailOver(c) \/ FallbackUnread(c) \/ Wake(c) \/ GivesUp(c)
      <3>1. /\ events' = events /\ age' = age
            /\ call[c].pc \in {"new", "fallback", "acquire", "asleep"}
        BY <2>3 DEF Resolve, FailOver, FallbackUnread, Wake, GivesUp, throttleVars
      <3>2. /\ call'[c].pc # "calling"
            /\ call'[c].outcome \notin {"answered", "limited", "failed"}
        <4>1. call[c].outcome = "none"
          BY <3>1 DEF Counted
        <4>2. CASE \E o \in {"refused", "gave_up"} : Over(c, o)
          BY <2>0, <4>2, OverPut DEF Outcomes
        <4>3. CASE \E b : Route(c, b)
          BY <2>0, <4>1, <4>3 DEF Route, CallState
        <4>4. CASE \E pc \in {"fallback", "acquire"} : call' = [call EXCEPT ![c].pc = pc]
          BY <2>0, <4>1, <4>4, PcPut
        <4> QED
          BY <2>3, <4>2, <4>3, <4>4
             DEF Resolve, FailOver, FallbackUnread, Wake, GivesUp
      <3> QED
        BY <2>0, <3>1, <3>2, OtherRate
    <2> QED
      BY <1>3, <2>1, <2>2, <2>3 DEF Proceed, Ends
  <1>4. ASSUME NEW c \in Calls, Again(c) PROVE RateInv'
    <2>1. \A b \in Buckets : Trim(b)' \subseteq Trim(b)
      BY <1>4, AgainMoves DEF Trim
    <2>2. \A b \in Buckets : Sent(b)' \subseteq Sent(b) \ {c}
      BY <1>4, AgainMoves DEF Sent, NewCall
    <2>3. Entered'
      <3>1. \A b \in Buckets : \A d \in events'[b] : call'[d].pc \in {"calling", "over"}
        <4> TAKE b \in Buckets
        <4> TAKE d \in events'[b]
        <4>0. events'[b] = events[b] \ {c} /\ events[b] \subseteq Calls
          <5>1. events'[b] = events[b] \ {c}
            BY <1>4, AgainMoves
          <5>2. events[b] \subseteq Calls
            BY DEF TypeOK
          <5> QED
            BY <5>1, <5>2
        <4>1. d \in events[b] /\ d # c /\ d \in Calls
          BY <4>0
        <4>2. call[d].pc \in {"calling", "over"}
          BY <4>1 DEF RateInv, Entered
        <4>3. call'[d] = call[d]
          BY <1>4, <4>1, AgainMoves
        <4> QED
          BY <4>2, <4>3
      <3>2. \A b \in Buckets : Sent(b)' \subseteq events'[b]
        BY <1>4, <2>2, AgainMoves DEF RateInv, Entered
      <3> QED
        BY <3>1, <3>2 DEF Entered
    <2> QED
      BY <2>1, <2>3, LimitsKept DEF RateInv
  <1> QED
    BY <1>1, <1>2, <1>3, <1>4 DEF Next

\* In no window do more calls, or more tokens, reach a provider than its
\* rpm_limit and tpm_limit allow (llm_throttle.py 181-253), for every number
\* of calls, every estimate and every limit: what the trimmed entries of a
\* bucket add up to never passes the limits, and no call that was let through
\* within the window is missing from them.
THEOREM DispatchWindowRespected == Spec => []WindowRespected
  <1>1. Init => TypeOK /\ Bucketed
    BY InitTyped DEF Init, Bucketed, NewCall
  <1>2. Spec => [](TypeOK /\ Bucketed /\ Counted)
    BY <1>1, TypeStep, InitCounted, CountedStep, PTL DEF Spec
  <1>3. Spec => []RateInv
    BY <1>2, InitRate, RateStep, PTL DEF Spec
  <1> QED
    BY <1>2, <1>3, RateSuffices, PTL
=============================================================================
