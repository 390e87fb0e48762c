--------------------------- MODULE Decisions_proofs ---------------------------
(* Proofs about Decisions, for inputs of any size: the two readers of a    *)
(* selector, for all texts and labels; select_worker, for all strategies,  *)
(* keys and lists of workers; apply_misfire, for all modes, fire times,    *)
(* times and graces.                                                       *)
EXTENDS Decisions, FiniteSetTheorems, TLAPS

(* A set of numbers has a least one. *)
LEMMA Least ==
    ASSUME NEW S \in SUBSET Nat, S # {}
    PROVE  \E x \in S : \A y \in S : x <= y
  <1>1. PICK x \in S : \A y \in S : ~ (<<y, x>> \in OpToRel(<, Nat))
    BY NatLessThanWellFounded, WFMin
  <1>2. \A y \in S : ~ (y < x)
    BY <1>1 DEF OpToRel
  <1> QED BY <1>2

-----------------------------------------------------------------------------
(* Selectors *)

(* The last part with a key of the text *)
LEMMA LastOfKey ==
    ASSUME NEW text \in Seq(Parts), NEW i \in DOMAIN text
    PROVE  \E j \in DOMAIN text :
              /\ text[j].key = text[i].key
              /\ \A k \in (j + 1) .. Len(text) : text[k].key # text[j].key
  <1> DEFINE Same == {j \in DOMAIN text : text[j].key = text[i].key}
             FromEnd == {Len(text) - j : j \in Same}
  <1>1. FromEnd \subseteq Nat /\ FromEnd # {}
    OBVIOUS
  <1>2. PICK d \in FromEnd : \A e \in FromEnd : d <= e
    <2> HIDE DEF FromEnd
    <2> QED BY <1>1, Least
  <1>4. PICK j \in Same : d = Len(text) - j
    OBVIOUS
  <1>5. ASSUME NEW k \in (j + 1) .. Len(text), text[k].key = text[j].key PROVE FALSE
    <2>1. k \in Same /\ Len(text) - k \in FromEnd
      <3>1. k \in DOMAIN text
        OBVIOUS
      <3>2. text[k].key = text[i].key
        BY <1>5
      <3> QED BY <3>1, <3>2
    <2>2. ~ (d <= Len(text) - k)
      BY <1>4
    <2> HIDE DEF FromEnd
    <2> QED BY <1>2, <2>1, <2>2
  <1> QED BY <1>4, <1>5

(* Where no key has two values the map of the Rust reader keeps all parts. *)
LEMMA EntriesAreParts ==
    ASSUME NEW text \in Seq(Parts)
    PROVE  /\ Entries(text) \subseteq PartsOf(text)
           /\ OneValuePerKey(PartsOf(text)) => Entries(text) = PartsOf(text)
  <1>1. Entries(text) \subseteq PartsOf(text)
    BY DEF Entries, PartsOf
  <1>2. ASSUME OneValuePerKey(PartsOf(text)), NEW i \in DOMAIN text
        PROVE  text[i] \in Entries(text)
    <2>1. PICK j \in DOMAIN text :
              /\ text[j].key = text[i].key
              /\ \A k \in (j + 1) .. Len(text) : text[k].key # text[j].key
      BY LastOfKey
    <2>2. text[i] = text[j]
      BY <1>2, <2>1 DEF OneValuePerKey, PartsOf
    <2>3. text[j] \in Entries(text)
      BY <2>1 DEF Entries
    <2> QED BY <2>2, <2>3
  <1> QED BY <1>1, <1>2 DEF PartsOf

(* The verdicts of the two readers on one selector. *)
LEMMA VerdictsAgree ==
    ASSUME NEW selector \in Seq(Parts), NEW labels
    PROVE  Agree(selector, SelectorMatches(labels, selector), RustMatches(labels, selector))
  <1> DEFINE script == SelectorMatches(labels, selector)
             rust == RustMatches(labels, selector)
  <1>1. script = "match" => PartsOf(selector) \subseteq labels /\ WellFormed(selector)
    BY DEF SelectorMatches, PartHolds, PartsOf, WellFormed
  <1>2. script = "match" => rust = "match"
    BY <1>1, EntriesAreParts DEF RustMatches
  <1>3. script = "invalid" => rust = "invalid"
    BY DEF SelectorMatches, RustMatches, WellFormed, PartsOf
  <1>4. ASSUME WellFormed(selector), OneValuePerKey(PartsOf(selector)) PROVE script = rust
    <2>1. Entries(selector) = PartsOf(selector)
      BY <1>4, EntriesAreParts
    <2>2. (\A i \in DOMAIN selector : PartHolds(labels, selector[i])) <=> PartsOf(selector) \subseteq labels
      BY <1>4 DEF PartHolds, PartsOf, WellFormed
    <2>3. ~ \E i \in DOMAIN selector : selector[i] = Malformed
      BY <1>4 DEF WellFormed, PartsOf
    <2> QED BY <1>4, <2>1, <2>2, <2>3 DEF SelectorMatches, RustMatches
  <1> QED BY <1>2, <1>3, <1>4 DEF Agree

(* Whatever is asked, in any state: the claim script's reader and the one  *)
(* of domain/labels.rs agree as ReadersAgree says.                         *)
THEOREM ReadersAlwaysAgree == Spec => []ReadersAgree
  <1> DEFINE Inv == /\ question.about = "selector" => question.selector \in Seq(Parts)
                    /\ ReadersAgree
  <1>1. Init => Inv
    <2> SUFFICES ASSUME Init PROVE Inv
      OBVIOUS
    <2>1. question.about = "selector" => question.selector \in Selectors
      BY DEF Init, Questions
    <2>2. ~answered
      BY DEF Init
    <2> QED BY <2>1, <2>2, DecisionsAssumption DEF ReadersAgree, Answered
  <1>2. Inv /\ [Decide]_vars => Inv'
    <2> SUFFICES ASSUME Inv, [Decide]_vars PROVE Inv'
      OBVIOUS
    <2>1. CASE Decide
      <3>1. question' = question
        BY <2>1 DEF Decide
      <3>2. ASSUME question.about = "selector" PROVE Agree(question.selector, answer'[1], answer'[2])
        <4>1. answer' = <<SelectorMatches(question.labels, question.selector),
                          RustMatches(question.labels, question.selector)>>
          BY <2>1, <3>2 DEF Decide, Answer
        <4> QED BY <3>2, <4>1, VerdictsAgree
      <3> QED BY <3>1, <3>2 DEF ReadersAgree, Answered
    <2>2. CASE UNCHANGED vars
      BY <2>2 DEF vars, ReadersAgree, Answered
    <2> QED BY <2>1, <2>2
  <1> QED BY <1>1, <1>2, PTL DEF Spec

-----------------------------------------------------------------------------
(* Numbers, and functions that take numbers off a set of them one by one:  *)
(* what a fold of a sequence is.  A part of 1 .. n has a greatest number.  *)
LEMMA Greatest ==
    ASSUME NEW n \in Nat, NEW S \in SUBSET (1 .. n), S # {}
    PROVE  /\ Max(S) \in S
           /\ \A y \in S : Max(S) >= y
  <1> DEFINE Below == {n - y : y \in S}
  <1>1. Below \in SUBSET Nat /\ Below # {}
    <2>1. \A y \in S : n - y \in Nat
      OBVIOUS
    <2> QED BY <2>1
  <1>2. PICK d \in Below : \A e \in Below : d <= e
    <2> HIDE DEF Below
    <2> QED BY <1>1, Least
  <1>3. PICK x \in S : d = n - x
    OBVIOUS
  <1>4. \A y \in S : x >= y
    <2> SUFFICES ASSUME NEW y \in S PROVE x >= y
      OBVIOUS
    <2>1. n - y \in Below
      OBVIOUS
    <2>2. n - x <= n - y
      BY <1>2, <1>3, <2>1
    <2> QED BY <2>2
  <1> QED BY <1>4 DEF Max

(* What holds of 0 and, of each number up to n, when it holds of the one   *)
(* before, holds of n.                                                     *)
LEMMA CountsUp ==
    ASSUME NEW n \in Nat, NEW G, 0 \in G, \A k \in 1 .. n : k - 1 \in G => k \in G
    PROVE  n \in G
  <1> DEFINE Bad == {k \in 0 .. n : k \notin G}
  <1>1. ASSUME Bad # {} PROVE FALSE
    <2>1. Bad \in SUBSET Nat
      OBVIOUS
    <2>2. PICK k \in Bad : \A j \in Bad : k <= j
      <3> HIDE DEF Bad
      <3> QED BY <1>1, <2>1, Least
    <2>3. k \in 1 .. n /\ k \notin G /\ k - 1 \in 0 .. n /\ ~ (k <= k - 1)
      OBVIOUS
    <2>4. k - 1 \notin Bad
      <3> HIDE DEF Bad
      <3> QED BY <2>2, <2>3
    <2> QED BY <2>3, <2>4
  <1>2. n \in 0 .. n
    OBVIOUS
  <1> QED BY <1>1, <1>2

(* What a fold of a sequence is made of: a function that takes the last    *)
(* place off a set of places, for any step.                                *)
IsFold(iter, n, V, base, step) ==
    /\ iter \in [SUBSET (1 .. n) -> V]
    /\ \A s \in SUBSET (1 .. n) :
         iter[s] = IF s = {} THEN base ELSE step[s][iter[s \ {Max(s)}]]

IsStep(step, n, V) == step \in [SUBSET (1 .. n) -> [V -> V]]

LEMMA FoldExists ==
    ASSUME NEW n \in Nat, NEW V, NEW base \in V, NEW step, IsStep(step, n, V)
    PROVE  \E iter : IsFold(iter, n, V, base, step)
  <1> DEFINE Folds(g, k) ==
               \A s \in SUBSET (1 .. k) : g[s] = IF s = {} THEN base ELSE step[s][g[s \ {Max(s)}]]
             Done(k) == \E g \in [SUBSET (1 .. k) -> V] : Folds(g, k)
  <1>0. step \in [SUBSET (1 .. n) -> [V -> V]]
    BY DEF IsStep
  <1>2. Done(0)
    <2> DEFINE g == [s \in SUBSET (1 .. 0) |-> base]
    <2>1. g \in [SUBSET (1 .. 0) -> V] /\ SUBSET (1 .. 0) = {{}}
      OBVIOUS
    <2>2. Folds(g, 0)
      BY <2>1
    <2> QED BY <2>1, <2>2
  <1>3. ASSUME NEW k \in Nat, k + 1 \in 0 .. n, Done(k) PROVE Done(k + 1)
    <2>1. PICK g \in [SUBSET (1 .. k) -> V] : Folds(g, k)
      BY <1>3
    <2> DEFINE m == k + 1
               h == [s \in SUBSET (1 .. m) |-> IF m \in s THEN step[s][g[s \ {m}]] ELSE g[s]]
    <2>2. m \in Nat /\ m <= n /\ 1 .. k \subseteq 1 .. m /\ 1 .. m \subseteq 1 .. n
      BY <1>3
    <2>3. \A s \in SUBSET (1 .. m) : s \ {m} \in SUBSET (1 .. k) /\ (m \notin s => s \in SUBSET (1 .. k))
      OBVIOUS
    <2>4. h \in [SUBSET (1 .. m) -> V]
      <3> HIDE DEF m
      <3> QED BY <1>0, <2>2, <2>3
    <2>5. ASSUME NEW s \in SUBSET (1 .. m)
          PROVE  h[s] = IF s = {} THEN base ELSE step[s][h[s \ {Max(s)}]]
      <3>1. CASE m \in s
        <4>1. Max(s) \in s /\ Max(s) >= m
          <5>1. s # {}
            BY <3>1
          <5> HIDE DEF m
          <5> QED BY <2>2, <3>1, <5>1, Greatest
        <4>2. Max(s) = m
          <5>1. Max(s) \in 1 .. m
            BY <4>1
          <5> HIDE DEF m
          <5> QED BY <2>2, <4>1, <5>1
        <4>3. s \ {m} \in SUBSET (1 .. m) /\ m \notin s \ {m}
          OBVIOUS
        <4> HIDE DEF m
        <4> QED BY <3>1, <4>2, <4>3
      <3>2. CASE m \notin s
        <4>1. s \in SUBSET (1 .. k) /\ s \ {Max(s)} \in SUBSET (1 .. k)
          BY <2>3, <3>2
        <4>2. s \ {Max(s)} \in SUBSET (1 .. m) /\ m \notin s \ {Max(s)}
          BY <3>2
        <4>3. h[s] = g[s] /\ h[s \ {Max(s)}] = g[s \ {Max(s)}]
          BY <3>2, <4>2
        <4>4. g[s] = IF s = {} THEN base ELSE step[s][g[s \ {Max(s)}]]
          BY <2>1, <4>1
        <4> QED BY <4>3, <4>4
      <3> QED BY <3>1, <3>2
    <2> HIDE DEF h
    <2> QED BY <2>4, <2>5
  <1> HIDE DEF Done
  <1>4. ASSUME NEW k \in 1 .. n, Done(k - 1) PROVE Done(k)
    <2>1. k - 1 \in Nat /\ (k - 1) + 1 = k /\ k \in 0 .. n
      OBVIOUS
    <2> QED BY <1>3, <1>4, <2>1
  <1>5. n \in {k \in 0 .. n : Done(k)}
    <2> DEFINE G == {k \in 0 .. n : Done(k)}
    <2>1. 0 \in G /\ \A k \in 1 .. n : k - 1 \in G => k \in G
      BY <1>2, <1>4
    <2> HIDE DEF G
    <2> QED BY <2>1, CountsUp DEF G
  <1>6. Done(n)
    BY <1>5
  <1> QED BY <1>6 DEF Done, IsFold

(* Remainders *)
LEMMA Remainder ==
    ASSUME NEW M \in Nat \ {0}, NEW q \in Nat, NEW r \in 0 .. (M - 1)
    PROVE  (M * q + r) % M = r
  OBVIOUS

LEMMA Divided ==
    ASSUME NEW M \in Nat \ {0}, NEW a \in Nat
    PROVE  \E q \in Nat : a = M * q + (a % M) /\ a % M \in 0 .. (M - 1)
  <1>1. a = M * (a \div M) + (a % M)
    OBVIOUS
  <1>2. a % M \in 0 .. (M - 1)
    OBVIOUS
  <1>3. a \div M \in Nat
    OBVIOUS
  <1> QED BY <1>1, <1>2, <1>3

(* Taking a remainder on the way changes none at the end. *)
LEMMA Wraps ==
    ASSUME NEW M \in Nat \ {0}, NEW a \in Nat, NEW b \in Nat
    PROVE  ((a % M) * 31 + b) % M = (a * 31 + b) % M
  <1> DEFINE r == a % M
             x == r * 31 + b
             t == x % M
  <1>1. PICK q \in Nat : a = M * q + r /\ r \in 0 .. (M - 1)
    BY Divided
  <1>2. x \in Nat
    BY <1>1
  <1>3. PICK p \in Nat : x = M * p + t /\ t \in 0 .. (M - 1)
    <2> HIDE DEF x
    <2> QED BY <1>2, Divided
  <1>4. a * 31 + b = M * (31 * q + p) + t
    <2>1. a * 31 + b = (M * q) * 31 + r * 31 + b
      <3> DEFINE z == M * q
      <3>1. z \in Nat /\ r \in Nat /\ a = z + r
        BY <1>1
      <3>2. a * 31 + b = z * 31 + r * 31 + b
        <4> HIDE DEF z, r
        <4> QED BY <3>1
      <3> QED BY <3>2
    <2>2. (M * q) * 31 = M * (31 * q)
      BY <1>1
    <2>3. M * (31 * q) + M * p = M * (31 * q + p)
      BY <1>1, <1>3
    <2> QED BY <1>1, <1>2, <1>3, <2>1, <2>2, <2>3
  <1>5. (M * (31 * q + p) + t) % M = t
    <2>1. 31 * q + p \in Nat
      BY <1>1, <1>3
    <2> HIDE DEF t
    <2> QED BY <1>3, <2>1, Remainder
  <1> QED BY <1>4, <1>5

-----------------------------------------------------------------------------
(* The hash, with its remainders taken on the way and at the end only *)
WrappingFold(iter, key) ==
    iter = [s \in SUBSET DOMAIN key |->
              IF s = {} THEN 0 ELSE (iter[s \ {Max(s)}] * 31 + key[Max(s)]) % Modulus]

PlainFold(iter, key) ==
    iter = [s \in SUBSET DOMAIN key |->
              IF s = {} THEN 0 ELSE iter[s \ {Max(s)}] * 31 + key[Max(s)]]

LEMMA StableIndexFolds ==
    ASSUME NEW key, NEW len
    PROVE  StableIndex(key, len) = (CHOOSE iter : WrappingFold(iter, key))[DOMAIN key] % len
  BY Zenon DEF StableIndex, FoldLeft, MapThenFoldSet, WrappingFold

(* Both folds exist, whatever the key. *)
LEMMA WrappingFoldExists ==
    ASSUME NEW key \in Seq(Nat)
    PROVE  \E iter : WrappingFold(iter, key)
  <1> DEFINE n == Len(key)
             P == SUBSET (1 .. n)
             step == [s \in P |-> [h \in Nat |->
                        IF s = {} THEN 0 ELSE (h * 31 + key[Max(s)]) % Modulus]]
  <1>1. n \in Nat /\ DOMAIN key = 1 .. n /\ key \in [1 .. n -> Nat]
    OBVIOUS
  <1>2. \A s \in P : s # {} => key[Max(s)] \in Nat
    <2> HIDE DEF n
    <2> QED BY <1>1, Greatest
  <1>3. \A h, b \in Nat : (h * 31 + b) % Modulus \in Nat
    BY ModulusAssumption, Divided
  <1>4. step \in [P -> [Nat -> Nat]]
    <2> HIDE DEF n, P
    <2> QED BY <1>2, <1>3
  <1>5. PICK iter \in [P -> Nat] :
          \A s \in P : iter[s] = IF s = {} THEN 0 ELSE step[s][iter[s \ {Max(s)}]]
    <2>1. IsStep(step, n, Nat)
      BY <1>4 DEF IsStep
    <2> HIDE DEF n, step
    <2>2. PICK iter : IsFold(iter, n, Nat, 0, step)
      BY <1>1, <2>1, FoldExists
    <2> QED BY <2>2 DEF IsFold
  <1>6. \A s \in P : s \ {Max(s)} \in P
    OBVIOUS
  <1>7. \A s \in P : iter[s] = IF s = {} THEN 0 ELSE (iter[s \ {Max(s)}] * 31 + key[Max(s)]) % Modulus
    <2> HIDE DEF n, P
    <2> QED BY <1>5, <1>6
  <1>8. WrappingFold(iter, key)
    <2> HIDE DEF n, step
    <2> QED BY <1>1, <1>5, <1>7 DEF WrappingFold
  <1> QED BY <1>8

LEMMA PlainFoldExists ==
    ASSUME NEW key \in Seq(Nat)
    PROVE  \E iter : PlainFold(iter, key)
  <1> DEFINE n == Len(key)
             P == SUBSET (1 .. n)
             step == [s \in P |-> [h \in Nat |-> IF s = {} THEN 0 ELSE h * 31 + key[Max(s)]]]
  <1>1. n \in Nat /\ DOMAIN key = 1 .. n /\ key \in [1 .. n -> Nat]
    OBVIOUS
  <1>2. \A s \in P : s # {} => key[Max(s)] \in Nat
    <2> HIDE DEF n
    <2> QED BY <1>1, Greatest
  <1>3. \A h, b \in Nat : h * 31 + b \in Nat
    OBVIOUS
  <1>4. step \in [P -> [Nat -> Nat]]
    <2> HIDE DEF n, P
    <2> QED BY <1>2, <1>3
  <1>5. PICK iter \in [P -> Nat] :
          \A s \in P : iter[s] = IF s = {} THEN 0 ELSE step[s][iter[s \ {Max(s)}]]
    <2>1. IsStep(step, n, Nat)
      BY <1>4 DEF IsStep
    <2> HIDE DEF n, step
    <2>2. PICK iter : IsFold(iter, n, Nat, 0, step)
      BY <1>1, <2>1, FoldExists
    <2> QED BY <2>2 DEF IsFold
  <1>6. \A s \in P : s \ {Max(s)} \in P
    OBVIOUS
  <1>7. \A s \in P : iter[s] = IF s = {} THEN 0 ELSE iter[s \ {Max(s)}] * 31 + key[Max(s)]
    <2> HIDE DEF n, P
    <2> QED BY <1>5, <1>6
  <1>8. PlainFold(iter, key)
    <2> HIDE DEF n, step
    <2> QED BY <1>1, <1>5, <1>7 DEF PlainFold
  <1> QED BY <1>8

(* The places of a sequence are taken off one by one from the end. *)
LEMMA LastPlace ==
    ASSUME NEW k \in Nat, k # 0
    PROVE  /\ 1 .. k # {} /\ Max(1 .. k) = k
           /\ (1 .. k) \ {k} = 1 .. (k - 1)
  <1>1. k \in 1 .. k
    OBVIOUS
  <1>2. Max(1 .. k) \in 1 .. k /\ Max(1 .. k) >= k
    BY <1>1, Greatest
  <1> QED BY <1>1, <1>2

(* The hash may wrap as often as it likes. *)
LEMMA HashWraps ==
    ASSUME NEW key \in Seq(Nat), NEW w, WrappingFold(w, key), NEW p, PlainFold(p, key)
    PROVE  /\ p[DOMAIN key] \in Nat
           /\ w[DOMAIN key] = p[DOMAIN key] % Modulus
  <1> DEFINE n == Len(key)
             Same(k) == /\ p[1 .. k] \in Nat
                        /\ w[1 .. k] = p[1 .. k] % Modulus
             G == {k \in 0 .. n : Same(k)}
  <1>1. n \in Nat /\ DOMAIN key = 1 .. n /\ \A k \in 1 .. n : key[k] \in Nat
    OBVIOUS
  <1>2. \A k \in 0 .. n : 1 .. k \in SUBSET DOMAIN key
    BY <1>1
  <1>3. Same(0)
    <2>1. 1 .. 0 = {}
      OBVIOUS
    <2>2. w[{}] = 0 /\ p[{}] = 0
      BY DEF WrappingFold, PlainFold
    <2>3. 0 % Modulus = 0
      BY ModulusAssumption
    <2> QED BY <2>1, <2>2, <2>3
  <1>4. ASSUME NEW k \in 1 .. n, Same(k - 1) PROVE Same(k)
    <2>1. k \in Nat /\ k # 0 /\ k \in 0 .. n
      BY <1>1
    <2>2. /\ w[1 .. k] = (w[1 .. (k - 1)] * 31 + key[k]) % Modulus
          /\ p[1 .. k] = p[1 .. (k - 1)] * 31 + key[k]
      <3>1. PICK s \in SUBSET DOMAIN key : s = 1 .. k
        BY <1>2, <2>1
      <3>2. s # {} /\ Max(s) = k /\ s \ {Max(s)} = 1 .. (k - 1)
        BY <2>1, <3>1, LastPlace
      <3>3. w[s] = (w[s \ {Max(s)}] * 31 + key[Max(s)]) % Modulus
        BY <3>2 DEF WrappingFold
      <3>4. p[s] = p[s \ {Max(s)}] * 31 + key[Max(s)]
        BY <3>2 DEF PlainFold
      <3> QED BY <3>1, <3>2, <3>3, <3>4
    <2> DEFINE a == p[1 .. (k - 1)]
               b == key[k]
    <2>3. a \in Nat /\ b \in Nat /\ w[1 .. (k - 1)] = a % Modulus
      BY <1>1, <1>4
    <2>4. a * 31 + b \in Nat
      BY <2>3
    <2>5. ((a % Modulus) * 31 + b) % Modulus = (a * 31 + b) % Modulus
      <3> HIDE DEF a, b
      <3> QED BY <2>3, ModulusAssumption, Wraps
    <2> QED BY <2>2, <2>3, <2>4, <2>5
  <1> HIDE DEF Same
  <1>5. 0 \in G /\ \A k \in 1 .. n : k - 1 \in G => k \in G
    BY <1>1, <1>3, <1>4
  <1>6. n \in G
    <2> HIDE DEF n, G
    <2> QED BY <1>1, <1>5, CountsUp
  <1> QED BY <1>1, <1>6 DEF Same

(* The polynomial of a key, term by term *)
Powers(power, n) == power = [j \in 0 .. n |-> IF j = 0 THEN 1 ELSE 31 * power[j - 1]]

WeightedFold(iter, key, power) ==
    iter = [s \in SUBSET DOMAIN [i \in DOMAIN key |-> i] |->
              IF s = {} THEN 0
              ELSE iter[s \ {Max(s)}]
                     + key[[i \in DOMAIN key |-> i][Max(s)]]
                         * power[Len(key) - [i \in DOMAIN key |-> i][Max(s)]]]

LEMMA HashFolds ==
    ASSUME NEW key
    PROVE  Hash(key) = (CHOOSE iter : WeightedFold(iter, key, CHOOSE power : Powers(power, Len(key))))
                         [DOMAIN [i \in DOMAIN key |-> i]] % Modulus
  BY Zenon DEF Hash, FoldLeftDomain, FoldLeft, MapThenFoldSet, WeightedFold, Powers

LEMMA PowersExist ==
    ASSUME NEW n \in Nat
    PROVE  \E power : Powers(power, n) /\ power \in [0 .. n -> Nat]
  <1> DEFINE Have(k) == \E power : Powers(power, k) /\ power \in [0 .. k -> Nat]
             G == {k \in 0 .. n : Have(k)}
  <1>1. Have(0)
    <2> DEFINE power == [j \in 0 .. 0 |-> 1]
    <2>1. Powers(power, 0) /\ power \in [0 .. 0 -> Nat]
      BY DEF Powers
    <2> QED BY <2>1
  <1>2. ASSUME NEW k \in 1 .. n, Have(k - 1) PROVE Have(k)
    <2>1. PICK g : Powers(g, k - 1) /\ g \in [0 .. (k - 1) -> Nat]
      BY <1>2
    <2> DEFINE power == [j \in 0 .. k |-> IF j = k THEN 31 * g[k - 1] ELSE g[j]]
    <2>2. \A j \in 0 .. (k - 1) : g[j] \in Nat /\ g[j] = IF j = 0 THEN 1 ELSE 31 * g[j - 1]
      BY <2>1 DEF Powers
    <2>3. power \in [0 .. k -> Nat]
      BY <2>2
    <2>4. ASSUME NEW j \in 0 .. k
          PROVE  power[j] = IF j = 0 THEN 1 ELSE 31 * power[j - 1]
      <3>1. CASE j = k
        BY <3>1
      <3>2. CASE j # k
        <4>1. j \in 0 .. (k - 1) /\ (j # 0 => j - 1 \in 0 .. (k - 1) /\ j - 1 # k)
          BY <3>2
        <4> QED BY <2>2, <3>2, <4>1
      <3> QED BY <3>1, <3>2
    <2> HIDE DEF power
    <2>5. Powers(power, k)
      BY <2>3, <2>4 DEF Powers
    <2> QED BY <2>3, <2>5
  <1> HIDE DEF Have
  <1>3. 0 \in G /\ \A k \in 1 .. n : k - 1 \in G => k \in G
    BY <1>1, <1>2
  <1>4. n \in G
    <2> HIDE DEF G
    <2> QED BY <1>3, CountsUp
  <1> QED BY <1>4 DEF Have

LEMMA PowersNumbers ==
    ASSUME NEW n \in Nat, NEW power, Powers(power, n)
    PROVE  power \in [0 .. n -> Nat]
  <1> DEFINE G == {k \in 0 .. n : power[k] \in Nat}
  <1>1. DOMAIN power = 0 .. n /\ \A j \in 0 .. n : power[j] = IF j = 0 THEN 1 ELSE 31 * power[j - 1]
    BY DEF Powers
  <1>2. 0 \in G /\ \A k \in 1 .. n : k - 1 \in G => k \in G
    BY <1>1
  <1>3. ASSUME NEW m \in 0 .. n PROVE power[m] \in Nat
    <2>1. m \in Nat /\ \A k \in 1 .. m : k - 1 \in G => k \in G
      BY <1>2
    <2>2. m \in G
      <3> HIDE DEF G
      <3> QED BY <1>2, <2>1, CountsUp
    <2> QED BY <2>2
  <1>4. power = [j \in 0 .. n |-> power[j]]
    BY DEF Powers
  <1> QED BY <1>3, <1>4

LEMMA WeightedFoldExists ==
    ASSUME NEW key \in Seq(Nat), NEW power \in [0 .. Len(key) -> Nat]
    PROVE  \E iter : WeightedFold(iter, key, power)
  <1> DEFINE n == Len(key)
             P == SUBSET (1 .. n)
             step == [s \in P |-> [h \in Nat |->
                        IF s = {} THEN 0 ELSE h + key[Max(s)] * power[n - Max(s)]]]
  <1>1. n \in Nat /\ DOMAIN key = 1 .. n /\ key \in [1 .. n -> Nat] /\ power \in [0 .. n -> Nat]
    OBVIOUS
  <1>2. \A s \in P : s # {} => Max(s) \in 1 .. n
    <2> HIDE DEF n
    <2> QED BY <1>1, Greatest
  <1>3. \A m \in 1 .. n : key[m] * power[n - m] \in Nat
    <2> HIDE DEF n
    <2> SUFFICES ASSUME NEW m \in 1 .. n PROVE key[m] * power[n - m] \in Nat
      OBVIOUS
    <2>1. n - m \in 0 .. n
      BY <1>1
    <2>2. key[m] \in Nat /\ power[n - m] \in Nat
      BY <1>1, <2>1
    <2> QED BY <2>2
  <1>4. step \in [P -> [Nat -> Nat]]
    <2>1. \A s \in P : s # {} => key[Max(s)] * power[n - Max(s)] \in Nat
      <3> HIDE DEF n, P
      <3> QED BY <1>2, <1>3
    <2> HIDE DEF n, P
    <2> QED BY <2>1
  <1>5. PICK iter \in [P -> Nat] :
          \A s \in P : iter[s] = IF s = {} THEN 0 ELSE step[s][iter[s \ {Max(s)}]]
    <2>1. IsStep(step, n, Nat)
      BY <1>4 DEF IsStep
    <2> HIDE DEF n, step
    <2>2. PICK iter : IsFold(iter, n, Nat, 0, step)
      BY <1>1, <2>1, FoldExists
    <2> QED BY <2>2 DEF IsFold
  <1>6. \A s \in P : s \ {Max(s)} \in P
    OBVIOUS
  <1>7. \A s \in P : iter[s] = IF s = {} THEN 0
                               ELSE iter[s \ {Max(s)}] + key[Max(s)] * power[n - Max(s)]
    <2> HIDE DEF n, P
    <2> QED BY <1>5, <1>6
  <1>8. WeightedFold(iter, key, power)
    <2> DEFINE id == [i \in DOMAIN key |-> i]
    <2>1. DOMAIN id = 1 .. n /\ \A s \in P : s # {} => id[Max(s)] = Max(s)
      <3> HIDE DEF n, P
      <3> QED BY <1>1, <1>2
    <2>2. iter = [s \in SUBSET DOMAIN id |->
                    IF s = {} THEN 0 ELSE iter[s \ {Max(s)}] + key[id[Max(s)]] * power[Len(key) - id[Max(s)]]]
      <3> HIDE DEF step, id
      <3> QED BY <1>5, <1>7, <2>1
    <2> QED BY <2>2 DEF WeightedFold
  <1> QED BY <1>8

(* Horner's rule *)
LEMMA Horner ==
    ASSUME NEW key \in Seq(Nat), NEW power \in [0 .. Len(key) -> Nat], Powers(power, Len(key)),
           NEW p, PlainFold(p, key), NEW t, WeightedFold(t, key, power)
    PROVE  t[DOMAIN [i \in DOMAIN key |-> i]] = p[DOMAIN key]
  <1> DEFINE n == Len(key)
             id == [i \in DOMAIN key |-> i]
             Same(k) == /\ p[1 .. k] \in Nat
                        /\ t[1 .. k] = p[1 .. k] * power[n - k]
             G == {k \in 0 .. n : Same(k)}
  <1>1. n \in Nat /\ DOMAIN key = 1 .. n /\ \A k \in 1 .. n : key[k] \in Nat
    OBVIOUS
  <1>2. \A k \in 0 .. n : 1 .. k \in SUBSET DOMAIN key
    BY <1>1
  <1>3. DOMAIN id = DOMAIN key /\ \A k \in DOMAIN key : id[k] = k
    OBVIOUS
  <1>4. \A j \in 0 .. n : power[j] \in Nat /\ power[j] = IF j = 0 THEN 1 ELSE 31 * power[j - 1]
    BY DEF Powers
  <1>5. Same(0)
    <2>1. 1 .. 0 = {}
      OBVIOUS
    <2>2. p[{}] = 0 /\ t[{}] = 0
      BY DEF PlainFold, WeightedFold
    <2>3. n - 0 \in 0 .. n
      BY <1>1
    <2>4. power[n - 0] \in Nat
      BY <1>4, <2>3
    <2> QED BY <2>1, <2>2, <2>4
  <1>6. ASSUME NEW k \in 1 .. n, Same(k - 1) PROVE Same(k)
    <2>1. k \in Nat /\ k # 0 /\ k \in 0 .. n
      BY <1>1
    <2>2. /\ p[1 .. k] = p[1 .. (k - 1)] * 31 + key[k]
          /\ t[1 .. k] = t[1 .. (k - 1)] + key[k] * power[n - k]
      <3>1. PICK s \in SUBSET DOMAIN key : s = 1 .. k
        BY <1>2, <2>1
      <3>2. s # {} /\ Max(s) = k /\ s \ {Max(s)} = 1 .. (k - 1)
        BY <2>1, <3>1, LastPlace
      <3>3. p[s] = p[s \ {Max(s)}] * 31 + key[Max(s)]
        BY <3>2 DEF PlainFold
      <3>4. t[s] = t[s \ {Max(s)}] + key[id[Max(s)]] * power[Len(key) - id[Max(s)]]
        <4>1. s \in SUBSET DOMAIN id
          BY <1>3
        <4>2. t = [u \in SUBSET DOMAIN id |->
                     IF u = {} THEN 0
                     ELSE t[u \ {Max(u)}] + key[id[Max(u)]] * power[Len(key) - id[Max(u)]]]
          BY DEF WeightedFold
        <4> HIDE DEF id
        <4> QED BY <3>2, <4>1, <4>2
      <3>5. id[k] = k
        BY <1>1, <1>3
      <3> HIDE DEF id
      <3> QED BY <3>1, <3>2, <3>3, <3>4, <3>5
    <2> DEFINE a == p[1 .. (k - 1)]
               b == key[k]
               c == power[n - k]
    <2>3. n - k \in 0 .. n /\ n - (k - 1) \in 0 .. n /\ n - (k - 1) # 0 /\ (n - (k - 1)) - 1 = n - k
      BY <1>1
    <2>4. power[n - (k - 1)] = 31 * c /\ c \in Nat
      BY <1>4, <2>3
    <2>5. a \in Nat /\ b \in Nat /\ t[1 .. (k - 1)] = a * (31 * c)
      BY <1>1, <1>6, <2>4
    <2>6. a * (31 * c) + b * c = (a * 31 + b) * c /\ a * 31 + b \in Nat
      <3> HIDE DEF a, b, c
      <3> QED BY <2>4, <2>5
    <2>7. p[1 .. k] = a * 31 + b /\ t[1 .. k] = a * (31 * c) + b * c
      BY <2>2, <2>5
    <2> HIDE DEF a, b, n
    <2> QED BY <2>6, <2>7
  <1> HIDE DEF Same
  <1>7. 0 \in G /\ \A k \in 1 .. n : k - 1 \in G => k \in G
    BY <1>1, <1>5, <1>6
  <1>8. n \in G
    <2> HIDE DEF n, G
    <2> QED BY <1>1, <1>7, CountsUp
  <1>9. p[1 .. n] \in Nat /\ t[1 .. n] = p[1 .. n] * power[n - n]
    BY <1>8 DEF Same
  <1>10. power[n - n] = 1
    BY <1>1, <1>4
  <1> HIDE DEF n
  <1> QED BY <1>1, <1>3, <1>9, <1>10

LEMMA HashIsPolynomial ==
    ASSUME NEW key \in Seq(Nat)
    PROVE  \E p : PlainFold(p, key) /\ Hash(key) = p[DOMAIN key] % Modulus
  <1> DEFINE power == CHOOSE power : Powers(power, Len(key))
             t == CHOOSE iter : WeightedFold(iter, key, power)
  <1>1. Powers(power, Len(key)) /\ power \in [0 .. Len(key) -> Nat]
    <2>1. Len(key) \in Nat
      OBVIOUS
    <2>2. Powers(power, Len(key))
      BY <2>1, PowersExist
    <2> HIDE DEF power
    <2> QED BY <2>1, <2>2, PowersNumbers
  <1>2. Hash(key) = t[DOMAIN [i \in DOMAIN key |-> i]] % Modulus
    BY HashFolds
  <1> HIDE DEF power
  <1>3. WeightedFold(t, key, power)
    BY <1>1, WeightedFoldExists
  <1>4. PICK p : PlainFold(p, key)
    BY PlainFoldExists
  <1> HIDE DEF t
  <1>5. t[DOMAIN [i \in DOMAIN key |-> i]] = p[DOMAIN key]
    BY <1>1, <1>3, <1>4, Horner
  <1> QED BY <1>2, <1>4, <1>5

LEMMA StableIndexIsHash ==
    ASSUME NEW key \in Seq(Nat), NEW len
    PROVE  StableIndex(key, len) = Hash(key) % len
  <1> DEFINE w == CHOOSE iter : WrappingFold(iter, key)
  <1>1. WrappingFold(w, key)
    BY WrappingFoldExists
  <1>2. StableIndex(key, len) = w[DOMAIN key] % len
    BY StableIndexFolds
  <1>3. PICK p : PlainFold(p, key) /\ Hash(key) = p[DOMAIN key] % Modulus
    BY HashIsPolynomial
  <1> HIDE DEF w
  <1> QED BY <1>1, <1>2, <1>3, HashWraps

LEMMA HashNumber ==
    ASSUME NEW key \in Seq(Nat)
    PROVE  Hash(key) \in Nat
  <1>1. PICK w : WrappingFold(w, key)
    BY WrappingFoldExists
  <1>2. PICK p : PlainFold(p, key) /\ Hash(key) = p[DOMAIN key] % Modulus
    BY HashIsPolynomial
  <1>3. p[DOMAIN key] \in Nat
    BY <1>1, <1>2, HashWraps
  <1>4. \A v \in Nat : v % Modulus \in Nat
    BY ModulusAssumption, Divided
  <1> QED BY <1>2, <1>3, <1>4

-----------------------------------------------------------------------------
(* The strategies *)
Workers == [active_count: Nat, capacity: Nat]

LEMMA FirstChosen ==
    ASSUME NEW n \in Nat, NEW I \in SUBSET (1 .. n), I # {}
    PROVE  LET i == CHOOSE x \in I : \A y \in I : x <= y
           IN  i \in I /\ \A y \in I : i <= y
  <1>1. I \in SUBSET Nat
    OBVIOUS
  <1>2. \E x \in I : \A y \in I : x <= y
    BY <1>1, Least
  <1> QED BY <1>2

(* min_by_key: the first of the least *)
LEMMA LeastActiveFirst ==
    ASSUME NEW workers \in Seq(Workers), workers # <<>>
    PROVE  LET i == LeastActive(workers)
           IN  /\ i \in DOMAIN workers
               /\ \A j \in DOMAIN workers :
                    /\ workers[i].active_count <= workers[j].active_count
                    /\ j < i => workers[i].active_count < workers[j].active_count
  <1> DEFINE n == Len(workers)
             count == [i \in 1 .. n |-> workers[i].active_count]
             I == {i \in 1 .. n : \A j \in DOMAIN workers :
                     workers[i].active_count <= workers[j].active_count}
             i == CHOOSE x \in I : \A y \in I : x <= y
  <1>1. n \in Nat /\ n # 0 /\ DOMAIN workers = 1 .. n /\ count \in [1 .. n -> Nat]
    <2>1. n \in Nat /\ n # 0 /\ DOMAIN workers = 1 .. n
      OBVIOUS
    <2>2. \A k \in 1 .. n : workers[k] \in Workers
      OBVIOUS
    <2>3. \A k \in 1 .. n : workers[k].active_count \in Nat
      BY <2>2 DEF Workers
    <2> QED BY <2>1, <2>3
  <1>2. I # {}
    <2> DEFINE Counts == {count[k] : k \in 1 .. n}
    <2>1. Counts \in SUBSET Nat /\ count[1] \in Counts
      <3> HIDE DEF count
      <3> QED BY <1>1
    <2>2. PICK c \in Counts : \A d \in Counts : c <= d
      <3> HIDE DEF Counts
      <3> QED BY <2>1, Least
    <2>3. PICK k \in 1 .. n : c = count[k]
      OBVIOUS
    <2>4. \A j \in 1 .. n : count[k] <= count[j]
      <3> HIDE DEF count
      <3> QED BY <2>2, <2>3
    <2>5. k \in I
      BY <1>1, <2>4
    <2> QED BY <2>5
  <1>3. LeastActive(workers) = i
    BY <1>2 DEF LeastActive, SelectInSeq, Min
  <1>4. I \in SUBSET (1 .. n)
    OBVIOUS
  <1>5. i \in I /\ \A y \in I : i <= y
    <2> HIDE DEF n, I
    <2> QED BY <1>1, <1>2, <1>4, FirstChosen
  <1>6. \A j \in DOMAIN workers : workers[i].active_count <= workers[j].active_count
    <2> HIDE DEF i
    <2> QED BY <1>5
  <1>7. ASSUME NEW j \in DOMAIN workers, j < i
        PROVE  workers[i].active_count < workers[j].active_count
    <2>1. i \in 1 .. n /\ i \in Nat /\ j \in Nat /\ j \in 1 .. n
      BY <1>1, <1>4, <1>5
    <2> HIDE DEF i
    <2>2. j \notin I
      <3> HIDE DEF I
      <3> QED BY <1>5, <1>7, <2>1
    <2>3. PICK k \in DOMAIN workers : ~ (workers[j].active_count <= workers[k].active_count)
      BY <2>1, <2>2
    <2>4. /\ workers[i].active_count \in Nat
          /\ workers[j].active_count \in Nat
          /\ workers[k].active_count \in Nat
      BY <1>1, <2>1, <2>3 DEF Workers
    <2>5. workers[i].active_count <= workers[k].active_count
      BY <1>6
    <2> QED BY <2>3, <2>4, <2>5
  <1> HIDE DEF i
  <1> QED BY <1>1, <1>3, <1>4, <1>5, <1>6, <1>7

(* find: the first that is not full, 0 for none *)
LEMMA BusyoverFirst ==
    ASSUME NEW workers \in Seq(Workers)
    PROVE  LET i == Busyover(workers)
           IN  IF i = 0 THEN \A j \in DOMAIN workers : ~ Idle(workers[j])
               ELSE /\ i \in DOMAIN workers /\ Idle(workers[i])
                    /\ \A j \in 1 .. (i - 1) : ~ Idle(workers[j])
  <1> DEFINE n == Len(workers)
             I == {i \in 1 .. n : Idle(workers[i])}
             i == CHOOSE x \in I : \A y \in I : x <= y
  <1>1. n \in Nat /\ DOMAIN workers = 1 .. n
    OBVIOUS
  <1>2. Busyover(workers) = IF I # {} THEN i ELSE 0
    BY Zenon DEF Busyover, SelectInSeq, Min
  <1>3. CASE I = {}
    BY <1>1, <1>2, <1>3
  <1>4. CASE I # {}
    <2>1. I \in SUBSET (1 .. n)
      OBVIOUS
    <2>2. i \in I /\ \A y \in I : i <= y
      <3> HIDE DEF n, I
      <3> QED BY <1>1, <1>4, <2>1, FirstChosen
    <2>3. i \in 1 .. n /\ Idle(workers[i])
      <3> HIDE DEF i
      <3> QED BY <2>2
    <2> HIDE DEF i
    <2>4. ASSUME NEW j \in 1 .. (i - 1) PROVE ~ Idle(workers[j])
      <3>1. j \in 1 .. n /\ ~ (i <= j)
        BY <1>1, <2>3
      <3>2. j \notin I
        <4> HIDE DEF I
        <4> QED BY <2>2, <3>1
      <3> QED BY <3>1, <3>2
    <2>5. Busyover(workers) = i /\ i # 0
      BY <1>2, <1>4, <2>3
    <2> QED BY <1>1, <2>3, <2>4, <2>5
  <1> QED BY <1>3, <1>4

(* Whatever is asked, select_worker answers with a worker its strategy     *)
(* permits, or with an error when it permits none.                         *)
LEMMA SelectsRight ==
    ASSUME NEW strategy \in RouteStrategies, NEW key \in Seq(Nat), NEW workers \in Seq(Workers)
    PROVE  RightWorker(strategy, key, workers, SelectWorker(strategy, key, workers))
  <1> DEFINE picked == SelectWorker(strategy, key, workers)
  <1>1. SUFFICES \/ picked = Error /\ \A i \in DOMAIN workers : ~ Permits(strategy, key, workers, i)
                 \/ \E i \in DOMAIN workers : Permits(strategy, key, workers, i) /\ picked = workers[i]
    BY DEF RightWorker
  <1>2. CASE strategy = "broadcast" \/ workers = <<>>
    <2>1. picked = Error
      BY <1>2 DEF SelectWorker
    <2>2. \A i \in DOMAIN workers : ~ Permits(strategy, key, workers, i)
      <3>1. CASE strategy = "broadcast"
        BY <3>1 DEF Permits
      <3>2. CASE workers = <<>>
        BY <3>2
      <3> QED BY <1>2, <3>1, <3>2
    <2> QED BY <2>1, <2>2
  <1>3. CASE strategy # "broadcast" /\ workers # <<>>
    <2> DEFINE i == Selected(strategy, key, workers)
    <2>1. picked = IF i = 0 THEN Error ELSE workers[i]
      BY <1>3 DEF SelectWorker
    <2>2. Len(workers) \in Nat \ {0} /\ DOMAIN workers = 1 .. Len(workers)
      BY <1>3
    <2>3. CASE strategy \in {"random", "round_robin", "failover"}
      <3>1. i = 1 /\ 1 \in DOMAIN workers
        BY <2>2, <2>3 DEF Selected
      <3>2. Permits(strategy, key, workers, 1)
        BY <2>3 DEF Permits
      <3> QED BY <2>1, <3>1, <3>2
    <2>4. CASE strategy = "least_active"
      <3>1. i = LeastActive(workers)
        BY <2>4 DEF Selected
      <3>2. i \in DOMAIN workers /\ Permits(strategy, key, workers, i)
        BY <1>3, <2>4, <3>1, LeastActiveFirst DEF Permits
      <3> HIDE DEF i
      <3>3. i # 0
        BY <2>2, <3>2
      <3> QED BY <2>1, <3>2, <3>3
    <2>5. CASE strategy = "busyover"
      <3>1. i = Busyover(workers)
        BY <2>5 DEF Selected
      <3> HIDE DEF i
      <3>2. \A j \in DOMAIN workers :
              workers[j] \in Workers /\ (Idle(workers[j]) <=> workers[j].capacity > workers[j].active_count)
                /\ (~ Idle(workers[j]) <=> workers[j].capacity <= workers[j].active_count)
        <4>1. \A j \in DOMAIN workers : workers[j] \in Workers
          OBVIOUS
        <4>2. \A j \in DOMAIN workers : workers[j].active_count \in Nat /\ workers[j].capacity \in Nat
          BY <4>1 DEF Workers
        <4> QED BY <4>1, <4>2 DEF Idle
      <3>3. CASE i = 0
        <4>1. \A j \in DOMAIN workers : ~ Idle(workers[j])
          BY <3>1, <3>3, BusyoverFirst
        <4>2. \A j \in DOMAIN workers : ~ Permits(strategy, key, workers, j)
          BY <2>5, <3>2, <4>1 DEF Permits
        <4> QED BY <2>1, <3>3, <4>2
      <3>4. CASE i # 0
        <4>1. i \in DOMAIN workers /\ Idle(workers[i]) /\ \A j \in 1 .. (i - 1) : ~ Idle(workers[j])
          BY <3>1, <3>4, BusyoverFirst
        <4>2. \A j \in 1 .. (i - 1) : j \in DOMAIN workers
          BY <2>2, <4>1
        <4>3. Permits(strategy, key, workers, i)
          BY <2>5, <3>2, <4>1, <4>2 DEF Permits
        <4> QED BY <2>1, <3>4, <4>1, <4>3
      <3> QED BY <3>3, <3>4
    <2>6. CASE strategy = "consistent_hash"
      <3> DEFINE h == Hash(key)
                 len == Len(workers)
      <3>1. i = StableIndex(key, len) + 1
        BY <2>6 DEF Selected
      <3>2. StableIndex(key, len) = h % len
        BY StableIndexIsHash
      <3>3. h \in Nat
        BY HashNumber
      <3>4. len \in Nat \ {0} /\ h % len \in 0 .. (len - 1)
        <4>1. len \in Nat \ {0}
          BY <2>2
        <4> HIDE DEF h, len
        <4> QED BY <3>3, <4>1, Divided
      <3> HIDE DEF i, h
      <3>5. i \in DOMAIN workers /\ i # 0 /\ i - 1 = h % len
        <4> HIDE DEF len
        <4>1. i \in 1 .. len /\ i # 0 /\ i - 1 = h % len
          <5> DEFINE r == h % len
          <5>1. i = r + 1 /\ r \in 0 .. (len - 1)
            BY <3>1, <3>2, <3>4
          <5> HIDE DEF r
          <5>2. i \in 1 .. len /\ i # 0 /\ i - 1 = r
            BY <3>4, <5>1
          <5> QED BY <5>2 DEF r
        <4> QED BY <2>2, <4>1 DEF len
      <3>6. Permits(strategy, key, workers, i)
        BY <2>6, <3>5 DEF Permits, h
      <3> QED BY <2>1, <3>5, <3>6
    <2> QED BY <1>3, <2>3, <2>4, <2>5, <2>6 DEF RouteStrategies
  <1> QED BY <1>2, <1>3

(* Routing, whatever the key, however many workers there are: the answer   *)
(* of a failover, least active, busyover or hash job is the worker of its  *)
(* strategy, that of a random or round robin job some worker of the list.  *)
THEOREM RoutedAlwaysRight == Spec => []RoutedRight
  <1> DEFINE Asked == question.about = "worker" =>
                        /\ question.strategy \in RouteStrategies
                        /\ question.key \in Seq(Nat)
                        /\ question.workers \in Seq(Workers)
             Inv == Asked /\ RoutedRight
  <1>1. Init => Inv
    <2> SUFFICES ASSUME Init PROVE Inv
      OBVIOUS
    <2>1. question.about = "worker" =>
            /\ question.strategy \in RouteStrategies
            /\ question.key \in Keys
            /\ question.workers \in WorkerLists
      BY DEF Init, Questions
    <2>2. ~answered
      BY DEF Init
    <2> QED BY <2>1, <2>2, DecisionsAssumption DEF RoutedRight, Answered, Workers
  <1>2. Inv /\ [Decide]_vars => Inv'
    <2> SUFFICES ASSUME Inv, [Decide]_vars PROVE Inv'
      OBVIOUS
    <2>1. CASE Decide
      <3>1. question' = question
        BY <2>1 DEF Decide
      <3>2. ASSUME question.about = "worker"
            PROVE  RightWorker(question.strategy, question.key, question.workers, answer')
        <4>1. answer' = SelectWorker(question.strategy, question.key, question.workers)
          BY <2>1, <3>2 DEF Decide, Answer
        <4> QED BY <3>2, <4>1, SelectsRight
      <3> QED BY <3>1, <3>2 DEF RoutedRight, Answered
    <2>2. CASE UNCHANGED vars
      BY <2>2 DEF vars, RoutedRight, Answered
    <2> QED BY <2>1, <2>2
  <1> QED BY <1>1, <1>2, PTL DEF Spec

-----------------------------------------------------------------------------
(* How often a time is in a vector *)
Places(s, t) == {i \in DOMAIN s : s[i] = t}

InOrder(s) == \A i, j \in DOMAIN s : i < j => s[i] <= s[j]

LEMMA CountNumber ==
    ASSUME NEW n \in Nat, NEW s, DOMAIN s = 1 .. n, NEW t
    PROVE  /\ IsFiniteSet(Places(s, t))
           /\ Count(s, t) \in Nat
           /\ Count(s, t) = 0 <=> \A i \in DOMAIN s : s[i] # t
  <1>1. Places(s, t) \in SUBSET (1 .. n)
    BY DEF Places
  <1>2. IsFiniteSet(1 .. n)
    BY FS_Interval
  <1>3. IsFiniteSet(Places(s, t))
    BY <1>1, <1>2, FS_Subset
  <1>4. Count(s, t) = Cardinality(Places(s, t))
    BY DEF Count, Places
  <1>5. Cardinality(Places(s, t)) \in Nat
    BY <1>3, FS_CardinalityType
  <1>6. Cardinality(Places(s, t)) = 0 <=> Places(s, t) = {}
    BY <1>3, FS_EmptySet
  <1>7. Places(s, t) = {} <=> \A i \in DOMAIN s : s[i] # t
    BY DEF Places
  <1> QED BY <1>3, <1>4, <1>5, <1>6, <1>7

LEMMA CountNothing ==
    ASSUME NEW t PROVE Count(<<>>, t) = 0
  BY CountNumber

LEMMA CountAppend ==
    ASSUME NEW s \in Seq(Int), NEW x \in Int, NEW t
    PROVE  Count(Append(s, x), t) = Count(s, t) + (IF x = t THEN 1 ELSE 0)
  <1> DEFINE n == Len(s)
             r == Append(s, x)
  <1>1. n \in Nat /\ DOMAIN s = 1 .. n
    OBVIOUS
  <1>2. r \in Seq(Int) /\ DOMAIN r = 1 .. (n + 1) /\ r[n + 1] = x /\ \A i \in 1 .. n : r[i] = s[i]
    OBVIOUS
  <1>3. IsFiniteSet(Places(s, t)) /\ Count(s, t) \in Nat
    BY <1>1, CountNumber
  <1>4. Count(s, t) = Cardinality(Places(s, t)) /\ Count(r, t) = Cardinality(Places(r, t))
    BY DEF Count, Places
  <1>5. n + 1 \notin Places(s, t) /\ 1 .. (n + 1) = (1 .. n) \cup {n + 1}
    BY <1>1 DEF Places
  <1> HIDE DEF n, r
  <1>6. CASE x = t
    <2>1. Places(r, t) = Places(s, t) \cup {n + 1}
      BY <1>1, <1>2, <1>5, <1>6 DEF Places
    <2>2. Cardinality(Places(s, t) \cup {n + 1}) = Cardinality(Places(s, t)) + 1
      BY <1>3, <1>5, FS_AddElement
    <2> QED BY <1>4, <1>6, <2>1, <2>2 DEF r
  <1>7. CASE x # t
    <2>1. Places(r, t) = Places(s, t)
      BY <1>1, <1>2, <1>5, <1>7 DEF Places
    <2> QED BY <1>3, <1>4, <1>7, <2>1 DEF r
  <1> QED BY <1>6, <1>7

-----------------------------------------------------------------------------
(* sort *)
Ordering(p, times, k) ==
    /\ p \in Bijection(1 .. k, 1 .. k)
    /\ \A i, j \in 1 .. k : i < j => times[p[i]] <= times[p[j]]

(* The next time goes before the first that is greater. *)
LEMMA OneMoreOrdered ==
    ASSUME NEW n \in Nat, NEW times \in [1 .. n -> Int], NEW k \in Nat, k + 1 <= n,
           NEW p, Ordering(p, times, k)
    PROVE  \E q : Ordering(q, times, k + 1)
  <1> DEFINE m == k + 1
             x == times[m]
             Later == {j \in 1 .. k : times[p[j]] > x} \cup {m}
  <1>0. m \in Nat /\ m \in 1 .. n /\ 1 .. k \subseteq 1 .. n /\ x \in Int
    OBVIOUS
  <1>1. /\ p \in [1 .. k -> 1 .. k]
        /\ \A i, j \in 1 .. k : p[i] = p[j] => i = j
        /\ \A j \in 1 .. k : \E i \in 1 .. k : p[i] = j
        /\ \A i, j \in 1 .. k : i < j => times[p[i]] <= times[p[j]]
    BY DEF Ordering, Bijection, Injection, Surjection, IsInjective
  <1>2. PICK at \in Later : \A j \in Later : at <= j
    <2>1. Later \in SUBSET Nat /\ Later # {}
      OBVIOUS
    <2> HIDE DEF Later
    <2> QED BY <2>1, Least
  <1>3. at \in 1 .. m
    OBVIOUS
  <1>4. \A j \in 1 .. k : times[p[j]] \in Int
    BY <1>0, <1>1
  <1>5. ASSUME NEW j \in 1 .. k, j < at PROVE times[p[j]] <= x
    <2>1. j \notin Later
      <3>1. ~ (at <= j)
        BY <1>3, <1>5
      <3> HIDE DEF Later
      <3> QED BY <1>2, <3>1
    <2>2. ~ (times[p[j]] > x)
      BY <2>1
    <2> HIDE DEF x
    <2> QED BY <1>0, <1>4, <2>2
  <1>6. ASSUME NEW j \in 1 .. k, at <= j PROVE x <= times[p[j]]
    <2>1. at # m /\ at \in 1 .. k
      BY <1>3, <1>6
    <2>2. times[p[at]] > x
      BY <2>1
    <2>3. times[p[at]] <= times[p[j]]
      <3>1. CASE at = j
        BY <1>4, <3>1
      <3>2. CASE at # j
        <4>1. at < j
          BY <1>6, <2>1, <3>2
        <4> QED BY <1>1, <2>1, <4>1
      <3> QED BY <3>1, <3>2
    <2> HIDE DEF x
    <2> QED BY <1>0, <1>4, <2>1, <2>2, <2>3
  <1> DEFINE q == [i \in 1 .. m |-> IF i < at THEN p[i] ELSE IF i = at THEN m ELSE p[i - 1]]
  <1> HIDE DEF Later
  <1>7. \A i \in 1 .. m : (i < at => i \in 1 .. k) /\ (i > at => i - 1 \in 1 .. k /\ at <= i - 1)
    BY <1>3
  <1>8. 1 .. m = (1 .. k) \cup {m} /\ m \notin 1 .. k
    OBVIOUS
  <1>9. \A i \in 1 .. m :
          /\ q[i] \in 1 .. m
          /\ i < at => q[i] = p[i] /\ q[i] \in 1 .. k
          /\ i = at => q[i] = m
          /\ i > at => q[i] = p[i - 1] /\ q[i] \in 1 .. k
    <2> SUFFICES ASSUME NEW i \in 1 .. m
                 PROVE  /\ q[i] \in 1 .. m
                        /\ i < at => q[i] = p[i] /\ q[i] \in 1 .. k
                        /\ i = at => q[i] = m
                        /\ i > at => q[i] = p[i - 1] /\ q[i] \in 1 .. k
      OBVIOUS
    <2>1. i \in Nat /\ at \in Nat /\ m \in 1 .. m
      BY <1>3
    <2>2. q[i] = IF i < at THEN p[i] ELSE IF i = at THEN m ELSE p[i - 1]
      OBVIOUS
    <2> HIDE DEF q, m
    <2>3. CASE i < at
      BY <1>1, <1>7, <1>8, <2>1, <2>2, <2>3
    <2>4. CASE i = at
      BY <2>1, <2>2, <2>4
    <2>5. CASE i > at
      <3>1. ~ (i < at) /\ i # at /\ i - 1 \in 1 .. k
        BY <1>7, <2>1, <2>5
      <3> QED BY <1>1, <1>8, <2>2, <2>5, <3>1
    <2> QED BY <2>1, <2>3, <2>4, <2>5
  <1>10. q \in [1 .. m -> 1 .. m]
    BY <1>9
  <1>11. ASSUME NEW i \in 1 .. m, NEW j \in 1 .. m, q[i] = q[j] PROVE i = j
    <2> HIDE DEF q, m
    <2>1. i \in Nat /\ j \in Nat /\ at \in Nat
      BY <1>0, <1>3
    <2>2. CASE i = at
      <3>1. j = at
        BY <1>8, <1>9, <1>11, <2>1, <2>2
      <3> QED BY <2>2, <3>1
    <2>3. CASE i < at
      <3>1. i \in 1 .. k /\ q[j] = p[i] /\ q[j] # m
        BY <1>7, <1>8, <1>9, <1>11, <2>3
      <3>2. CASE j < at
        <4>1. j \in 1 .. k /\ p[j] = p[i]
          BY <1>7, <1>9, <3>1, <3>2
        <4> QED BY <1>1, <3>1, <4>1
      <3>3. CASE j > at
        <4>1. j - 1 \in 1 .. k /\ at <= j - 1 /\ p[j - 1] = p[i]
          BY <1>7, <1>9, <3>1, <3>3
        <4>2. j - 1 = i
          BY <1>1, <3>1, <4>1
        <4> QED BY <2>1, <2>3, <4>1, <4>2
      <3> QED BY <1>9, <2>1, <3>1, <3>2, <3>3
    <2>4. CASE i > at
      <3>1. i - 1 \in 1 .. k /\ at <= i - 1 /\ q[j] = p[i - 1] /\ q[j] # m
        BY <1>7, <1>8, <1>9, <1>11, <2>4
      <3>2. CASE j < at
        <4>1. j \in 1 .. k /\ p[j] = p[i - 1]
          BY <1>7, <1>9, <3>1, <3>2
        <4>2. j = i - 1
          BY <1>1, <3>1, <4>1
        <4> QED BY <2>1, <3>1, <3>2, <4>2
      <3>3. CASE j > at
        <4>1. j - 1 \in 1 .. k /\ p[j - 1] = p[i - 1]
          BY <1>7, <1>9, <3>1, <3>3
        <4>2. j - 1 = i - 1
          BY <1>1, <3>1, <4>1
        <4> QED BY <2>1, <4>2
      <3> QED BY <1>9, <2>1, <3>1, <3>2, <3>3
    <2> QED BY <2>1, <2>2, <2>3, <2>4
  <1>12. ASSUME NEW j \in 1 .. m PROVE \E i \in 1 .. m : q[i] = j
    <2>1. CASE j = m
      BY <1>3, <1>9, <2>1
    <2>2. CASE j # m
      <3>1. PICK i \in 1 .. k : p[i] = j
        BY <1>1, <1>8, <2>2
      <3>2. CASE i < at
        <4>1. i \in 1 .. m
          BY <1>8
        <4> HIDE DEF q, m
        <4> QED BY <1>9, <3>1, <3>2, <4>1
      <3>3. CASE ~ (i < at)
        <4>1. i + 1 \in 1 .. m /\ i + 1 > at /\ (i + 1) - 1 = i
          BY <1>3, <3>3
        <4>2. q[i + 1] = p[(i + 1) - 1]
          <5> HIDE DEF q, m
          <5> QED BY <1>9, <4>1
        <4> HIDE DEF q, m
        <4> QED BY <3>1, <4>1, <4>2
      <3> QED BY <3>2, <3>3
    <2> QED BY <2>1, <2>2
  <1>13. ASSUME NEW i \in 1 .. m, NEW j \in 1 .. m, i < j
         PROVE  times[q[i]] <= times[q[j]]
    <2>1. i \in Nat /\ j \in Nat /\ at \in Nat
      BY <1>0, <1>3
    <2> HIDE DEF q
    <2>2. CASE j < at
      <3>1. i < at
        BY <1>13, <2>1, <2>2
      <3> QED BY <1>1, <1>7, <1>9, <1>13, <2>2, <3>1
    <2>3. CASE j = at
      BY <1>5, <1>7, <1>9, <1>13, <2>3
    <2>4. CASE j > at
      <3>1. j - 1 \in 1 .. k /\ at <= j - 1 /\ q[j] = p[j - 1]
        BY <1>7, <1>9, <2>4
      <3>2. CASE i < at
        <4>1. i \in 1 .. k /\ q[i] = p[i]
          BY <1>7, <1>9, <3>2
        <4>2. i < j - 1
          BY <2>1, <3>1, <3>2
        <4> QED BY <1>1, <3>1, <4>1, <4>2
      <3>3. CASE i = at
        <4>1. q[i] = m
          BY <1>9, <3>3
        <4> QED BY <1>6, <3>1, <4>1
      <3>4. CASE i > at
        <4>1. i - 1 \in 1 .. k /\ q[i] = p[i - 1]
          BY <1>7, <1>9, <3>4
        <4>2. i - 1 < j - 1
          BY <1>13, <2>1
        <4> QED BY <1>1, <3>1, <4>1, <4>2
      <3> QED BY <2>1, <3>2, <3>3, <3>4
    <2> QED BY <2>1, <2>2, <2>3, <2>4
  <1>14. Ordering(q, times, m)
    <2> HIDE DEF q
    <2> QED BY <1>10, <1>11, <1>12, <1>13
            DEF Ordering, Bijection, Injection, Surjection, IsInjective
  <1> QED BY <1>14

LEMMA OrderingExists ==
    ASSUME NEW n \in Nat, NEW times \in [1 .. n -> Int]
    PROVE  \E p : Ordering(p, times, n)
  <1> DEFINE Ordered(k) == \E p : Ordering(p, times, k)
             G == {k \in 0 .. n : Ordered(k)}
  <1>1. Ordered(0)
    <2>1. Ordering([i \in 1 .. 0 |-> i], times, 0)
      BY DEF Ordering, Bijection, Injection, Surjection, IsInjective
    <2> QED BY <2>1
  <1>2. ASSUME NEW k \in 1 .. n, Ordered(k - 1) PROVE Ordered(k)
    <2>1. k - 1 \in Nat /\ (k - 1) + 1 = k /\ (k - 1) + 1 <= n
      OBVIOUS
    <2>2. \E q : Ordering(q, times, (k - 1) + 1)
      BY <1>2, <2>1, OneMoreOrdered
    <2> QED BY <2>1, <2>2
  <1> HIDE DEF Ordered
  <1>3. 0 \in G /\ \A k \in 1 .. n : k - 1 \in G => k \in G
    BY <1>1, <1>2
  <1>4. n \in G
    <2> HIDE DEF G
    <2> QED BY <1>3, CountsUp
  <1> QED BY <1>4 DEF Ordered

LEMMA CountPermuted ==
    ASSUME NEW n \in Nat, NEW times \in [1 .. n -> Int], NEW p \in Bijection(1 .. n, 1 .. n), NEW t
    PROVE  Count([i \in 1 .. n |-> times[p[i]]], t) = Count(times, t)
  <1> DEFINE s == [i \in 1 .. n |-> times[p[i]]]
             A == Places(s, t)
             B == Places(times, t)
             q == [i \in A |-> p[i]]
  <1>1. /\ p \in [1 .. n -> 1 .. n]
        /\ \A i, j \in 1 .. n : p[i] = p[j] => i = j
        /\ \A j \in 1 .. n : \E i \in 1 .. n : p[i] = j
    BY DEF Bijection, Injection, Surjection, IsInjective
  <1>2. A = {i \in 1 .. n : times[p[i]] = t} /\ B = {j \in 1 .. n : times[j] = t}
    BY DEF Places
  <1>3. IsFiniteSet(A) /\ Count(s, t) = Cardinality(A) /\ Count(times, t) = Cardinality(B)
    BY CountNumber DEF Count, Places
  <1> HIDE DEF A, B
  <1>4. q \in [A -> B]
    BY <1>1, <1>2
  <1>5. \A i, j \in A : q[i] = q[j] => i = j
    BY <1>1, <1>2
  <1>6. \A j \in B : \E i \in A : q[i] = j
    BY <1>1, <1>2
  <1>7. q \in Bijection(A, B)
    <2> HIDE DEF q
    <2> QED BY <1>4, <1>5, <1>6 DEF Bijection, Injection, Surjection, IsInjective
  <1>8. Cardinality(B) = Cardinality(A)
    BY <1>3, <1>7, FS_Bijection DEF ExistsBijection
  <1> QED BY <1>3, <1>8

LEMMA SortedRight ==
    ASSUME NEW times \in Seq(Int)
    PROVE  /\ Sorted(times) \in Seq(Int)
           /\ InOrder(Sorted(times))
           /\ \A t : Count(Sorted(times), t) = Count(times, t)
  <1> DEFINE n == Len(times)
             order == CHOOSE p \in Bijection(DOMAIN times, DOMAIN times) :
                         \A i, j \in DOMAIN times : i < j => times[p[i]] <= times[p[j]]
  <1>1. n \in Nat /\ DOMAIN times = 1 .. n /\ times \in [1 .. n -> Int]
    OBVIOUS
  <1>2. \E p : Ordering(p, times, n)
    <2> HIDE DEF n
    <2> QED BY <1>1, OrderingExists
  <1>3. Ordering(order, times, n)
    BY <1>1, <1>2 DEF Ordering
  <1>4. Sorted(times) = [i \in 1 .. n |-> times[order[i]]]
    BY <1>1 DEF Sorted
  <1> HIDE DEF n, order
  <1>5. order \in Bijection(1 .. n, 1 .. n) /\ order \in [1 .. n -> 1 .. n]
    BY <1>3 DEF Ordering, Bijection, Injection
  <1>6. Sorted(times) \in [1 .. n -> Int]
    BY <1>1, <1>4, <1>5
  <1>7. Sorted(times) \in Seq(Int)
    BY <1>1, <1>6
  <1>8. InOrder(Sorted(times))
    BY <1>3, <1>4 DEF InOrder, Ordering
  <1>9. \A t : Count(Sorted(times), t) = Count(times, t)
    <2> TAKE t
    <2>1. Count([i \in 1 .. n |-> times[order[i]]], t) = Count(times, t)
      BY <1>1, <1>5, CountPermuted
    <2> QED BY <1>4, <2>1
  <1> QED BY <1>7, <1>8, <1>9

-----------------------------------------------------------------------------
(* filter *)
FilterFold(iter, times, Keep) ==
    iter = [s \in SUBSET DOMAIN times |->
              IF s = {} THEN <<>>
              ELSE IF times[Max(s)] \in Keep
                   THEN Append(iter[s \ {Max(s)}], times[Max(s)])
                   ELSE iter[s \ {Max(s)}]]

LEMMA KeptFolds ==
    ASSUME NEW times, NEW Keep
    PROVE  Kept(times, Keep) = (CHOOSE iter : FilterFold(iter, times, Keep))[DOMAIN times]
  BY Zenon DEF Kept, FoldLeft, MapThenFoldSet, FilterFold

LEMMA FilterFoldExists ==
    ASSUME NEW times \in Seq(Int), NEW Keep
    PROVE  \E iter : FilterFold(iter, times, Keep)
  <1> DEFINE n == Len(times)
             P == SUBSET (1 .. n)
             V == Seq(Int)
             step == [s \in P |-> [kept \in V |->
                        IF s = {} THEN <<>>
                        ELSE IF times[Max(s)] \in Keep THEN Append(kept, times[Max(s)]) ELSE kept]]
  <1>1. n \in Nat /\ DOMAIN times = 1 .. n /\ times \in [1 .. n -> Int]
    OBVIOUS
  <1>2. \A s \in P : s # {} => times[Max(s)] \in Int
    <2> HIDE DEF n
    <2> QED BY <1>1, Greatest
  <1>3. <<>> \in V /\ \A kept \in V, x \in Int : Append(kept, x) \in V
    OBVIOUS
  <1>4. step \in [P -> [V -> V]]
    <2> HIDE DEF n, P, V
    <2> QED BY <1>2, <1>3
  <1>5. PICK iter \in [P -> V] :
          \A s \in P : iter[s] = IF s = {} THEN <<>> ELSE step[s][iter[s \ {Max(s)}]]
    <2>1. IsStep(step, n, V)
      BY <1>4 DEF IsStep
    <2> HIDE DEF n, step, V
    <2>2. PICK iter : IsFold(iter, n, V, <<>>, step)
      BY <1>1, <1>3, <2>1, FoldExists
    <2> QED BY <2>2 DEF IsFold
  <1>6. \A s \in P : s \ {Max(s)} \in P
    OBVIOUS
  <1>7. \A s \in P : iter[s] = IF s = {} THEN <<>>
                               ELSE IF times[Max(s)] \in Keep
                                    THEN Append(iter[s \ {Max(s)}], times[Max(s)])
                                    ELSE iter[s \ {Max(s)}]
    <2> HIDE DEF n, P, V
    <2> QED BY <1>5, <1>6
  <1>8. FilterFold(iter, times, Keep)
    <2> HIDE DEF n, step, V
    <2> QED BY <1>1, <1>5, <1>7 DEF FilterFold
  <1> QED BY <1>8

(* What filter keeps of the first k times *)
KeptOf(kept, times, Keep, k) ==
    /\ kept \in Seq(Int)
    /\ \A i \in DOMAIN kept : \E j \in 1 .. k : kept[i] = times[j]
    /\ \A t : Count(kept, t) = IF t \in Keep THEN Cardinality({i \in 1 .. k : times[i] = t}) ELSE 0
    /\ InOrder(times) => InOrder(kept)

LEMMA KeepOne ==
    ASSUME NEW n \in Nat, NEW times \in [1 .. n -> Int], NEW Keep, NEW k \in 1 .. n,
           NEW kept, KeptOf(kept, times, Keep, k - 1)
    PROVE  KeptOf(IF times[k] \in Keep THEN Append(kept, times[k]) ELSE kept, times, Keep, k)
  <1> DEFINE x == times[k]
             Of(j, t) == {i \in 1 .. j : times[i] = t}
  <1>1. /\ kept \in Seq(Int) /\ x \in Int
        /\ \A i \in DOMAIN kept : \E j \in 1 .. (k - 1) : kept[i] = times[j]
        /\ \A t : Count(kept, t) = IF t \in Keep THEN Cardinality(Of(k - 1, t)) ELSE 0
        /\ InOrder(times) => InOrder(kept)
    BY DEF KeptOf
  <1>2. 1 .. k = (1 .. (k - 1)) \cup {k} /\ k \notin 1 .. (k - 1) /\ k - 1 \in Nat
    OBVIOUS
  <1>3. \A t : IsFiniteSet(Of(k - 1, t)) /\ Cardinality(Of(k - 1, t)) \in Nat
    <2> TAKE t
    <2>1. IsFiniteSet(1 .. (k - 1)) /\ Of(k - 1, t) \in SUBSET (1 .. (k - 1))
      BY <1>2, FS_Interval
    <2>2. IsFiniteSet(Of(k - 1, t))
      BY <2>1, FS_Subset
    <2> HIDE DEF Of
    <2> QED BY <2>2, FS_CardinalityType
  <1>4. \A t : Cardinality(Of(k, t)) = Cardinality(Of(k - 1, t)) + (IF x = t THEN 1 ELSE 0)
    <2> TAKE t
    <2>1. CASE x = t
      <3>1. Of(k, t) = Of(k - 1, t) \cup {k} /\ k \notin Of(k - 1, t)
        BY <1>2, <2>1
      <3> HIDE DEF Of
      <3>2. Cardinality(Of(k - 1, t) \cup {k}) = Cardinality(Of(k - 1, t)) + 1
        BY <1>3, <3>1, FS_AddElement
      <3> QED BY <2>1, <3>1, <3>2
    <2>2. CASE x # t
      <3>1. Of(k, t) = Of(k - 1, t)
        BY <1>2, <2>2
      <3> HIDE DEF Of
      <3> QED BY <1>3, <2>2, <3>1
    <2> QED BY <2>1, <2>2
  <1>5. CASE x \in Keep
    <2> DEFINE r == Append(kept, x)
               n1 == Len(kept)
    <2>1. /\ r \in Seq(Int) /\ n1 \in Nat
          /\ DOMAIN kept = 1 .. n1 /\ DOMAIN r = 1 .. (n1 + 1)
          /\ r[n1 + 1] = x /\ \A i \in 1 .. n1 : r[i] = kept[i]
      BY <1>1
    <2>2. ASSUME NEW t
          PROVE  Count(r, t) = IF t \in Keep THEN Cardinality(Of(k, t)) ELSE 0
      <3>1. Count(r, t) = Count(kept, t) + (IF x = t THEN 1 ELSE 0)
        BY <1>1, CountAppend
      <3> HIDE DEF r, Of
      <3>2. CASE t \in Keep
        BY <1>1, <1>4, <3>1, <3>2
      <3>3. CASE t \notin Keep
        <4>1. x # t
          BY <1>5, <3>3
        <4> QED BY <1>1, <3>1, <3>3, <4>1
      <3> QED BY <3>2, <3>3
    <2> HIDE DEF r, n1
    <2>3. \A i \in DOMAIN r : \E j \in 1 .. k : r[i] = times[j]
      <3> SUFFICES ASSUME NEW i \in DOMAIN r PROVE \E j \in 1 .. k : r[i] = times[j]
        OBVIOUS
      <3>1. CASE i = n1 + 1
        BY <1>2, <2>1, <3>1
      <3>2. CASE i # n1 + 1
        <4>1. i \in DOMAIN kept /\ r[i] = kept[i]
          BY <2>1, <3>2
        <4> QED BY <1>1, <1>2, <4>1
      <3> QED BY <3>1, <3>2
    <2>4. ASSUME InOrder(times) PROVE InOrder(r)
      <3> SUFFICES ASSUME NEW i \in DOMAIN r, NEW j \in DOMAIN r, i < j PROVE r[i] <= r[j]
        BY DEF InOrder
      <3>1. i \in DOMAIN kept /\ r[i] = kept[i]
        BY <2>1
      <3>2. CASE j = n1 + 1
        <4>1. PICK h \in 1 .. (k - 1) : kept[i] = times[h]
          BY <1>1, <3>1
        <4>2. h < k /\ h \in DOMAIN times /\ k \in DOMAIN times
          BY <4>1
        <4>3. times[h] <= times[k]
          BY <2>4, <4>2 DEF InOrder
        <4> QED BY <2>1, <3>1, <3>2, <4>1, <4>3
      <3>3. CASE j # n1 + 1
        <4>1. j \in DOMAIN kept /\ r[j] = kept[j]
          BY <2>1, <3>3
        <4> QED BY <1>1, <2>4, <3>1, <4>1 DEF InOrder
      <3> QED BY <3>2, <3>3
    <2>5. KeptOf(r, times, Keep, k)
      BY <2>1, <2>2, <2>3, <2>4 DEF KeptOf
    <2> QED BY <1>5, <2>5 DEF r
  <1>6. CASE x \notin Keep
    <2>1. ASSUME NEW t
          PROVE  Count(kept, t) = IF t \in Keep THEN Cardinality(Of(k, t)) ELSE 0
      <3> HIDE DEF Of
      <3>1. CASE t \in Keep
        <4>1. x # t
          BY <1>6, <3>1
        <4> QED BY <1>1, <1>3, <1>4, <3>1, <4>1
      <3>2. CASE t \notin Keep
        BY <1>1, <3>2
      <3> QED BY <3>1, <3>2
    <2>2. \A i \in DOMAIN kept : \E j \in 1 .. k : kept[i] = times[j]
      BY <1>1, <1>2
    <2>3. KeptOf(kept, times, Keep, k)
      BY <1>1, <2>1, <2>2 DEF KeptOf
    <2> QED BY <1>6, <2>3
  <1> QED BY <1>5, <1>6

LEMMA KeptAll ==
    ASSUME NEW times \in Seq(Int), NEW Keep
    PROVE  KeptOf(Kept(times, Keep), times, Keep, Len(times))
  <1> DEFINE n == Len(times)
             f == CHOOSE iter : FilterFold(iter, times, Keep)
             Good(k) == KeptOf(f[1 .. k], times, Keep, k)
             G == {k \in 0 .. n : Good(k)}
  <1>1. n \in Nat /\ DOMAIN times = 1 .. n /\ times \in [1 .. n -> Int]
    OBVIOUS
  <1>2. FilterFold(f, times, Keep)
    BY FilterFoldExists
  <1> HIDE DEF f
  <1>3. \A k \in 0 .. n : 1 .. k \in SUBSET DOMAIN times
    BY <1>1
  <1>4. Good(0)
    <2>1. 1 .. 0 = {} /\ f[{}] = <<>>
      BY <1>2 DEF FilterFold
    <2>2. \A t : {i \in {} : times[i] = t} = {}
      OBVIOUS
    <2>3. Cardinality({}) = 0
      BY FS_EmptySet
    <2>4. KeptOf(<<>>, times, Keep, 0)
      BY <2>1, <2>2, <2>3, CountNothing DEF KeptOf, InOrder
    <2> QED BY <2>1, <2>4
  <1>5. ASSUME NEW k \in 1 .. n, Good(k - 1) PROVE Good(k)
    <2>1. k \in Nat /\ k # 0 /\ k \in 0 .. n
      BY <1>1
    <2>2. PICK s \in SUBSET DOMAIN times : s = 1 .. k
      BY <1>3, <2>1
    <2>3. s # {} /\ Max(s) = k /\ s \ {Max(s)} = 1 .. (k - 1)
      BY <2>1, <2>2, LastPlace
    <2>4. f[s] = IF times[Max(s)] \in Keep
                 THEN Append(f[s \ {Max(s)}], times[Max(s)]) ELSE f[s \ {Max(s)}]
      BY <1>2, <2>3 DEF FilterFold
    <2>5. f[1 .. k] = IF times[k] \in Keep THEN Append(f[1 .. (k - 1)], times[k]) ELSE f[1 .. (k - 1)]
      BY <2>2, <2>3, <2>4
    <2> HIDE DEF n
    <2> QED BY <1>1, <1>5, <2>5, KeepOne
  <1> HIDE DEF Good
  <1>6. 0 \in G /\ \A k \in 1 .. n : k - 1 \in G => k \in G
    BY <1>1, <1>4, <1>5
  <1>7. n \in G
    <2> HIDE DEF n, G
    <2> QED BY <1>1, <1>6, CountsUp
  <1> QED BY <1>7, KeptFolds DEF Good, f

LEMMA KeptRight ==
    ASSUME NEW times \in Seq(Int), NEW Keep
    PROVE  /\ Kept(times, Keep) \in Seq(Int)
           /\ InOrder(times) => InOrder(Kept(times, Keep))
           /\ \A t : Count(Kept(times, Keep), t) = IF t \in Keep THEN Count(times, t) ELSE 0
  <1> DEFINE kept == Kept(times, Keep)
             n == Len(times)
  <1>1. KeptOf(kept, times, Keep, n)
    BY KeptAll
  <1>2. DOMAIN times = 1 .. n
    OBVIOUS
  <1>3. \A t : Count(times, t) = Cardinality({i \in 1 .. n : times[i] = t})
    BY <1>2 DEF Count
  <1> HIDE DEF kept, n
  <1>4. ASSUME NEW t PROVE Count(kept, t) = IF t \in Keep THEN Count(times, t) ELSE 0
    BY <1>1, <1>3 DEF KeptOf
  <1> QED BY <1>1, <1>4 DEF KeptOf, kept

-----------------------------------------------------------------------------
(* apply_misfire, policy by policy.  The times that have passed, sorted,   *)
(* are those missed, each as often as it was given.                        *)
Missed(times, now) == {times[i] : i \in DOMAIN times} \cap {s \in Int : s <= now}

LEMMA PassedRight ==
    ASSUME NEW times \in Seq(Int), NEW now \in Int
    PROVE  LET passed == Kept(Sorted(times), {t \in Int : t <= now})
           IN  /\ passed \in Seq(Int) /\ InOrder(passed)
               /\ \A t : Count(passed, t) = IF t \in Missed(times, now) THEN Count(times, t) ELSE 0
               /\ \A t : t \in Missed(times, now) <=> \E i \in DOMAIN passed : passed[i] = t
  <1> DEFINE Keep == {t \in Int : t <= now}
             passed == Kept(Sorted(times), Keep)
  <1>1. /\ passed \in Seq(Int) /\ InOrder(passed)
        /\ \A t : Count(passed, t) = IF t \in Keep THEN Count(times, t) ELSE 0
    <2> HIDE DEF Keep
    <2> QED BY SortedRight, KeptRight
  <1> HIDE DEF passed
  <1>2. \A t : Count(times, t) = 0 <=> \A i \in DOMAIN times : times[i] # t
    <2>1. DOMAIN times = 1 .. Len(times) /\ Len(times) \in Nat
      OBVIOUS
    <2> QED BY <2>1, CountNumber
  <1>3. \A t : Count(passed, t) = 0 <=> \A i \in DOMAIN passed : passed[i] # t
    <2>1. DOMAIN passed = 1 .. Len(passed) /\ Len(passed) \in Nat
      BY <1>1
    <2> QED BY <2>1, CountNumber
  <1>4. \A t : t \in Missed(times, now) <=> t \in Keep /\ Count(times, t) # 0
    BY <1>2 DEF Missed
  <1> HIDE DEF Keep
  <1>5. \A t : Count(passed, t) = IF t \in Missed(times, now) THEN Count(times, t) ELSE 0
    BY <1>1, <1>4
  <1>6. \A t : t \in Missed(times, now) <=> Count(passed, t) # 0
    BY <1>1, <1>4
  <1>7. \A t : t \in Missed(times, now) <=> \E i \in DOMAIN passed : passed[i] = t
    BY <1>3, <1>6
  <1> QED BY <1>1, <1>5, <1>7 DEF passed, Keep

LEMMA LastRight ==
    ASSUME NEW passed \in Seq(Int), InOrder(passed), NEW M,
           \A t : t \in M <=> \E i \in DOMAIN passed : passed[i] = t
    PROVE  /\ LastOf(passed) \in Seq(Int) /\ InOrder(LastOf(passed))
           /\ \A t : Count(LastOf(passed), t) = IF t \in M /\ \A s \in M : s <= t THEN 1 ELSE 0
  <1>1. CASE passed = <<>>
    <2>1. LastOf(passed) = <<>> /\ \A t : t \notin M
      BY <1>1 DEF LastOf
    <2> QED BY <2>1, CountNothing DEF InOrder
  <1>2. CASE passed # <<>>
    <2> DEFINE n == Len(passed)
               x == passed[n]
    <2>1. n \in Nat \ {0} /\ DOMAIN passed = 1 .. n /\ \A i \in 1 .. n : passed[i] \in Int
      BY <1>2
    <2>2. LastOf(passed) = <<x>> /\ <<x>> = Append(<<>>, x) /\ <<x>> \in Seq(Int) /\ x \in Int
      BY <1>2, <2>1 DEF LastOf
    <2> HIDE DEF n
    <2>3. x \in M
      BY <2>1
    <2>4. \A s \in M : s \in Int /\ s <= x
      <3> SUFFICES ASSUME NEW s \in M PROVE s \in Int /\ s <= x
        OBVIOUS
      <3>1. PICK i \in 1 .. n : passed[i] = s
        BY <2>1
      <3>2. i = n \/ i < n
        BY <2>1
      <3>3. n \in DOMAIN passed
        BY <2>1
      <3> QED BY <2>1, <2>2, <3>1, <3>2, <3>3 DEF InOrder
    <2> HIDE DEF x
    <2>5. \A t : (t \in M /\ \A s \in M : s <= t) <=> x = t
      <3> SUFFICES ASSUME NEW t PROVE (t \in M /\ \A s \in M : s <= t) <=> x = t
        OBVIOUS
      <3>1. ASSUME t \in M, \A s \in M : s <= t PROVE x = t
        <4>1. t \in Int /\ t <= x /\ x <= t
          BY <2>3, <2>4, <3>1
        <4> QED BY <2>2, <4>1
      <3>2. ASSUME x = t PROVE t \in M /\ \A s \in M : s <= t
        BY <2>3, <2>4, <3>2
      <3> QED BY <3>1, <3>2
    <2>6. \A t : Count(<<x>>, t) = IF x = t THEN 1 ELSE 0
      <3> TAKE t
      <3>1. Count(Append(<<>>, x), t) = Count(<<>>, t) + (IF x = t THEN 1 ELSE 0)
        <4>1. <<>> \in Seq(Int)
          OBVIOUS
        <4> QED BY <2>2, <4>1, CountAppend
      <3>2. Count(<<>>, t) = 0
        BY CountNothing
      <3>3. Append(<<>>, x) = <<x>>
        BY <2>2
      <3> QED BY <3>1, <3>2, <3>3
    <2>7. InOrder(<<x>>)
      <3>1. DOMAIN <<x>> = {1}
        OBVIOUS
      <3> QED BY <3>1 DEF InOrder
    <2> QED BY <2>2, <2>5, <2>6, <2>7
  <1> QED BY <1>1, <1>2

LEMMA AppliesRight ==
    ASSUME NEW mode \in Modes, NEW times \in Seq(Int), NEW now \in Int, NEW grace \in Int
    PROVE  RightTimes(mode, times, now, grace, ApplyMisfire(mode, times, now, grace))
  <1> DEFINE fired == ApplyMisfire(mode, times, now, grace)
             passed == Kept(Sorted(times), {t \in Int : t <= now})
             M == Missed(times, now)
  <1>1. /\ passed \in Seq(Int) /\ InOrder(passed)
        /\ \A t : Count(passed, t) = IF t \in M THEN Count(times, t) ELSE 0
        /\ \A t : t \in M <=> \E i \in DOMAIN passed : passed[i] = t
    BY PassedRight
  <1>2. SUFFICES (\A t : Count(fired, t) = Due(mode, times, now, grace, t)) /\ InOrder(fired)
    BY DEF RightTimes, InOrder
  <1>3. CASE mode = "ignore"
    <2>1. fired = <<>> /\ \A t : Due(mode, times, now, grace, t) = 0
      BY <1>3 DEF ApplyMisfire, Due
    <2> QED BY <2>1, CountNothing DEF InOrder
  <1>4. CASE mode = "fire_once_now"
    <2>1. fired = LastOf(passed)
      BY <1>4 DEF ApplyMisfire
    <2>2. \A t : Due(mode, times, now, grace, t) = IF t \in M /\ \A s \in M : s <= t THEN 1 ELSE 0
      BY <1>4 DEF Due, Missed
    <2> HIDE DEF passed, M, fired
    <2> QED BY <1>1, <2>1, <2>2, LastRight
  <1>5. CASE mode = "catch_up_all"
    <2>1. fired = passed
      BY <1>5 DEF ApplyMisfire
    <2>2. \A t : Due(mode, times, now, grace, t) = IF t \in M THEN Count(times, t) ELSE 0
      BY <1>5 DEF Due, Missed
    <2> HIDE DEF passed, M, fired
    <2> QED BY <1>1, <2>1, <2>2
  <1>6. CASE mode = "catch_up_window"
    <2> DEFINE W == {t \in Int : InWindow(t, now, grace)}
    <2>1. fired = Kept(passed, W)
      BY <1>6 DEF ApplyMisfire
    <2>2. \A t : Due(mode, times, now, grace, t)
                   = IF t \in M /\ now - t <= grace THEN Count(times, t) ELSE 0
      BY <1>6 DEF Due, Missed
    <2>3. \A t \in M : t \in W <=> now - t <= grace
      BY DEF Missed, InWindow
    <2> HIDE DEF passed, M, fired, W
    <2>4. InOrder(fired) /\ \A t : Count(fired, t) = IF t \in W THEN Count(passed, t) ELSE 0
      BY <1>1, <2>1, KeptRight
    <2> QED BY <1>1, <2>2, <2>3, <2>4
  <1> QED BY <1>3, <1>4, <1>5, <1>6 DEF Modes

(* Misfires, however many times in whatever order, for any mode, time and  *)
(* grace.                                                                  *)
THEOREM MisfiredAlwaysRight == Spec => []MisfiredRight
  <1> DEFINE Asked == question.about = "misfire" =>
                        /\ question.mode \in Modes
                        /\ question.fire_times \in Seq(Int)
                        /\ question.now \in Int /\ question.grace \in Int
             Inv == Asked /\ MisfiredRight
  <1>1. Init => Inv
    <2> SUFFICES ASSUME Init PROVE Inv
      OBVIOUS
    <2>1. question.about = "misfire" =>
            /\ question.mode \in Modes
            /\ question.fire_times \in FireTimes
            /\ question.now \in Nows /\ question.grace \in Graces
      BY DEF Init, Questions
    <2>2. ~answered
      BY DEF Init
    <2> QED BY <2>1, <2>2, DecisionsAssumption DEF MisfiredRight, Answered
  <1>2. Inv /\ [Decide]_vars => Inv'
    <2> SUFFICES ASSUME Inv, [Decide]_vars PROVE Inv'
      OBVIOUS
    <2>1. CASE Decide
      <3>1. question' = question
        BY <2>1 DEF Decide
      <3>2. ASSUME question.about = "misfire"
            PROVE  RightTimes(question.mode, question.fire_times, question.now, question.grace, answer')
        <4>1. answer' = ApplyMisfire(question.mode, question.fire_times, question.now, question.grace)
          BY <2>1, <3>2 DEF Decide, Answer
        <4> QED BY <3>2, <4>1, AppliesRight
      <3> QED BY <3>1, <3>2 DEF MisfiredRight, Answered
    <2>2. CASE UNCHANGED vars
      BY <2>2 DEF vars, MisfiredRight, Answered
    <2> QED BY <2>1, <2>2
  <1> QED BY <1>1, <1>2, PTL DEF Spec
===============================================================================
