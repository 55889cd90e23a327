--------------------------- MODULE BootstrapProofs ---------------------------
(***************************************************************************)
(* Theorems about Bootstrap for all lists of wallets, mints and token      *)
(* accounts, any number of runs and any number of faults.                  *)
(***************************************************************************)
EXTENDS Bootstrap, TLAPS

----------------------------------------------------------------------------
(* The order of the steps.                                                 *)

Reserved == {"check", "pool", "policy", "file"}

(* What the steps before the policy's own are.                             *)
EarlyStep ==
  [kind: {"key", "airdrop", "account"}, name: STRING \ Reserved]
    \cup [kind: {"check"}, name: {"check"}] \cup [kind: {"pool"}, name: {"pool"}]

(* Every account at a key is made after a step that makes the key.         *)
Prepared(s) ==
  \A i \in DOMAIN s : s[i].kind \in {"airdrop", "account"} =>
    \E j \in 1 .. i - 1 : s[j].kind = "key" /\ s[j].name = s[i].name

(* Where the parts of a concatenation are.                                 *)
LEMMA ConcatParts ==
  ASSUME NEW R, NEW s \in Seq(R), NEW t \in Seq(R)
  PROVE  /\ s \o t \in Seq(R)
         /\ Len(s) \in Nat /\ Len(t) \in Nat /\ Len(s \o t) = Len(s) + Len(t)
         /\ DOMAIN (s \o t) = 1 .. Len(s) + Len(t)
         /\ DOMAIN s = 1 .. Len(s) /\ DOMAIN t = 1 .. Len(t)
         /\ \A i \in 1 .. Len(s) : (s \o t)[i] = s[i]
         /\ \A i \in 1 .. Len(t) : (s \o t)[Len(s) + i] = t[i]
         /\ \A i \in 1 .. Len(s) + Len(t) : i > Len(s) => (s \o t)[i] = t[i - Len(s)]
  OBVIOUS

(* A prepared order stays prepared when steps are added whose keys are     *)
(* made before them, in the old part or in the new.                        *)
LEMMA ConcatPrepared ==
  ASSUME NEW R, NEW s \in Seq(R), NEW t \in Seq(R), Prepared(s),
         \A i \in DOMAIN t : t[i].kind \in {"airdrop", "account"} =>
           \/ \E j \in DOMAIN s : s[j].kind = "key" /\ s[j].name = t[i].name
           \/ \E j \in 1 .. i - 1 : t[j].kind = "key" /\ t[j].name = t[i].name
  PROVE  Prepared(s \o t)
<1> DEFINE st == s \o t
<1>1. /\ Len(s) \in Nat /\ Len(t) \in Nat
      /\ DOMAIN st = 1 .. Len(s) + Len(t)
      /\ DOMAIN s = 1 .. Len(s) /\ DOMAIN t = 1 .. Len(t)
      /\ \A i \in 1 .. Len(s) : st[i] = s[i]
      /\ \A i \in 1 .. Len(t) : st[Len(s) + i] = t[i]
      /\ \A i \in 1 .. Len(s) + Len(t) : i > Len(s) => st[i] = t[i - Len(s)]
  BY ConcatParts
<1> HIDE DEF st
<1>2. ASSUME NEW i \in DOMAIN st, st[i].kind \in {"airdrop", "account"}
      PROVE  \E j \in 1 .. i - 1 : st[j].kind = "key" /\ st[j].name = st[i].name
  <2>1. CASE i <= Len(s)
    <3>1. i \in DOMAIN s /\ st[i] = s[i]
      BY <1>1, <2>1
    <3>2. PICK j \in 1 .. i - 1 : s[j].kind = "key" /\ s[j].name = s[i].name
      BY <1>2, <3>1 DEF Prepared
    <3>3. st[j] = s[j]
      BY <1>1, <3>1
    <3> QED
      BY <3>1, <3>2, <3>3
  <2>2. CASE i > Len(s)
    <3>1. i - Len(s) \in 1 .. Len(t) /\ st[i] = t[i - Len(s)]
      BY <1>1, <2>2
    <3>2. CASE \E j \in DOMAIN s : s[j].kind = "key" /\ s[j].name = t[i - Len(s)].name
      <4>1. PICK j \in DOMAIN s : s[j].kind = "key" /\ s[j].name = t[i - Len(s)].name
        BY <3>2
      <4>2. j \in 1 .. i - 1 /\ st[j] = s[j]
        BY <1>1, <2>2
      <4> QED
        BY <3>1, <4>1, <4>2
    <3>3. CASE \E j \in 1 .. (i - Len(s)) - 1 : t[j].kind = "key" /\ t[j].name = t[i - Len(s)].name
      <4>1. PICK j \in 1 .. (i - Len(s)) - 1 : t[j].kind = "key" /\ t[j].name = t[i - Len(s)].name
        BY <3>3
      <4>2. /\ Len(s) + j \in 1 .. i - 1 /\ j \in 1 .. Len(t)
        BY <1>1, <3>1
      <4>3. st[Len(s) + j] = t[j]
        BY <1>1, <4>2
      <4> QED
        BY <3>1, <4>1, <4>2, <4>3
    <3> QED
      BY <1>1, <1>2, <3>1, <3>2, <3>3
  <2> QED
    BY <1>1, <2>1, <2>2
<1> QED
  BY <1>2 DEF st, Prepared

(* A sequence is one of whatever set holds its elements.                   *)
LEMMA SeqRetyped ==
  ASSUME NEW R, NEW T, NEW s \in Seq(R), \A i \in 1 .. Len(s) : s[i] \in T
  PROVE  s \in Seq(T)
  OBVIOUS

Early ==
  Each("key", Wallets) \o Each("airdrop", Paying) \o Each("key", Mints) \o
  Each("account", Mints) \o One("check") \o One("pool") \o WithKeys(Fixtures)

LEMMA NamesTyped ==
  /\ Wallets \in Seq(STRING \ Reserved) /\ Mints \in Seq(STRING \ Reserved)
  /\ Fixtures \in Seq(STRING \ Reserved) /\ Paying \in Seq(STRING \ Reserved)
  /\ \A i \in DOMAIN Paying : \E j \in DOMAIN Wallets : Paying[i] = Wallets[j]
<1> DEFINE WM == Wallets \o Mints
           all == WM \o Fixtures
<1>1. /\ Wallets \in Seq(STRING) /\ Mints \in Seq(STRING) /\ Fixtures \in Seq(STRING)
      /\ Paying \in Seq({ Wallets[i] : i \in DOMAIN Wallets })
      /\ \A i \in DOMAIN all : all[i] \notin Reserved
  BY BootstrapAssumption DEF BootstrapAssumption, Reserved
<1>2. WM \in Seq(STRING) /\ all \in Seq(STRING)
  BY <1>1
<1>3. /\ \A i \in 1 .. Len(Wallets) : WM[i] = Wallets[i]
      /\ \A i \in 1 .. Len(Mints) : WM[Len(Wallets) + i] = Mints[i]
      /\ \A i \in 1 .. Len(WM) : all[i] = WM[i]
      /\ \A i \in 1 .. Len(Fixtures) : all[Len(WM) + i] = Fixtures[i]
      /\ Len(WM) = Len(Wallets) + Len(Mints)
      /\ DOMAIN all = 1 .. Len(WM) + Len(Fixtures)
      /\ Len(Wallets) \in Nat /\ Len(Mints) \in Nat /\ Len(Fixtures) \in Nat
  BY <1>1, <1>2
<1> HIDE DEF WM, all
<1>4. /\ \A i \in 1 .. Len(Wallets) : Wallets[i] \notin Reserved
      /\ \A i \in 1 .. Len(Mints) : Mints[i] \notin Reserved
      /\ \A i \in 1 .. Len(Fixtures) : Fixtures[i] \notin Reserved
  <2>1. ASSUME NEW i \in 1 .. Len(Wallets) PROVE Wallets[i] \notin Reserved
    <3>1. i \in 1 .. Len(WM) /\ i \in DOMAIN all
      BY <1>3
    <3> QED
      BY <1>1, <1>3, <3>1
  <2>2. ASSUME NEW i \in 1 .. Len(Mints) PROVE Mints[i] \notin Reserved
    <3>1. Len(Wallets) + i \in 1 .. Len(WM) /\ Len(Wallets) + i \in DOMAIN all
      BY <1>3
    <3> QED
      BY <1>1, <1>3, <3>1
  <2>3. ASSUME NEW i \in 1 .. Len(Fixtures) PROVE Fixtures[i] \notin Reserved
    <3>1. Len(WM) + i \in DOMAIN all
      BY <1>3
    <3> QED
      BY <1>1, <1>3, <3>1
  <2> QED
    BY <2>1, <2>2, <2>3
<1>5. /\ \A i \in 1 .. Len(Wallets) : Wallets[i] \in STRING \ Reserved
      /\ \A i \in 1 .. Len(Mints) : Mints[i] \in STRING \ Reserved
      /\ \A i \in 1 .. Len(Fixtures) : Fixtures[i] \in STRING \ Reserved
  BY <1>1, <1>4
<1>6. \A i \in DOMAIN Paying : \E j \in DOMAIN Wallets : Paying[i] = Wallets[j]
  BY <1>1
<1>7. \A i \in 1 .. Len(Paying) : Paying[i] \in STRING \ Reserved
  BY <1>1, <1>5, <1>6
<1>8. /\ Wallets \in Seq(STRING) /\ Mints \in Seq(STRING)
      /\ Fixtures \in Seq(STRING) /\ \E R : Paying \in Seq(R)
  BY <1>1
<1>9. Wallets \in Seq(STRING \ Reserved)
  BY ONLY <1>8, <1>5, SeqRetyped
<1>10. Mints \in Seq(STRING \ Reserved)
  BY ONLY <1>8, <1>5, SeqRetyped
<1>11. Fixtures \in Seq(STRING \ Reserved)
  BY ONLY <1>8, <1>5, SeqRetyped
<1>12. Paying \in Seq(STRING \ Reserved)
  BY ONLY <1>8, <1>7, SeqRetyped
<1> QED
  BY ONLY <1>6, <1>9, <1>10, <1>11, <1>12

(* The parts that the order is put together from.                          *)
LEMMA PartsTyped ==
  ASSUME NEW names \in Seq(STRING \ Reserved)
  PROVE  /\ \A kind \in {"key", "airdrop", "account"} :
              /\ Each(kind, names) \in Seq(EarlyStep)
              /\ DOMAIN Each(kind, names) = DOMAIN names
              /\ \A i \in DOMAIN names :
                   /\ Each(kind, names)[i].kind = kind
                   /\ Each(kind, names)[i].name = names[i]
         /\ WithKeys(names) \in Seq(EarlyStep)
         /\ \A i \in DOMAIN WithKeys(names) : WithKeys(names)[i].kind # "key" =>
              /\ i - 1 \in DOMAIN WithKeys(names)
              /\ WithKeys(names)[i - 1].kind = "key"
              /\ WithKeys(names)[i - 1].name = WithKeys(names)[i].name
<1>1. Len(names) \in Nat /\ DOMAIN names = 1 .. Len(names)
  OBVIOUS
<1>2. ASSUME NEW kind \in {"key", "airdrop", "account"}
      PROVE  /\ Each(kind, names) \in Seq(EarlyStep)
             /\ DOMAIN Each(kind, names) = DOMAIN names
             /\ \A i \in DOMAIN names :
                  /\ Each(kind, names)[i].kind = kind
                  /\ Each(kind, names)[i].name = names[i]
  <2>1. Each(kind, names) = [i \in 1 .. Len(names) |-> [kind |-> kind, name |-> names[i]]]
    BY <1>1 DEF Each
  <2>2. \A i \in 1 .. Len(names) : [kind |-> kind, name |-> names[i]] \in EarlyStep
    BY DEF EarlyStep
  <2> QED
    BY <1>1, <2>1, <2>2
<1> DEFINE half(i) == (i + 1) \div 2
           step(i) == [kind |-> IF i % 2 = 1 THEN "key" ELSE "account", name |-> names[half(i)]]
<1>3. \A i \in 1 .. 2 * Len(names) : half(i) \in 1 .. Len(names)
  BY <1>1
<1>4. \A i \in 1 .. 2 * Len(names) : step(i) \in EarlyStep
  BY <1>1, <1>3 DEF EarlyStep
<1>5. WithKeys(names) = [i \in 1 .. 2 * Len(names) |-> step(i)]
  BY DEF WithKeys
<1>6. ASSUME NEW i \in 1 .. 2 * Len(names), ~(i % 2 = 1)
      PROVE  i - 1 \in 1 .. 2 * Len(names) /\ (i - 1) % 2 = 1 /\ half(i - 1) = half(i)
  BY <1>1, <1>6
<1> HIDE DEF half
<1>7. WithKeys(names) \in Seq(EarlyStep) /\ DOMAIN WithKeys(names) = 1 .. 2 * Len(names)
  <2>1. 2 * Len(names) \in Nat
    BY <1>1
  <2> HIDE DEF step
  <2> QED
    BY <1>4, <1>5, <2>1
<1>8. ASSUME NEW i \in 1 .. 2 * Len(names), WithKeys(names)[i].kind # "key"
      PROVE  /\ i - 1 \in 1 .. 2 * Len(names)
             /\ WithKeys(names)[i - 1].kind = "key"
             /\ WithKeys(names)[i - 1].name = WithKeys(names)[i].name
  <2>1. ~(i % 2 = 1)
    BY <1>5, <1>8
  <2> QED
    BY <1>5, <1>6, <2>1
<1> QED
  BY <1>2, <1>7, <1>8

(* The early steps are prepared, whatever the lists are.                   *)
LEMMA EarlyForm == Early \in Seq(EarlyStep) /\ Prepared(Early)
<1> DEFINE A == Each("key", Wallets)
           B == Each("airdrop", Paying)
           C == Each("key", Mints)
           D == Each("account", Mints)
           G == WithKeys(Fixtures)
           AB == A \o B
           ABC == AB \o C
           ABCD == ABC \o D
           ABCDE == ABCD \o One("check")
           ABCDEF == ABCDE \o One("pool")
<1>1. /\ A \in Seq(EarlyStep) /\ B \in Seq(EarlyStep) /\ C \in Seq(EarlyStep)
      /\ D \in Seq(EarlyStep) /\ G \in Seq(EarlyStep)
  BY NamesTyped, PartsTyped
<1>2. One("check") \in Seq(EarlyStep) /\ One("pool") \in Seq(EarlyStep)
  BY DEF One, EarlyStep
<1>3. /\ \A i \in DOMAIN A : A[i].kind = "key"
      /\ DOMAIN B = DOMAIN Paying
      /\ \A i \in DOMAIN B : \E j \in DOMAIN A : A[j].kind = "key" /\ A[j].name = B[i].name
      /\ \A i \in DOMAIN C : C[i].kind = "key"
      /\ DOMAIN D = DOMAIN C /\ \A i \in DOMAIN D : D[i].name = C[i].name
  <2>1. /\ DOMAIN A = DOMAIN Wallets /\ DOMAIN B = DOMAIN Paying
        /\ DOMAIN C = DOMAIN Mints /\ DOMAIN D = DOMAIN Mints
        /\ \A i \in DOMAIN Wallets : A[i].kind = "key" /\ A[i].name = Wallets[i]
        /\ \A i \in DOMAIN Paying : B[i].name = Paying[i]
        /\ \A i \in DOMAIN Mints : C[i].kind = "key" /\ C[i].name = Mints[i]
        /\ \A i \in DOMAIN Mints : D[i].name = Mints[i]
    BY NamesTyped, PartsTyped
  <2> HIDE DEF A, B, C, D
  <2> QED
    BY <2>1, NamesTyped
<1>4. \A i \in DOMAIN G : G[i].kind \in {"airdrop", "account"} =>
        \E j \in 1 .. i - 1 : G[j].kind = "key" /\ G[j].name = G[i].name
  <2>1. \A i \in DOMAIN G : G[i].kind # "key" =>
          i - 1 \in DOMAIN G /\ G[i - 1].kind = "key" /\ G[i - 1].name = G[i].name
    <3>1. Fixtures \in Seq(STRING \ Reserved)
      BY NamesTyped
    <3> QED
      BY ONLY <3>1, PartsTyped
  <2> HIDE DEF G
  <2>2. DOMAIN G = 1 .. Len(G) /\ Len(G) \in Nat
    BY <1>1
  <2> QED
    BY <2>1, <2>2
<1>5. \A i \in DOMAIN One("check") : One("check")[i].kind = "check"
  BY DEF One
<1>6. \A i \in DOMAIN One("pool") : One("pool")[i].kind = "pool"
  BY DEF One
<1> HIDE DEF A, B, C, D, G
<1>7. Prepared(A)
  BY <1>3 DEF Prepared
<1>8. AB \in Seq(EarlyStep) /\ Prepared(AB)
  BY <1>1, <1>3, <1>7, ConcatPrepared
<1> HIDE DEF AB
<1>9. ABC \in Seq(EarlyStep) /\ Prepared(ABC)
  BY <1>1, <1>3, <1>8, ConcatPrepared
<1>10. \A i \in DOMAIN D : \E j \in DOMAIN ABC : ABC[j].kind = "key" /\ ABC[j].name = D[i].name
  <2>1. /\ Len(AB) \in Nat /\ Len(C) \in Nat /\ DOMAIN C = 1 .. Len(C)
        /\ DOMAIN ABC = 1 .. Len(AB) + Len(C)
        /\ \A i \in 1 .. Len(C) : ABC[Len(AB) + i] = C[i]
    BY <1>1, <1>8, ConcatParts
  <2> HIDE DEF ABC
  <2>2. ASSUME NEW i \in DOMAIN D
        PROVE  \E j \in DOMAIN ABC : ABC[j].kind = "key" /\ ABC[j].name = D[i].name
    <3>1. i \in 1 .. Len(C) /\ Len(AB) + i \in DOMAIN ABC
      BY <1>3, <2>1
    <3> QED
      BY <1>3, <2>1, <3>1
  <2> QED
    BY <2>2
<1> HIDE DEF ABC
<1>11. ABCD \in Seq(EarlyStep) /\ Prepared(ABCD)
  BY <1>1, <1>9, <1>10, ConcatPrepared
<1> HIDE DEF ABCD
<1>12. ABCDE \in Seq(EarlyStep) /\ Prepared(ABCDE)
  BY <1>2, <1>5, <1>11, ConcatPrepared
<1> HIDE DEF ABCDE
<1>13. ABCDEF \in Seq(EarlyStep) /\ Prepared(ABCDEF)
  BY <1>2, <1>6, <1>12, ConcatPrepared
<1> HIDE DEF ABCDEF
<1>14. ABCDEF \o G \in Seq(EarlyStep) /\ Prepared(ABCDEF \o G)
  BY <1>1, <1>4, <1>13, ConcatPrepared
<1>15. Early = ABCDEF \o G
  BY DEF Early, ABCDEF, ABCDE, ABCD, ABC, AB, A, B, C, D, G
<1> QED
  BY <1>14, <1>15

(* What the proofs below need to know of the whole order.                  *)
LEMMA StepsForm ==
  /\ Len(Steps) \in Nat /\ Len(Steps) >= 2 /\ DOMAIN Steps = 1 .. Len(Steps)
  /\ \A i \in DOMAIN Steps :
       Steps[i].kind \in {"key", "check", "file"} \cup Making /\ Steps[i].name \in Names
  /\ \A i \in DOMAIN Steps : Steps[i].kind = "file" <=> i = Len(Steps)
  /\ \A i \in DOMAIN Steps : Steps[i].kind = "policy" <=> i = Len(Steps) - 1
  /\ \A i \in DOMAIN Steps : Steps[i].name = "policy" <=> i = Len(Steps) - 1
  /\ "policy" \notin Keyed
  /\ \A i \in DOMAIN Steps : Steps[i].kind = "key" => Steps[i].name \in Keyed
  /\ \A i \in DOMAIN Steps : Steps[i].kind \in Making /\ Steps[i].name \in Keyed =>
       \E j \in 1 .. i - 1 : Steps[j].kind = "key" /\ Steps[j].name = Steps[i].name
<1> DEFINE EP == Early \o One("policy")
           AnyStep == [kind: {"key", "check", "file"} \cup Making,
                       name: (STRING \ Reserved) \cup Reserved]
<1>1. Steps = EP \o One("file")
  BY DEF Steps, Early
<1>2. /\ Early \in Seq(EarlyStep) /\ Prepared(Early)
      /\ Len(Early) \in Nat /\ DOMAIN Early = 1 .. Len(Early)
  BY EarlyForm
<1>3. \A i \in 1 .. Len(Early) : Early[i] \in EarlyStep
  BY <1>2
<1>4. /\ One("policy") \in Seq(AnyStep) /\ Len(One("policy")) = 1
      /\ One("policy")[1] = [kind |-> "policy", name |-> "policy"]
      /\ One("file") \in Seq(AnyStep) /\ Len(One("file")) = 1
      /\ One("file")[1] = [kind |-> "file", name |-> "file"]
  <2> DEFINE p == [kind |-> "policy", name |-> "policy"]
             f == [kind |-> "file", name |-> "file"]
  <2>1. p \in AnyStep /\ f \in AnyStep
    BY DEF Making, Reserved
  <2> HIDE DEF p, f, AnyStep
  <2>2. <<p>> \in Seq(AnyStep) /\ Len(<<p>>) = 1 /\ <<p>>[1] = p
    BY <2>1
  <2>3. <<f>> \in Seq(AnyStep) /\ Len(<<f>>) = 1 /\ <<f>>[1] = f
    BY <2>1
  <2>4. One("policy") = <<p>> /\ One("file") = <<f>>
    BY DEF One, p, f
  <2> QED
    BY <2>2, <2>3, <2>4 DEF p, f
<1>5. EarlyStep \subseteq AnyStep
  <2>1. /\ [kind: {"key", "airdrop", "account"}, name: STRING \ Reserved] \subseteq AnyStep
        /\ [kind: {"check"}, name: {"check"}] \subseteq AnyStep
        /\ [kind: {"pool"}, name: {"pool"}] \subseteq AnyStep
    BY DEF Making, Reserved
  <2> QED
    BY <2>1 DEF EarlyStep
<1> HIDE DEF EP, AnyStep
<1>6. Early \in Seq(AnyStep)
  BY <1>2, <1>3, <1>5, SeqRetyped
<1>7. /\ EP \in Seq(AnyStep) /\ Len(EP) = Len(Early) + 1
      /\ \A i \in 1 .. Len(Early) : EP[i] = Early[i]
      /\ EP[Len(Early) + 1] = [kind |-> "policy", name |-> "policy"]
  <2>1. 1 \in 1 .. Len(One("policy"))
    BY <1>4
  <2> QED
    BY <1>4, <1>6, <2>1, ConcatParts DEF EP
<1>8. /\ Steps \in Seq(AnyStep) /\ Len(Steps) = Len(EP) + 1
      /\ DOMAIN Steps = 1 .. Len(EP) + 1
      /\ \A i \in 1 .. Len(EP) : Steps[i] = EP[i]
      /\ Steps[Len(EP) + 1] = [kind |-> "file", name |-> "file"]
  <2>1. 1 \in 1 .. Len(One("file"))
    BY <1>4
  <2> QED
    <3>1. EP \in Seq(AnyStep) /\ One("file") \in Seq(AnyStep) /\ Len(One("file")) = 1
      BY <1>4, <1>7
    <3> DEFINE st == EP \o One("file")
    <3>2. /\ st \in Seq(AnyStep) /\ Len(st) = Len(EP) + 1
          /\ DOMAIN st = 1 .. Len(EP) + 1
          /\ \A i \in 1 .. Len(EP) : st[i] = EP[i]
          /\ st[Len(EP) + 1] = One("file")[1]
      BY ONLY <2>1, <3>1, ConcatParts
    <3> HIDE DEF st
    <3> QED
      BY ONLY <1>1, <1>4, <3>2 DEF st
<1> DEFINE L == Len(Early)
<1>9. /\ L \in Nat /\ Len(Steps) = L + 2 /\ DOMAIN Steps = 1 .. L + 2
      /\ \A i \in 1 .. L : Steps[i] = Early[i] /\ Steps[i] \in EarlyStep
      /\ Steps[L + 1] = [kind |-> "policy", name |-> "policy"]
      /\ Steps[L + 2] = [kind |-> "file", name |-> "file"]
  <2>1. Len(EP) = L + 1 /\ L \in Nat /\ L + 1 \in 1 .. Len(EP)
    BY <1>2, <1>7
  <2> HIDE DEF L
  <2>2. \A i \in 1 .. L : i \in 1 .. Len(EP)
    BY <2>1
  <2>3. \A i \in 1 .. L : Steps[i] = Early[i]
    BY <1>7, <1>8, <2>2 DEF L
  <2>4. Steps[L + 1] = [kind |-> "policy", name |-> "policy"]
    BY <1>7, <1>8, <2>1 DEF L
  <2>5. Len(Steps) = L + 2 /\ DOMAIN Steps = 1 .. L + 2 /\ Len(EP) + 1 = L + 2
    BY <1>8, <2>1
  <2> QED
    BY <1>3, <1>8, <2>1, <2>3, <2>4, <2>5 DEF L
<1> HIDE DEF L
<1>10. \A s \in EarlyStep :
         /\ s.kind \notin {"policy", "file"} /\ s.name \notin {"policy", "file"}
         /\ s.kind = "key" => s.name # "pool"
         /\ s.kind \in Making => s.kind \in {"airdrop", "account"} \/ s.name = "pool"
  BY DEF EarlyStep, Reserved, Making
<1>11. \A i \in 1 .. L + 2 : i \in 1 .. L \/ i = L + 1 \/ i = L + 2
  BY <1>9
<1>12. \A i \in 1 .. L + 2 : Steps[i].kind = "key" => i \in 1 .. L
  BY <1>9, <1>11
<1>13. /\ \A i \in DOMAIN Steps : Steps[i].kind = "file" <=> i = Len(Steps)
       /\ \A i \in DOMAIN Steps : Steps[i].kind = "policy" <=> i = Len(Steps) - 1
       /\ \A i \in DOMAIN Steps : Steps[i].name = "policy" <=> i = Len(Steps) - 1
  BY <1>9, <1>10, <1>11
<1>14. /\ Keyed = { Steps[i].name : i \in { j \in 1 .. L + 2 : Steps[j].kind = "key" } }
       /\ "policy" \notin Keyed /\ "pool" \notin Keyed
  <2>1. Keyed = { Steps[i].name : i \in { j \in 1 .. L + 2 : Steps[j].kind = "key" } }
    BY <1>9 DEF Keyed
  <2> QED
    BY <1>9, <1>10, <1>12, <2>1
<1>15. ASSUME NEW i \in DOMAIN Steps, Steps[i].kind \in Making, Steps[i].name \in Keyed
       PROVE  \E j \in 1 .. i - 1 : Steps[j].kind = "key" /\ Steps[j].name = Steps[i].name
  <2>1. i \in 1 .. L
    <3>1. i # L + 1
      BY <1>9, <1>14, <1>15
    <3>2. i # L + 2
      BY <1>9, <1>15 DEF Making
    <3> QED
      BY <1>9, <1>11, <3>1, <3>2
  <2>2. Early[i] = Steps[i] /\ Steps[i].kind \in {"airdrop", "account"}
    BY <1>9, <1>10, <1>14, <1>15, <2>1
  <2>3. PICK j \in 1 .. i - 1 : Early[j].kind = "key" /\ Early[j].name = Early[i].name
    BY <1>2, <2>1, <2>2 DEF Prepared, L
  <2>4. Early[j] = Steps[j]
    <3>1. j \in 1 .. L
      BY <1>9, <2>1
    <3> QED
      BY <1>9, <3>1
  <2> QED
    BY <2>2, <2>3, <2>4
<1>16. Len(Steps) >= 2
  BY <1>9
<1>17. \A i \in DOMAIN Steps : Steps[i].kind = "key" => Steps[i].name \in Keyed
  BY <1>9, <1>14
<1>18. /\ Len(Steps) \in Nat /\ DOMAIN Steps = 1 .. Len(Steps)
       /\ \A i \in DOMAIN Steps :
            Steps[i].kind \in {"key", "check", "file"} \cup Making /\ Steps[i].name \in Names
  <2>1. Len(Steps) \in Nat /\ DOMAIN Steps = 1 .. Len(Steps)
    BY <1>9
  <2>2. \A i \in DOMAIN Steps : Steps[i].name \in Names
    BY DEF Names
  <2>3. \A i \in DOMAIN Steps : Steps[i] \in AnyStep
    BY <1>8
  <2>4. \A s \in AnyStep : s.kind \in {"key", "check", "file"} \cup Making
    BY DEF AnyStep
  <2> QED
    BY <2>1, <2>2, <2>3, <2>4
<1> QED
  BY <1>13, <1>14, <1>15, <1>16, <1>17, <1>18

----------------------------------------------------------------------------
(* The inductive invariant.                                                *)

Account == [address: Names \X Nat, tokens: Nat]
ChainState == [accounts: SUBSET Account, used: BOOLEAN]
Transaction == [run: Nat, address: Names \X Nat, kind: Making]
Block ==
  [tx: Transaction \cup {NoTx}, error: {"Ok", "AccountInUse"}, state: ChainState]

NamesIn(s) == { a[1] : a \in Accounts(s) }

TypeInv ==
  /\ at \in 0 .. Len(Steps) /\ run \in Nat
  /\ disk \in [Keyed -> Nat \cup {Torn}]
  /\ keys \in [Keyed -> Nat] /\ minted \in [Keyed -> Nat]
  /\ blocks \in Seq(Block) /\ waiting \subseteq Transaction
  /\ confirmed \in 0 .. Len(blocks) /\ rooted \in 0 .. confirmed

(* An address is at the key in the file of its name, or is the program's.  *)
Placed(address) ==
  IF address[1] \in Keyed
  THEN disk[address[1]] = address[2] /\ address[2] # 0
  ELSE address[2] = 0

AddressInv ==
  /\ \A tx \in waiting : Placed(tx.address)
  /\ \A i \in DOMAIN blocks : \A a \in blocks[i].state.accounts :
       Placed(a.address) /\ a.tokens = Tokens(a.address[1])

(* Accounts stay, use stays, and what a transaction made is there.         *)
ChainInv ==
  /\ \A m, n \in 0 .. Len(blocks) : m <= n =>
       /\ StateAt(m).accounts \subseteq StateAt(n).accounts
       /\ StateAt(m).used => StateAt(n).used
  /\ \A i \in DOMAIN blocks :
       blocks[i].tx # NoTx /\ ~Failed(i) => Exists(blocks[i].tx.address, blocks[i].state)

(* The keys in memory are those in the files.                              *)
KeyInv == \A n \in Keyed : keys[n] # 0 => disk[n] = keys[n]

(* A run has the keys and sees the accounts of the steps behind it.        *)
ProgressInv ==
  /\ sent => at > 0 /\ Here.kind \in Making
  /\ \A j \in 1 .. at - 1 : Steps[j].kind = "key" => keys[Steps[j].name] # 0
  /\ \A j \in 1 .. at - 1 : Steps[j].kind \in Making => Steps[j].name \in NamesIn(Known)

(* The transaction that makes the policy was sent when all the rest was    *)
(* confirmed.                                                              *)
PolicyInv ==
  \A tx \in waiting : tx.address[1] = "policy" => MadeBefore("policy") \subseteq NamesIn(Known)

UsedInv == usedBefore => Known.used

IInv ==
  /\ TypeInv /\ AddressInv /\ ChainInv /\ KeyInv /\ ProgressInv /\ PolicyInv /\ UsedInv
  /\ DeploymentTrue

----------------------------------------------------------------------------
(* What a step does to the chain.                                          *)

LEMMA StateType ==
  ASSUME TypeInv, NEW n \in 0 .. Len(blocks)
  PROVE  StateAt(n) \in ChainState
<1>1. blocks \in Seq(Block)
  BY DEF TypeInv
<1>2. CASE n = 0
  BY <1>2, BootstrapAssumption DEF BootstrapAssumption, StateAt, ChainState
<1>3. CASE n # 0
  <2>1. blocks[n] \in Block
    BY <1>1, <1>3
  <2> QED
    BY <1>3, <2>1 DEF StateAt, Block
<1> QED
  BY <1>2, <1>3

(* The tokens an account is made with.                                     *)
LEMMA TokensType == \A name : Tokens(name) \in Nat
  BY BootstrapAssumption DEF BootstrapAssumption, Tokens

(* An executed transaction leaves the accounts there were, at the tokens   *)
(* they had, and may add its own.                                          *)
LEMMA OutcomeEffect ==
  ASSUME NEW tx \in Transaction, NEW s \in ChainState
  PROVE  LET o == Outcome(tx, s) IN
         /\ o.error \in {"Ok", "AccountInUse"} /\ o.state \in ChainState
         /\ s.accounts \subseteq o.state.accounts /\ o.state.used = s.used
         /\ o.error = "Ok" => Exists(tx.address, o.state)
         /\ \A a \in o.state.accounts :
              \/ a \in s.accounts
              \/ a.address = tx.address /\ a.tokens = Tokens(tx.address[1])
<1> DEFINE made == [address |-> tx.address, tokens |-> Tokens(tx.address[1])]
           after == [s EXCEPT !.accounts = @ \cup {made}]
<1>1. made \in Account
  BY TokensType DEF Transaction, Account
<1>2. /\ made.address = tx.address /\ made.tokens = Tokens(tx.address[1])
  OBVIOUS
<1> HIDE DEF made
<1>3. /\ after \in ChainState /\ after.accounts = s.accounts \cup {made}
      /\ after.used = s.used
  BY <1>1 DEF ChainState
<1>4. CASE Exists(tx.address, s)
  BY <1>4 DEF Outcome
<1>5. CASE ~Exists(tx.address, s)
  <2>1. Outcome(tx, s) = [error |-> "Ok", state |-> after]
    BY <1>5 DEF Outcome, made
  <2> HIDE DEF after
  <2>2. Outcome(tx, s).error = "Ok" /\ Outcome(tx, s).state = after
    BY <2>1
  <2> QED
    BY <1>2, <1>3, <2>2 DEF Exists
<1> QED
  BY <1>4, <1>5

(* One more block on top of the others.                                    *)
LEMMA Appended ==
  ASSUME TypeInv, NEW b \in Block, blocks' = Append(blocks, b), NEW L, L = Len(blocks)
  PROVE  /\ blocks' \in Seq(Block) /\ L \in Nat /\ Len(blocks') = L + 1
         /\ DOMAIN blocks = 1 .. L /\ DOMAIN blocks' = 1 .. L + 1
         /\ \A i \in 1 .. L : blocks'[i] = blocks[i]
         /\ blocks'[L + 1] = b
         /\ \A n \in 0 .. L : StateAt(n)' = StateAt(n)
         /\ StateAt(L + 1)' = b.state
<1>1. /\ blocks' \in Seq(Block) /\ L \in Nat /\ Len(blocks') = L + 1
      /\ DOMAIN blocks = 1 .. L /\ DOMAIN blocks' = 1 .. L + 1
      /\ \A i \in 1 .. L : blocks'[i] = blocks[i]
      /\ blocks'[L + 1] = b
  BY DEF TypeInv
<1>2. \A n \in 0 .. L : StateAt(n)' = StateAt(n)
  BY <1>1 DEF StateAt
<1>3. StateAt(L + 1)' = b.state
  BY <1>1 DEF StateAt
<1> QED
  BY <1>1, <1>2, <1>3

(* The steps of the cluster that add a block, and what it holds.           *)
LEMMA BlockSteps ==
  ASSUME TypeInv, [Next]_vars
  PROVE  \/ UNCHANGED blocks
         \/ \E b \in Block :
              /\ blocks' = Append(blocks, b)
              /\ StateAt(Len(blocks)).accounts \subseteq b.state.accounts
              /\ StateAt(Len(blocks)).used => b.state.used
              /\ b.tx # NoTx /\ b.error = "Ok" => Exists(b.tx.address, b.state)
              /\ \A a \in b.state.accounts :
                   \/ a \in StateAt(Len(blocks)).accounts
                   \/ /\ b.tx \in waiting
                      /\ a.address = b.tx.address /\ a.tokens = Tokens(b.tx.address[1])
<1> DEFINE s == StateAt(Len(blocks))
<1>1. s \in ChainState
  <2>1. Len(blocks) \in 0 .. Len(blocks)
    BY DEF TypeInv
  <2> QED
    BY <2>1, StateType
<1>2. CASE Executes
  <2>1. PICK tx \in waiting : Land(tx, Outcome(tx, s))
    BY <1>2 DEF Executes
  <2>2. tx \in Transaction
    BY DEF TypeInv
  <2> DEFINE o == Outcome(tx, s)
             b == [tx |-> tx, error |-> o.error, state |-> o.state]
  <2>3. /\ o.error \in {"Ok", "AccountInUse"} /\ o.state \in ChainState
        /\ s.accounts \subseteq o.state.accounts /\ o.state.used = s.used
        /\ o.error = "Ok" => Exists(tx.address, o.state)
        /\ \A a \in o.state.accounts :
             \/ a \in s.accounts
             \/ a.address = tx.address /\ a.tokens = Tokens(tx.address[1])
    BY ONLY <1>1, <2>2, OutcomeEffect
  <2>4. blocks' = Append(blocks, b)
    BY <2>1 DEF Land
  <2> HIDE DEF o, s
  <2>5. b \in Block /\ b.tx = tx /\ b.error = o.error /\ b.state = o.state
    BY <2>2, <2>3 DEF Block
  <2> HIDE DEF b
  <2> QED
    BY <2>3, <2>4, <2>5 DEF s
<1>3. CASE Use
  <2> DEFINE u == [s EXCEPT !.used = TRUE]
             b == [tx |-> NoTx, error |-> "Ok", state |-> u]
  <2>1. blocks' = Append(blocks, b)
    BY <1>3 DEF Use, Intrude
  <2> HIDE DEF s
  <2>2. u \in ChainState /\ u.accounts = s.accounts /\ u.used = TRUE
    BY <1>1 DEF ChainState
  <2> HIDE DEF u
  <2>3. b \in Block /\ b.tx = NoTx /\ b.state = u
    BY <2>2 DEF Block
  <2> HIDE DEF b
  <2> QED
    BY <2>1, <2>2, <2>3 DEF s
<1> QED
  BY <1>2, <1>3
  DEF Next, Start, Script, Key, Skip, Send, Await, Check, Deploy, Dies, Expires, Expire,
      Confirms, Confirm, Finalizes, Finalize, Accept, vars, clusterVars

LEMMA ChainStep ==
  ASSUME TypeInv, ChainInv, [Next]_vars
  PROVE  /\ blocks' \in Seq(Block) /\ Len(blocks) \in Nat /\ Len(blocks') \in Nat
         /\ Len(blocks') >= Len(blocks)
         /\ \A n \in 0 .. Len(blocks) : StateAt(n)' = StateAt(n)
         /\ ChainInv'
         /\ confirmed' \in 0 .. Len(blocks') /\ rooted' \in 0 .. confirmed'
         /\ Known.accounts \subseteq Known'.accounts
         /\ Known.used => Known'.used
<1>1. /\ confirmed \in 0 .. Len(blocks) /\ rooted \in 0 .. confirmed
      /\ Len(blocks) \in Nat /\ blocks \in Seq(Block) /\ DOMAIN blocks = 1 .. Len(blocks)
  BY DEF TypeInv
<1>2. \/ confirmed' = confirmed /\ rooted' = rooted
      \/ confirmed < Len(blocks) /\ confirmed' = confirmed + 1 /\ rooted' = rooted
      \/ rooted < confirmed /\ rooted' = rooted + 1 /\ confirmed' = confirmed
  BY DEF Next, Start, Script, Key, Skip, Send, Await, Check, Deploy, Dies, Expires, Expire,
         Confirms, Confirm, Finalizes, Finalize, Accept, Executes, Land, Use, Intrude,
         vars, clusterVars
<1>3. /\ blocks' \in Seq(Block) /\ Len(blocks') \in Nat /\ Len(blocks') >= Len(blocks)
      /\ \A n \in 0 .. Len(blocks) : StateAt(n)' = StateAt(n)
      /\ ChainInv'
  <2>1. CASE UNCHANGED blocks
    <3>1. \A n : StateAt(n)' = StateAt(n)
      BY <2>1 DEF StateAt
    <3>2. ChainInv'
      BY <2>1, <3>1 DEF ChainInv, Failed, Exists
    <3> QED
      BY <1>1, <2>1, <3>1, <3>2
  <2>2. ASSUME NEW b \in Block,
               blocks' = Append(blocks, b),
               StateAt(Len(blocks)).accounts \subseteq b.state.accounts,
               StateAt(Len(blocks)).used => b.state.used,
               b.tx # NoTx /\ b.error = "Ok" => Exists(b.tx.address, b.state)
        PROVE  /\ blocks' \in Seq(Block) /\ Len(blocks') \in Nat
               /\ Len(blocks') >= Len(blocks)
               /\ \A n \in 0 .. Len(blocks) : StateAt(n)' = StateAt(n)
               /\ ChainInv'
    <3>0. PICK L : L = Len(blocks)
      OBVIOUS
    <3>1. /\ blocks' \in Seq(Block) /\ L \in Nat /\ Len(blocks') = L + 1
          /\ DOMAIN blocks = 1 .. L /\ DOMAIN blocks' = 1 .. L + 1
          /\ \A i \in 1 .. L : blocks'[i] = blocks[i]
          /\ blocks'[L + 1] = b
          /\ \A n \in 0 .. L : StateAt(n)' = StateAt(n)
          /\ StateAt(L + 1)' = b.state
      BY <2>2, <3>0, Appended
    <3>2. ASSUME NEW m \in 0 .. L + 1, NEW n \in 0 .. L + 1, m <= n
          PROVE  /\ StateAt(m)'.accounts \subseteq StateAt(n)'.accounts
                 /\ StateAt(m)'.used => StateAt(n)'.used
      <4>1. CASE n \in 0 .. L
        <5>1. m \in 0 .. L
          BY <3>1, <3>2, <4>1
        <5> QED
          BY <3>0, <3>1, <3>2, <4>1, <5>1 DEF ChainInv
      <4>2. CASE n = L + 1 /\ m \in 0 .. L
        <5>1. L \in 0 .. L /\ m <= L
          BY <3>1, <4>2
        <5>2. /\ StateAt(m).accounts \subseteq StateAt(L).accounts
              /\ StateAt(m).used => StateAt(L).used
          BY <3>0, <4>2, <5>1 DEF ChainInv
        <5>3. StateAt(m)' = StateAt(m) /\ StateAt(n)' = b.state
          BY <3>1, <4>2
        <5> QED
          BY <2>2, <3>0, <5>2, <5>3
      <4>3. CASE n = L + 1 /\ m = L + 1
        <5>1. m = n
          BY <4>3
        <5> QED
          BY <5>1
      <4> QED
        BY <3>1, <4>1, <4>2, <4>3
    <3>3. ASSUME NEW i \in 1 .. L + 1, blocks'[i].tx # NoTx, ~Failed(i)'
          PROVE  Exists(blocks'[i].tx.address, blocks'[i].state)
      <4>1. CASE i \in 1 .. L
        BY <3>1, <3>3, <4>1 DEF ChainInv, Failed
      <4>2. CASE i = L + 1
        BY <2>2, <3>1, <3>3, <4>2 DEF Failed
      <4> QED
        BY <3>1, <4>1, <4>2
    <3>4. ChainInv'
      BY <3>1, <3>2, <3>3 DEF ChainInv, Exists
    <3> QED
      BY <3>0, <3>1, <3>4
  <2> QED
    BY <2>1, <2>2, BlockSteps
<1>4. confirmed' \in 0 .. Len(blocks') /\ rooted' \in 0 .. confirmed'
  BY ONLY <1>1, <1>2, <1>3
<1>5. PICK c \in 0 .. Len(blocks') : c = confirmed'
  BY <1>4
<1>6. Known' = StateAt(c)'
  BY <1>5 DEF Known, StateAt
<1>7. c \in 0 .. Len(blocks) /\ confirmed <= c
  BY ONLY <1>1, <1>2, <1>5
<1>8. Known' = StateAt(c)
  BY <1>3, <1>6, <1>7
<1>9. Known.accounts \subseteq Known'.accounts /\ (Known.used => Known'.used)
  BY <1>1, <1>7, <1>8 DEF ChainInv, Known
<1> QED
  BY <1>1, <1>3, <1>4, <1>9

----------------------------------------------------------------------------
(* What a step does to the keys.                                           *)

(* The step of a run is one of the steps.                                  *)
LEMMA HereType ==
  ASSUME TypeInv, at > 0
  PROVE  /\ at \in DOMAIN Steps /\ at \in Nat
         /\ Here.name \in Names
         /\ Here.kind = "key" => Here.name \in Keyed
         /\ Here.kind # "file" => at + 1 \in 0 .. Len(Steps)
<1>1. at \in DOMAIN Steps /\ at \in Nat
  BY StepsForm DEF TypeInv
<1> QED
  BY <1>1, StepsForm DEF Here

(* A key file is written once, and what is in memory is in a file.         *)
LEMMA KeyStep ==
  ASSUME TypeInv, KeyInv, [Next]_vars
  PROVE  /\ disk' \in [Keyed -> Nat \cup {Torn}]
         /\ keys' \in [Keyed -> Nat] /\ minted' \in [Keyed -> Nat]
         /\ \A n \in Keyed : disk[n] = Absent \/ disk'[n] = disk[n]
         /\ KeyInv'
         /\ \A n \in Keyed : keys[n] # 0 /\ at' # 0 => keys'[n] # 0
<1>1. CASE UNCHANGED <<disk, keys, minted>>
  BY <1>1 DEF TypeInv, KeyInv
<1>2. CASE Ends /\ UNCHANGED <<disk, minted>>
  BY <1>2 DEF TypeInv, KeyInv, Ends, Goes
<1>3. CASE Key
  <2> DEFINE name == Here.name
             fresh == minted[name] + 1
  <2>1. name \in Keyed
    BY <1>3, HereType DEF Key
  <2>2. CASE disk[name] = Torn
    <3>1. Ends /\ UNCHANGED <<disk, minted>>
      BY <1>3, <2>2 DEF Key, Torn, Absent
    <3> QED
      BY <1>2, <3>1
  <2>3. CASE disk[name] = Absent
    <3>1. /\ keys' = [keys EXCEPT ![name] = fresh]
          /\ minted' = [minted EXCEPT ![name] = fresh]
          /\ disk' = [disk EXCEPT ![name] = fresh]
      BY <1>3, <2>3 DEF Key, Stored, Torn, Absent
    <3>2. fresh \in Nat /\ fresh # 0
      BY <2>1 DEF TypeInv
    <3> HIDE DEF name, fresh
    <3>3. /\ disk' \in [Keyed -> Nat \cup {Torn}]
          /\ keys' \in [Keyed -> Nat] /\ minted' \in [Keyed -> Nat]
      BY <2>1, <3>1, <3>2 DEF TypeInv
    <3>4. \A n \in Keyed :
            /\ n = name => disk'[n] = fresh /\ keys'[n] = fresh
            /\ n # name => disk'[n] = disk[n] /\ keys'[n] = keys[n]
      BY <2>1, <3>1 DEF TypeInv
    <3> QED
      BY <2>3, <3>2, <3>3, <3>4 DEF KeyInv
  <2>4. CASE disk[name] # Torn /\ disk[name] # Absent
    <3>1. keys' = [keys EXCEPT ![name] = disk[name]] /\ UNCHANGED <<disk, minted>>
      BY <1>3, <2>4 DEF Key
    <3>2. disk[name] \in Nat /\ disk[name] # 0
      BY <2>1, <2>4 DEF TypeInv, Absent
    <3> HIDE DEF name
    <3>3. /\ disk' \in [Keyed -> Nat \cup {Torn}]
          /\ keys' \in [Keyed -> Nat] /\ minted' \in [Keyed -> Nat]
      BY <2>1, <3>1, <3>2 DEF TypeInv
    <3>4. \A n \in Keyed :
            /\ disk'[n] = disk[n]
            /\ keys'[n] = IF n = name THEN disk[n] ELSE keys[n]
      BY <2>1, <3>1 DEF TypeInv
    <3> QED
      BY <3>2, <3>3, <3>4 DEF KeyInv
  <2> QED
    BY <2>2, <2>3, <2>4
<1>4. CASE Dies
  <2>1. CASE UNCHANGED <<disk, minted>>
    BY <1>2, <1>4, <2>1 DEF Dies
  <2>2. CASE /\ Here.kind = "key" /\ disk[Here.name] = Absent
             /\ disk' = [disk EXCEPT ![Here.name] = Torn]
             /\ UNCHANGED minted
    <3>1. /\ Here.name \in Keyed /\ at' = 0 /\ keys' = [n \in Keyed |-> 0]
      BY <1>4, <2>2, HereType DEF Dies, Ends, Goes
    <3> QED
      BY <2>2, <3>1 DEF TypeInv, KeyInv
  <2> QED
    BY <1>4, <2>1, <2>2 DEF Dies
<1>5. CASE Await \/ Check
  <2>1. UNCHANGED keys \/ Ends
    BY <1>5 DEF Await, Check
  <2>2. UNCHANGED <<disk, minted>>
    BY <1>5 DEF Await, Check
  <2> QED
    BY <1>1, <1>2, <2>1, <2>2
<1>6. CASE Deploy
  BY <1>2, <1>6 DEF Deploy
<1> QED
  BY <1>1, <1>3, <1>4, <1>5, <1>6
  DEF Next, Start, Script, Skip, Send, Expires, Executes, Confirms, Finalizes, Use,
      vars, script

(* An address once placed stays placed.                                    *)
LEMMA PlacedStays ==
  ASSUME TypeInv, KeyInv, [Next]_vars, NEW address, Placed(address)
  PROVE  Placed(address)'
  BY KeyStep DEF Placed, Absent

(* A run sends its transactions to addresses in the files.                 *)
LEMMA HerePlaced ==
  ASSUME TypeInv, KeyInv, ProgressInv, at > 0, Here.kind \in Making
  PROVE  Placed(Address(Here.name)) /\ Tx \in Transaction
<1>1. at \in DOMAIN Steps /\ Here.name \in Names
  BY HereType
<1>2. Here.name \in Keyed => keys[Here.name] # 0
  BY <1>1, StepsForm DEF ProgressInv, Here
<1>3. Here.name \in Keyed => disk[Here.name] = keys[Here.name] /\ keys[Here.name] \in Nat
  BY <1>2 DEF KeyInv, TypeInv
<1>4. /\ Address(Here.name)[1] = Here.name
      /\ Address(Here.name)[2] = IF Here.name \in Keyed THEN keys[Here.name] ELSE 0
  BY DEF Address
<1>5. Placed(Address(Here.name))
  BY <1>2, <1>3, <1>4 DEF Placed
<1>6. Tx \in Transaction
  BY <1>1, <1>3 DEF Tx, Transaction, Address, TypeInv
<1> QED
  BY <1>5, <1>6

(* What is waiting was waiting before, or is what the run sends.           *)
LEMMA WaitingStep ==
  ASSUME [Next]_vars, NEW tx \in waiting'
  PROVE  tx \in waiting \/ (Send /\ tx = Tx)
  BY DEF Next, Start, Script, Key, Skip, Send, Await, Check, Deploy, Dies, Expires, Expire,
         Confirms, Confirm, Finalizes, Finalize, Accept, Executes, Land, Use, Intrude,
         vars, clusterVars

LEMMA AddressStep ==
  ASSUME TypeInv, AddressInv, KeyInv, ProgressInv, [Next]_vars
  PROVE  AddressInv'
<1>1. ASSUME NEW tx \in waiting' PROVE Placed(tx.address)'
  <2>1. CASE tx \in waiting
    BY <2>1, PlacedStays DEF AddressInv
  <2>2. CASE Send /\ tx = Tx
    <3>1. tx.address = Address(Here.name) /\ Placed(Address(Here.name))
      BY <2>2, HerePlaced DEF Send, Tx
    <3>2. PICK address : address = tx.address /\ Placed(address)
      BY <3>1
    <3>3. Placed(address)'
      BY <3>2, PlacedStays
    <3> QED
      BY <3>2, <3>3
  <2> QED
    BY <2>1, <2>2, WaitingStep
<1>2. ASSUME NEW i \in DOMAIN blocks', NEW a \in blocks'[i].state.accounts
      PROVE  Placed(a.address)' /\ a.tokens = Tokens(a.address[1])
  <2>1. CASE UNCHANGED blocks
    BY <1>2, <2>1, PlacedStays DEF AddressInv
  <2>2. ASSUME NEW b \in Block, blocks' = Append(blocks, b),
               \/ a \in blocks[i].state.accounts /\ i \in DOMAIN blocks
               \/ a \in StateAt(Len(blocks)).accounts
               \/ /\ b.tx \in waiting
                  /\ a.address = b.tx.address /\ a.tokens = Tokens(b.tx.address[1])
        PROVE  Placed(a.address)' /\ a.tokens = Tokens(a.address[1])
    <3>1. CASE a \in blocks[i].state.accounts /\ i \in DOMAIN blocks
      BY <3>1, PlacedStays DEF AddressInv
    <3>2. CASE a \in StateAt(Len(blocks)).accounts
      <4>1. CASE Len(blocks) = 0
        BY <3>2, <4>1, BootstrapAssumption DEF StateAt, BootstrapAssumption
      <4>2. CASE Len(blocks) # 0
        <5>1. Len(blocks) \in DOMAIN blocks /\ a \in blocks[Len(blocks)].state.accounts
          BY <3>2, <4>2 DEF StateAt, TypeInv
        <5> QED
          BY <5>1, PlacedStays DEF AddressInv
      <4> QED
        BY <4>1, <4>2
    <3>3. CASE /\ b.tx \in waiting
               /\ a.address = b.tx.address /\ a.tokens = Tokens(b.tx.address[1])
      BY <3>3, PlacedStays DEF AddressInv
    <3> QED
      BY <2>2, <3>1, <3>2, <3>3
  <2>3. ASSUME NEW b \in Block, blocks' = Append(blocks, b),
               \A c \in b.state.accounts :
                 \/ c \in StateAt(Len(blocks)).accounts
                 \/ /\ b.tx \in waiting
                    /\ c.address = b.tx.address /\ c.tokens = Tokens(b.tx.address[1])
        PROVE  Placed(a.address)' /\ a.tokens = Tokens(a.address[1])
    <3>1. PICK L : L = Len(blocks)
      OBVIOUS
    <3>2. /\ L \in Nat /\ DOMAIN blocks = 1 .. L /\ DOMAIN blocks' = 1 .. L + 1
          /\ \A k \in 1 .. L : blocks'[k] = blocks[k]
          /\ blocks'[L + 1] = b
      BY <2>3, <3>1, Appended
    <3>3. \/ i \in DOMAIN blocks /\ a \in blocks[i].state.accounts
          \/ a \in b.state.accounts
      BY <1>2, <3>2
    <3> QED
      BY <2>2, <2>3, <3>3
  <2> QED
    BY <2>1, <2>3, BlockSteps
<1> QED
  BY <1>1, <1>2 DEF AddressInv

----------------------------------------------------------------------------
(* What a step does to the run.                                            *)

(* A finalized transaction of the run's own has made its account, and what *)
(* is finalized is confirmed.                                              *)
LEMMA AppliedIsKnown ==
  ASSUME TypeInv, ChainInv, KeyInv, ProgressInv, at > 0, Here.kind \in Making,
         AppliedBy(rooted, Tx)
  PROVE  Here.name \in NamesIn(Known)
<1>1. PICK i \in 1 .. rooted : blocks[i].tx = Tx /\ ~Failed(i)
  BY DEF AppliedBy
<1>2. Tx # NoTx
  BY HerePlaced, NoTxAssumption DEF Transaction, NoTxAssumption
<1>3. /\ confirmed \in 0 .. Len(blocks) /\ rooted \in 0 .. confirmed
      /\ Len(blocks) \in Nat /\ DOMAIN blocks = 1 .. Len(blocks)
  BY DEF TypeInv
<1>4. i \in DOMAIN blocks /\ i \in 0 .. Len(blocks) /\ i <= confirmed /\ i # 0
  BY <1>3
<1>5. Exists(Tx.address, StateAt(i))
  BY <1>1, <1>2, <1>4 DEF ChainInv, StateAt
<1>6. StateAt(i).accounts \subseteq Known.accounts
  BY <1>3, <1>4 DEF ChainInv, Known
<1>7. PICK a \in Known.accounts : a.address = Tx.address
  BY <1>5, <1>6 DEF Exists
<1>8. Tx.address[1] = Here.name
  BY DEF Tx, Address
<1> QED
  BY <1>7, <1>8 DEF NamesIn, Accounts

(* A run stands still, sends, stops, starts, or leaves a step behind that  *)
(* is done.                                                                *)
LEMMA RunStep ==
  ASSUME TypeInv, ChainInv, KeyInv, ProgressInv, [Next]_vars
  PROVE  \/ at' = at /\ (sent' => sent)
         \/ at' = at /\ at > 0 /\ Here.kind \in Making
         \/ at' = 0 /\ sent' = FALSE
         \/ at' = 1 /\ sent' = FALSE
         \/ /\ at > 0 /\ at' = at + 1 /\ sent' = FALSE /\ usedBefore' = usedBefore
            /\ at + 1 \in 0 .. Len(Steps)
            /\ Here.kind = "key" => keys'[Here.name] # 0
            /\ Here.kind \in Making => Here.name \in NamesIn(Known)
            /\ Here.kind = "check" => ~Known.used
<1>1. CASE Key
  <2> DEFINE name == Here.name
  <2>1. /\ name \in Keyed /\ at > 0 /\ Here.kind = "key" /\ at + 1 \in 0 .. Len(Steps)
        /\ minted[name] + 1 \in Nat /\ minted[name] + 1 # 0
        /\ keys \in [Keyed -> Nat] /\ usedBefore' = usedBefore
    BY <1>1, HereType DEF Key, TypeInv
  <2>2. CASE disk[name] = Torn
    <3>1. Ends
      BY <1>1, <2>2 DEF Key, Torn, Absent
    <3> QED
      BY <3>1 DEF Ends, Goes
  <2>3. CASE disk[name] = Absent
    <3>1. keys' = [keys EXCEPT ![name] = minted[name] + 1] /\ Goes(at + 1)
      BY <1>1, <2>3 DEF Key, Torn, Absent
    <3> HIDE DEF name
    <3>2. keys'[name] = minted[name] + 1
      BY <2>1, <3>1
    <3> QED
      BY <2>1, <3>1, <3>2 DEF Goes, Making, name
  <2>4. CASE disk[name] # Torn /\ disk[name] # Absent
    <3>1. keys' = [keys EXCEPT ![name] = disk[name]] /\ Goes(at + 1)
      BY <1>1, <2>4 DEF Key
    <3> HIDE DEF name
    <3>2. keys'[name] = disk[name]
      BY <2>1, <3>1
    <3> QED
      BY <2>1, <2>4, <3>1, <3>2 DEF Goes, Making, Absent, name
  <2> QED
    BY <2>2, <2>3, <2>4
<1>2. CASE Skip
  <2>1. Exists(Address(Here.name), Known)
    BY <1>2 DEF Skip, Missing
  <2>2. Here.name \in NamesIn(Known)
    BY <2>1 DEF Exists, NamesIn, Accounts, Address
  <2> QED
    BY <1>2, <2>2, HereType DEF Skip, Goes, Making
<1>3. CASE Await
  <2>1. CASE Ends
    BY <2>1 DEF Ends, Goes
  <2>2. CASE AppliedBy(rooted, Tx) /\ Goes(at + 1)
    <3>1. at > 0 /\ Here.kind \in Making /\ usedBefore' = usedBefore
      BY <1>3 DEF Await, ProgressInv
    <3>2. Here.name \in NamesIn(Known)
      BY <2>2, <3>1, AppliedIsKnown
    <3> QED
      BY <2>2, <3>1, <3>2, HereType DEF Goes, Making
  <2> QED
    BY <1>3, <2>1, <2>2 DEF Await, Settled
<1>4. CASE Check
  BY <1>4, HereType DEF Check, Reusable, Ends, Goes, Making
<1>5. CASE Send
  BY <1>5 DEF Send
<1>6. CASE Start
  BY <1>6 DEF Start, Goes
<1>7. CASE Deploy \/ Dies
  BY <1>7 DEF Deploy, Dies, Ends, Goes
<1>8. CASE UNCHANGED <<at, sent>>
  BY <1>8
<1> QED
  BY <1>1, <1>2, <1>3, <1>4, <1>5, <1>6, <1>7, <1>8
  DEF Next, Script, Expires, Executes, Confirms, Finalizes, Use, vars, script

(* The names of the accounts a run sees only grow.                         *)
LEMMA NamesGrow ==
  ASSUME TypeInv, ChainInv, [Next]_vars
  PROVE  NamesIn(Known) \subseteq NamesIn(Known)'
<1>1. PICK K : K = Known
  OBVIOUS
<1>2. PICK M : M = Known'
  OBVIOUS
<1>3. K.accounts \subseteq M.accounts
  BY <1>1, <1>2, ChainStep
<1>4. NamesIn(K) \subseteq NamesIn(M)
  BY <1>3 DEF NamesIn, Accounts
<1> QED
  BY <1>1, <1>2, <1>4 DEF NamesIn, Accounts

LEMMA ProgressStep ==
  ASSUME TypeInv, ChainInv, KeyInv, ProgressInv, [Next]_vars
  PROVE  ProgressInv' /\ at' \in 0 .. Len(Steps)
<1>1. /\ at \in Nat /\ at \in 0 .. Len(Steps)
      /\ Len(Steps) >= 2 /\ Len(Steps) \in Nat /\ DOMAIN Steps = 1 .. Len(Steps)
  BY StepsForm DEF TypeInv
<1>2. \A n \in Keyed : keys[n] # 0 /\ at' # 0 => keys'[n] # 0
  BY KeyStep
<1>3. \A j \in 1 .. at - 1 : j \in DOMAIN Steps
  BY <1>1
<1>4. \A j \in 1 .. at - 1 :
        /\ Steps[j].kind = "key" /\ at' # 0 => keys'[Steps[j].name] # 0
        /\ Steps[j].kind \in Making => Steps[j].name \in NamesIn(Known)'
  BY <1>2, <1>3, StepsForm, NamesGrow DEF ProgressInv
<1>5. CASE at' = at /\ (sent' => sent)
  BY <1>1, <1>4, <1>5 DEF ProgressInv, Here
<1>6. CASE at' = at /\ at > 0 /\ Here.kind \in Making
  BY <1>1, <1>4, <1>6 DEF ProgressInv, Here
<1>7. CASE at' \in {0, 1} /\ sent' = FALSE
  BY <1>1, <1>7 DEF ProgressInv
<1>8. CASE /\ at > 0 /\ at' = at + 1 /\ sent' = FALSE
           /\ at + 1 \in 0 .. Len(Steps)
           /\ Here.kind = "key" => keys'[Here.name] # 0
           /\ Here.kind \in Making => Here.name \in NamesIn(Known)
  <2>1. \A j \in 1 .. at' - 1 : j \in 1 .. at - 1 \/ j = at
    BY <1>1, <1>8
  <2>2. Steps[at].kind \in Making => Steps[at].name \in NamesIn(Known)'
    BY <1>8, NamesGrow DEF Here
  <2>3. Steps[at].kind = "key" => keys'[Steps[at].name] # 0
    BY <1>8 DEF Here
  <2>4. at' # 0
    BY <1>1, <1>8
  <2> QED
    BY <1>4, <1>8, <2>1, <2>2, <2>3, <2>4 DEF ProgressInv
<1> QED
  BY <1>5, <1>6, <1>7, <1>8, RunStep

----------------------------------------------------------------------------
(* What is there before the policy, and before the deployment file.        *)

LEMMA Before ==
  /\ MadeBefore("policy") =
       { Steps[i].name : i \in { j \in 1 .. Len(Steps) - 2 : Steps[j].kind \in Making } }
  /\ MadeBefore("file") =
       { Steps[i].name : i \in { j \in 1 .. Len(Steps) - 1 : Steps[j].kind \in Making } }
  /\ MadeBefore("file") \subseteq MadeBefore("policy") \cup {"policy"}
<1> DEFINE N == Len(Steps)
           kindAt(kind) == CHOOSE i \in DOMAIN Steps : Steps[i].kind = kind
<1>1. /\ N \in Nat /\ N >= 2 /\ DOMAIN Steps = 1 .. N
      /\ \A i \in DOMAIN Steps : Steps[i].kind = "file" <=> i = N
      /\ \A i \in DOMAIN Steps : Steps[i].kind = "policy" <=> i = N - 1
      /\ \A i \in DOMAIN Steps : Steps[i].name = "policy" <=> i = N - 1
  BY StepsForm
<1> HIDE DEF N
<1>2. N \in DOMAIN Steps /\ N - 1 \in DOMAIN Steps
  BY <1>1
<1>3. kindAt("file") = N /\ kindAt("policy") = N - 1
  BY <1>1, <1>2
<1>4. (N - 1) - 1 = N - 2
  BY <1>1
<1>5. /\ MadeBefore("policy") =
           { Steps[i].name : i \in { j \in 1 .. N - 2 : Steps[j].kind \in Making } }
      /\ MadeBefore("file") =
           { Steps[i].name : i \in { j \in 1 .. N - 1 : Steps[j].kind \in Making } }
  BY <1>3, <1>4 DEF MadeBefore
<1>6. \A j \in 1 .. N - 1 : j \in 1 .. N - 2 \/ j = N - 1
  BY <1>1
<1> QED
  BY <1>1, <1>2, <1>5, <1>6 DEF N

LEMMA PolicyStep ==
  ASSUME TypeInv, ChainInv, KeyInv, ProgressInv, PolicyInv, [Next]_vars
  PROVE  PolicyInv'
<1> SUFFICES ASSUME NEW tx \in waiting', tx.address[1] = "policy"
             PROVE  MadeBefore("policy") \subseteq NamesIn(Known)
  BY NamesGrow DEF PolicyInv
<1>1. CASE tx \in waiting
  BY <1>1 DEF PolicyInv
<1>2. CASE Send /\ tx = Tx
  <2>1. at > 0 /\ Here.name = "policy"
    BY <1>2 DEF Send, Tx, Address
  <2>2. at = Len(Steps) - 1 /\ Len(Steps) \in Nat
    BY <2>1, HereType, StepsForm DEF Here
  <2>3. \A j \in 1 .. Len(Steps) - 2 : j \in 1 .. at - 1
    BY <2>2
  <2> QED
    BY <2>3, Before DEF ProgressInv
<1> QED
  BY <1>1, <1>2, WaitingStep

LEMMA UsedStep ==
  ASSUME TypeInv, ChainInv, UsedInv, [Next]_vars
  PROVE  UsedInv'
<1>1. usedBefore' => usedBefore \/ Known.used
  BY DEF Next, Start, Script, Key, Skip, Send, Await, Check, Deploy, Dies, Expires,
         Executes, Confirms, Finalizes, Use, vars, script
<1> QED
  BY <1>1, ChainStep DEF UsedInv

(* A run that leaves the check behind saw a policy nobody had used.        *)
LEMMA RefusedStep ==
  ASSUME TypeInv, ChainInv, KeyInv, ProgressInv, UsedInv, UsedIsRefused, [Next]_vars
  PROVE  UsedIsRefused'
<1>1. at \in Nat
  BY StepsForm DEF TypeInv
<1>2. CASE at' = at
  <2>1. usedBefore' = usedBefore \/ Start
    BY DEF Next, Script, Key, Skip, Send, Await, Check, Deploy, Dies, Expires,
           Executes, Confirms, Finalizes, Use, vars, script
  <2>2. Start => at = 0
    BY DEF Start
  <2>3. CASE usedBefore' = usedBefore
    BY <1>2, <2>3 DEF UsedIsRefused
  <2>4. CASE at = 0
    BY <1>2, <2>4 DEF UsedIsRefused
  <2> QED
    BY <2>1, <2>2, <2>3, <2>4
<1>3. CASE at' = 0 \/ at' = 1
  <2>1. ~(at' > 0) \/ 1 .. at' - 1 = {}
    BY <1>3
  <2> QED
    BY <2>1 DEF UsedIsRefused
<1>4. CASE /\ at > 0 /\ at' = at + 1 /\ usedBefore' = usedBefore
           /\ Here.kind = "check" => ~Known.used
  <2>1. \A i \in 1 .. at' - 1 : i \in 1 .. at - 1 \/ i = at
    BY <1>1, <1>4
  <2>2. usedBefore' => Here.kind # "check"
    BY <1>4 DEF UsedInv
  <2> QED
    BY <1>4, <2>1, <2>2 DEF UsedIsRefused, Here
<1> QED
  BY <1>2, <1>3, <1>4, RunStep

(* The policy's account comes from a transaction that was sent when all    *)
(* the rest was confirmed.                                                 *)
LEMMA LastStep ==
  ASSUME TypeInv, ChainInv, PolicyInv, PolicyComesLast, [Next]_vars
  PROVE  PolicyComesLast'
<1>1. CASE UNCHANGED blocks
  BY <1>1 DEF PolicyComesLast, StateAt
<1>2. ASSUME NEW b \in Block,
             blocks' = Append(blocks, b),
             StateAt(Len(blocks)).accounts \subseteq b.state.accounts,
             \A a \in b.state.accounts :
               \/ a \in StateAt(Len(blocks)).accounts
               \/ /\ b.tx \in waiting
                  /\ a.address = b.tx.address /\ a.tokens = Tokens(b.tx.address[1])
      PROVE  PolicyComesLast'
  <2>1. PICK L : L = Len(blocks)
    OBVIOUS
  <2>2. /\ L \in Nat /\ Len(blocks') = L + 1
        /\ \A n \in 0 .. L : StateAt(n)' = StateAt(n)
        /\ StateAt(L + 1)' = b.state
    BY <1>2, <2>1, Appended
  <2>3. L \in 0 .. L /\ \A n \in 0 .. L + 1 : n \in 0 .. L \/ n = L + 1
    BY <2>2
  <2>4. ASSUME Exists(<<"policy", 0>>, b.state)
        PROVE  MadeBefore("file") \subseteq NamesIn(b.state)
    <3>1. NamesIn(StateAt(L)) \subseteq NamesIn(b.state)
      BY <1>2, <2>1 DEF NamesIn, Accounts
    <3>2. PICK a \in b.state.accounts : a.address = <<"policy", 0>>
      BY <2>4 DEF Exists
    <3>3. CASE a \in StateAt(L).accounts
      <4>1. Exists(<<"policy", 0>>, StateAt(L))
        BY <3>2, <3>3 DEF Exists
      <4>2. MadeBefore("file") \subseteq NamesIn(StateAt(L))
        BY <2>1, <2>3, <4>1 DEF PolicyComesLast, NamesIn
      <4> QED
        BY <3>1, <4>2
    <3>4. CASE b.tx \in waiting /\ a.address = b.tx.address
      <4>1. b.tx.address[1] = "policy"
        BY <3>2, <3>4
      <4>2. MadeBefore("policy") \subseteq NamesIn(Known)
        BY <3>4, <4>1 DEF PolicyInv
      <4>3. confirmed \in 0 .. L /\ confirmed <= L
        BY <2>1, <2>2 DEF TypeInv
      <4>4. Known.accounts \subseteq StateAt(L).accounts
        BY <2>1, <2>3, <4>3 DEF ChainInv, Known
      <4>5. NamesIn(Known) \subseteq NamesIn(StateAt(L))
        BY <4>4 DEF NamesIn, Accounts
      <4>6. "policy" \in NamesIn(b.state)
        BY <3>2 DEF NamesIn, Accounts
      <4> QED
        BY <3>1, <4>2, <4>5, <4>6, Before
    <3> QED
      BY <1>2, <2>1, <3>2, <3>3, <3>4
  <2>5. ASSUME NEW n \in 0 .. L + 1, Exists(<<"policy", 0>>, StateAt(n)')
        PROVE  MadeBefore("file") \subseteq NamesIn(StateAt(n)')
    <3>1. CASE n \in 0 .. L
      <4>1. StateAt(n)' = StateAt(n)
        BY <2>2, <3>1
      <4> QED
        BY <2>1, <2>5, <3>1, <4>1 DEF PolicyComesLast, NamesIn
    <3>2. CASE n = L + 1
      <4>1. StateAt(n)' = b.state
        BY <2>2, <3>2
      <4> QED
        BY <2>4, <2>5, <4>1
    <3> QED
      BY <2>3, <3>1, <3>2
  <2> QED
    BY <2>2, <2>5 DEF PolicyComesLast, NamesIn, Exists, Accounts
<1> QED
  BY <1>1, <1>2, BlockSteps

LEMMA FileStep ==
  ASSUME TypeInv, ChainInv, KeyInv, ProgressInv, [Next]_vars,
         deployment = "whole" => MadeBefore("file") \subseteq NamesIn(Known)
  PROVE  deployment' = "whole" => MadeBefore("file") \subseteq NamesIn(Known)'
<1>1. deployment' = "whole" => deployment = "whole" \/ Deploy
  BY DEF Next, Start, Script, Key, Skip, Send, Await, Check, Dies, Expires,
         Executes, Confirms, Finalizes, Use, vars, script
<1>2. ASSUME Deploy PROVE MadeBefore("file") \subseteq NamesIn(Known)
  <2>1. at > 0 /\ Here.kind = "file"
    BY <1>2 DEF Deploy
  <2>2. at = Len(Steps)
    BY <2>1, HereType, StepsForm DEF Here
  <2> QED
    BY <2>2, Before DEF ProgressInv
<1> QED
  BY <1>1, <1>2, NamesGrow

----------------------------------------------------------------------------
(* The theorems.                                                           *)

LEMMA Started == Init => IInv
<1> SUFFICES ASSUME Init PROVE IInv
  OBVIOUS
<1>1. /\ blocks = <<>> /\ confirmed = 0 /\ rooted = 0 /\ waiting = {} /\ at = 0 /\ run = 0
      /\ disk = [n \in Keyed |-> 0] /\ keys = [n \in Keyed |-> 0]
      /\ minted = [n \in Keyed |-> 0] /\ sent = FALSE /\ usedBefore = FALSE
      /\ deployment = "absent"
  BY DEF Init, ClusterInit, Absent
<1>2. Len(blocks) = 0 /\ blocks \in Seq(Block) /\ DOMAIN blocks = {}
  BY <1>1
<1>3. StateAt(0) = [accounts |-> {}, used |-> FALSE]
  BY BootstrapAssumption DEF BootstrapAssumption, StateAt
<1>4. TypeInv
  BY <1>1, <1>2, StepsForm DEF TypeInv
<1>5. AddressInv
  BY <1>1, <1>2 DEF AddressInv
<1>6. ChainInv
  BY <1>2, <1>3 DEF ChainInv
<1>7. KeyInv /\ ProgressInv /\ PolicyInv /\ UsedInv
  BY <1>1 DEF KeyInv, ProgressInv, PolicyInv, UsedInv
<1>8. \A n \in 0 .. Len(blocks) : ~Exists(<<"policy", 0>>, StateAt(n))
  BY <1>2, <1>3 DEF Exists
<1>9. DeploymentTrue
  BY <1>1, <1>8 DEF DeploymentTrue, PolicyComesLast, UsedIsRefused
<1> QED
  BY <1>4, <1>5, <1>6, <1>7, <1>9 DEF IInv

LEMMA TypeStep ==
  ASSUME TypeInv, ChainInv, KeyInv, ProgressInv, [Next]_vars
  PROVE  TypeInv'
<1>1. run' \in Nat
  BY DEF TypeInv, Next, Start, Script, Key, Skip, Send, Await, Check, Deploy, Dies, Expires,
         Executes, Confirms, Finalizes, Use, vars, script
<1>2. waiting' \subseteq Transaction
  BY WaitingStep, HerePlaced DEF TypeInv, Send
<1> QED
  BY <1>1, <1>2, KeyStep, ChainStep, ProgressStep DEF TypeInv

LEMMA Kept == IInv /\ [Next]_vars => IInv'
<1> SUFFICES ASSUME IInv, [Next]_vars PROVE IInv'
  OBVIOUS
<1>1. /\ TypeInv /\ AddressInv /\ ChainInv /\ KeyInv /\ ProgressInv /\ PolicyInv /\ UsedInv
      /\ PolicyComesLast /\ UsedIsRefused
      /\ deployment = "whole" => MadeBefore("file") \subseteq NamesIn(Known)
  BY DEF IInv, DeploymentTrue, NamesIn
<1>2. TypeInv' /\ AddressInv' /\ ChainInv' /\ KeyInv' /\ ProgressInv'
  BY <1>1, TypeStep, AddressStep, ChainStep, KeyStep, ProgressStep
<1>3. PolicyInv' /\ UsedInv' /\ PolicyComesLast' /\ UsedIsRefused'
  BY <1>1, PolicyStep, UsedStep, LastStep, RefusedStep
<1>4. deployment' = "whole" => MadeBefore("file") \subseteq NamesIn(Known)'
  BY <1>1, FileStep
<1> QED
  BY <1>2, <1>3, <1>4 DEF IInv, DeploymentTrue, NamesIn

LEMMA Invariant == Spec => []IInv
  BY Started, Kept, PTL DEF Spec

(* The latest state is one of a block, or has no accounts at all.          *)
LEMMA LatestPlaced ==
  ASSUME TypeInv, AddressInv, NEW a \in StateAt(Len(blocks)).accounts
  PROVE  Placed(a.address) /\ a.tokens = Tokens(a.address[1]) /\ a \in Account
<1>1. a \in Account
  <2>1. Len(blocks) \in 0 .. Len(blocks)
    BY DEF TypeInv
  <2> QED
    BY <2>1, StateType DEF ChainState
<1>2. CASE Len(blocks) = 0
  BY <1>2, BootstrapAssumption DEF BootstrapAssumption, StateAt
<1>3. CASE Len(blocks) # 0
  <2>1. Len(blocks) \in DOMAIN blocks /\ a \in blocks[Len(blocks)].state.accounts
    BY <1>3 DEF StateAt, TypeInv
  <2> QED
    BY <1>1, <2>1 DEF AddressInv
<1> QED
  BY <1>2, <1>3

(* Whatever the lists of wallets, mints and token accounts, and however    *)
(* often runs are killed, restarted early or outlived by their             *)
(* transactions, a name has at most one account and it was funded exactly  *)
(* once: the check for the account and the chain's refusal to make it      *)
(* twice together make the set-up repeatable.                              *)
THEOREM OnceFunded == Spec => []FundedOnce
<1>1. ASSUME IInv PROVE FundedOnce
  <2>1. TypeInv /\ AddressInv
    BY <1>1 DEF IInv
  <2>2. \A a \in StateAt(Len(blocks)).accounts : a.tokens = Tokens(a.address[1])
    BY <2>1, LatestPlaced
  <2>3. ASSUME NEW a \in StateAt(Len(blocks)).accounts,
               NEW b \in StateAt(Len(blocks)).accounts, a.address[1] = b.address[1]
        PROVE  a = b
    <3>1. /\ a \in Account /\ b \in Account
          /\ Placed(a.address) /\ Placed(b.address) /\ a.tokens = b.tokens
      BY <2>1, <2>3, LatestPlaced
    <3>2. a.address[2] = b.address[2]
      BY <2>3, <3>1 DEF Placed
    <3> QED
      BY <2>3, <3>1, <3>2 DEF Account
  <2> QED
    BY <2>2, <2>3 DEF FundedOnce
<1> QED
  BY <1>1, Invariant, PTL

(* A key is in its file before anything is sent to its address, and the    *)
(* file is never written again: no account is ever at a key that is lost.  *)
THEOREM KeysKept == Spec => []NoKeyLost
<1>1. ASSUME IInv PROVE NoKeyLost
  <2>1. TypeInv /\ AddressInv
    BY <1>1 DEF IInv
  <2>2. \A address \in Accounts(StateAt(Len(blocks))) : Placed(address)
    BY <2>1, LatestPlaced DEF Accounts
  <2>3. \A tx \in waiting : Placed(tx.address)
    BY <2>1 DEF AddressInv
  <2> QED
    BY <2>2, <2>3 DEF NoKeyLost, Placed
<1> QED
  BY <1>1, Invariant, PTL

(* A whole deployment file describes accounts that are confirmed, the      *)
(* policy is made after all it needs, and a run over a policy used before  *)
(* it began never gets past the check.                                     *)
THEOREM DeploymentHeld == Spec => []DeploymentTrue
<1>1. IInv => DeploymentTrue
  BY DEF IInv
<1> QED
  BY <1>1, Invariant, PTL
=============================================================================
