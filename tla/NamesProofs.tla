----------------------------- MODULE NamesProofs -----------------------------
(***************************************************************************)
(* Proofs about Names, for any directories, manifests, branches, labels and *)
(* hosts, any limit of a label and any width of a number, and about         *)
(* Environment, for any dotenv files, variables and ports.                  *)
(*                                                                          *)
(* Texts are searched for their first and last place of a kind and filtered *)
(* by a recursive function.  Both rest on the well-ordering of the natural  *)
(* numbers, which NatMin states without an operator parameter.              *)
(***************************************************************************)
EXTENDS Environment, FiniteSetTheorems, SequenceTheorems, WellFoundedInduction, TLAPS

LEMMA NatMin ==
  ASSUME NEW S, S \subseteq Nat, S # {}
  PROVE  \E m \in S : \A n \in S : m <= n
<1> DEFINE Less == {p \in Nat \X Nat : p[1] < p[2]}
<1>1. IsWellFoundedOn(Less, Nat)
  <2>1. OpToRel(<, Nat) = Less
    BY Zenon DEF OpToRel
  <2>2. QED
    BY <2>1, NatLessThanWellFounded
<1>2. \A m, n \in Nat : m < n => <<m, n>> \in Less
  OBVIOUS
<1> HIDE DEF Less
<1>3. PICK m \in S : \A n \in S : <<n, m>> \notin Less
  BY <1>1, WFMin
<1>4. \A n \in S : m <= n
  <2> TAKE n \in S
  <2>1. ~(n < m)
    BY <1>2, <1>3
  <2>2. m \in Nat /\ n \in Nat
    OBVIOUS
  <2>3. QED
    BY <2>1, <2>2
<1>5. QED
  BY <1>4

(* The first and the last place of a kind. *)
LEMMA FirstPlace ==
  ASSUME NEW n \in Nat, NEW S, S \subseteq 1 .. n, S # {}
  PROVE  First(S) \in S /\ \A i \in S : First(S) <= i
<1>1. S \subseteq Nat
  OBVIOUS
<1>2. \E m \in S : \A i \in S : m <= i
  BY <1>1, NatMin
<1>3. QED
  BY <1>2 DEF First

LEMMA LastPlace ==
  ASSUME NEW n \in Nat, NEW S, S \subseteq 1 .. n, S # {}
  PROVE  Last(S) \in S /\ \A i \in S : i <= Last(S)
<1> DEFINE Mirror == {n - i : i \in S}
<1>1. Mirror \subseteq Nat /\ Mirror # {}
  <2>1. \A i \in S : n - i \in Nat
    OBVIOUS
  <2>2. QED
    BY <2>1
<1>2. PICK m \in Mirror : \A k \in Mirror : m <= k
  BY <1>1, NatMin
<1>3. PICK l \in S : m = n - l
  BY <1>2
<1>4. \A i \in S : i <= l
  <2> TAKE i \in S
  <2>1. n - l <= n - i
    BY <1>2, <1>3
  <2>2. i \in Int /\ l \in Int
    OBVIOUS
  <2>3. QED
    BY <2>1, <2>2
<1>5. QED
  BY <1>4 DEF Last

-----------------------------------------------------------------------------
(* Picked: a filter keeps only what it was told to keep.                    *)
PickStep(text, S, out, n) ==
  IF n = 0 THEN <<>>
  ELSE IF n \in S THEN Append(out[n - 1], text[n]) ELSE out[n - 1]

PickedTo(text, S, out, n) == out = [i \in 0 .. n |-> PickStep(text, S, out, i)]

LEMMA PickedExists ==
  ASSUME NEW text, NEW S, NEW n \in Nat
  PROVE  \E out : PickedTo(text, S, out, n)
<1> DEFINE Bad == {k \in Nat : ~\E out : PickedTo(text, S, out, k)}
<1>1. SUFFICES ASSUME Bad # {} PROVE FALSE
  OBVIOUS
<1>2. PICK k \in Bad : \A i \in Bad : k <= i
  BY <1>1, NatMin
<1>3. CASE k = 0
  <2> DEFINE out == [i \in 0 .. 0 |-> <<>>]
  <2>1. out = [i \in 0 .. 0 |-> PickStep(text, S, out, i)]
    BY DEF PickStep
  <2>2. PickedTo(text, S, out, 0)
    BY <2>1 DEF PickedTo
  <2>3. QED
    BY <1>3, <2>2
<1>4. CASE k # 0
  <2>1. k \in Nat /\ k - 1 \in Nat /\ ~(k <= k - 1)
    BY <1>4
  <2>2. PICK old : PickedTo(text, S, old, k - 1)
    BY <1>2, <2>1
  <2> DEFINE out == [i \in 0 .. k |-> IF i = k THEN PickStep(text, S, old, k) ELSE old[i]]
  <2>3. \A i \in 0 .. k : out[i] = PickStep(text, S, out, i)
    <3> TAKE i \in 0 .. k
    <3>1. CASE i = k
      <4>1. k - 1 \in 0 .. k /\ out[k - 1] = old[k - 1]
        BY <2>1
      <4>2. QED
        BY <1>4, <3>1, <4>1 DEF PickStep
    <3>2. CASE i # k
      <4>1. i \in 0 .. k - 1 /\ out[i] = old[i]
        BY <2>1, <3>2
      <4>2. old[i] = PickStep(text, S, old, i)
        BY <2>2, <4>1 DEF PickedTo
      <4>3. i # 0 => out[i - 1] = old[i - 1]
        BY <2>1, <3>2
      <4>4. QED
        BY <4>1, <4>2, <4>3 DEF PickStep
    <3>3. QED
      BY <3>1, <3>2
  <2>4. PickedTo(text, S, out, k)
    BY <2>3 DEF PickedTo
  <2>5. QED
    BY <2>4
<1>5. QED
  BY <1>3, <1>4

LEMMA PickedSeq ==
  ASSUME NEW T, NEW text, Len(text) \in Nat, NEW S,
         \A i \in 1 .. Len(text) : i \in S => text[i] \in T
  PROVE  Picked(text, S) \in Seq(T)
<1> DEFINE out == CHOOSE o : PickedTo(text, S, o, Len(text))
<1>1. Picked(text, S) = out[Len(text)]
  BY DEF Picked, PickedTo, PickStep
<1>2. PickedTo(text, S, out, Len(text))
  BY PickedExists
<1> HIDE DEF out
<1>3. \A n \in 0 .. Len(text) : out[n] = PickStep(text, S, out, n)
  BY <1>2 DEF PickedTo
<1> DEFINE Bad == {n \in 0 .. Len(text) : out[n] \notin Seq(T)}
<1>4. Bad = {}
  <2>1. SUFFICES ASSUME Bad # {} PROVE FALSE
    OBVIOUS
  <2>2. PICK n \in Bad : \A i \in Bad : n <= i
    <3>1. Bad \subseteq Nat
      OBVIOUS
    <3>2. QED
      BY <2>1, <3>1, NatMin
  <2>3. n # 0
    BY <1>3, EmptySeq DEF PickStep
  <2>4. n - 1 \in 0 .. Len(text) /\ n \in 1 .. Len(text) /\ ~(n <= n - 1)
    BY <2>3
  <2>5. out[n - 1] \in Seq(T)
    BY <2>2, <2>4
  <2>6. n \in S => Append(out[n - 1], text[n]) \in Seq(T)
    BY <2>4, <2>5, AppendProperties
  <2>7. QED
    BY <1>3, <2>3, <2>5, <2>6 DEF PickStep
<1>5. QED
  BY <1>1, <1>4

-----------------------------------------------------------------------------
(* Texts. *)
LabelChars == Lower \cup Digit \cup {"-"}

LEMMA LowerCase ==
  ASSUME NEW text \in Text
  PROVE  /\ to_ascii_lowercase(text) \in Text
         /\ Len(to_ascii_lowercase(text)) = Len(text)
         /\ \A i \in 1 .. Len(text) :
              to_ascii_lowercase(text)[i] =
                IF text[i] \in DOMAIN LowerOf THEN LowerOf[text[i]] ELSE text[i]
<1> DEFINE low == to_ascii_lowercase(text)
<1>1. text \in [1 .. Len(text) -> Chars] /\ Len(text) \in Nat /\ DOMAIN text = 1 .. Len(text)
  BY LenProperties DEF Text
<1>2. low = [i \in 1 .. Len(text) |->
               IF text[i] \in DOMAIN LowerOf THEN LowerOf[text[i]] ELSE text[i]]
  BY <1>1 DEF to_ascii_lowercase
<1>3. \A c \in DOMAIN LowerOf : LowerOf[c] \in Chars
  BY TextAssumption DEF LowerOf, Lower
<1>4. low \in [1 .. Len(text) -> Chars]
  BY <1>1, <1>2, <1>3
<1> HIDE DEF low
<1>5. low \in Seq(Chars)
  BY <1>1, <1>4, SeqDef
<1>6. Len(low) = Len(text)
  BY <1>1, <1>4, <1>5, LenProperties
<1>7. QED
  BY <1>1, <1>2, <1>5, <1>6 DEF low, Text

(* Trimming keeps the characters there are, and leaves no hyphen at an end. *)
LEMMA TrimmedSeq ==
  ASSUME NEW T, NEW text \in Seq(T)
  PROVE  LET t == Trimmed(text) IN
         /\ t \in Seq(T) /\ Len(t) <= Len(text)
         /\ t # <<>> => t[1] # "-" /\ t[Len(t)] # "-"
<1> DEFINE Inner == {i \in DOMAIN text : text[i] # "-"}
           t == Trimmed(text)
<1>1. Len(text) \in Nat /\ DOMAIN text = 1 .. Len(text) /\ \A i \in 1 .. Len(text) : text[i] \in T
  BY LenProperties
<1>2. CASE Inner = {}
  BY <1>1, <1>2, EmptySeq DEF Trimmed
<1>3. CASE Inner # {}
  <2> DEFINE m == First(Inner)
             n == Last(Inner)
  <2>1. t = SubSeq(text, m, n)
    BY <1>3 DEF Trimmed
  <2>2. Inner \subseteq 1 .. Len(text)
    BY <1>1
  <2>3. /\ m \in Inner /\ n \in Inner /\ m <= n
        /\ m \in 1 .. Len(text) /\ n \in 1 .. Len(text)
    BY <1>1, <1>3, <2>2, FirstPlace, LastPlace
  <2>4. text[m] # "-" /\ text[n] # "-"
    BY <2>3
  <2> HIDE DEF m, n, t
  <2>5. /\ t \in Seq(T) /\ Len(t) = n - m + 1
        /\ \A i \in 1 .. n - m + 1 : t[i] = text[m + i - 1]
    <3>1. m \in Int /\ n \in Int /\ \A i \in m .. n : text[i] \in T
      BY <1>1, <2>3
    <3>2. QED
      BY <2>1, <2>3, <3>1, SubSeqProperties
  <2>6. t[1] = text[m] /\ t[Len(t)] = text[n]
    BY <2>3, <2>5
  <2>7. QED
    BY <1>1, <2>3, <2>4, <2>5, <2>6 DEF t
<1>4. QED
  BY <1>2, <1>3

LEMMA CappedSeq ==
  ASSUME NEW T, NEW text \in Seq(T)
  PROVE  LET t == Capped(text) IN
         /\ t \in Seq(T) /\ Len(t) <= MaxLabel
         /\ t # <<>> => t[1] # "-" /\ t[Len(t)] # "-"
<1> DEFINE t == Trimmed(text)
           u == SubSeq(t, 1, MaxLabel)
<1>1. t \in Seq(T) /\ Len(t) \in Nat /\ (t # <<>> => t[1] # "-" /\ t[Len(t)] # "-")
  BY TrimmedSeq, LenProperties
<1>2. MaxLabel \in Nat /\ MaxLabel >= 1
  BY NamesAssumption
<1>3. CASE Len(t) > MaxLabel
  <2>1. u \in Seq(T) /\ Len(u) = MaxLabel
    <3>1. \A i \in 1 .. MaxLabel : t[i] \in T
      BY <1>1, <1>2, <1>3, LenProperties
    <3>2. QED
      BY <1>2, <3>1, SubSeqProperties
  <2>2. Capped(text) = Trimmed(u)
    BY <1>3 DEF Capped
  <2> HIDE DEF u
  <2>3. QED
    BY <2>1, <2>2, TrimmedSeq
<1>4. CASE ~(Len(t) > MaxLabel)
  <2>1. Capped(text) = t
    BY <1>4 DEF Capped
  <2>2. QED
    BY <1>1, <1>2, <1>4, <2>1
<1>5. QED
  BY <1>3, <1>4

(* What a label is: what validate_dns_label admits, of texts.               *)
Label(text) == text \in Text /\ validate_dns_label(text)

LEMMA LabelOfSeq ==
  ASSUME NEW text \in Seq(LabelChars), text # <<>>, Len(text) <= MaxLabel,
         text[1] # "-", text[Len(text)] # "-"
  PROVE  Label(text)
<1>1. Len(text) \in Nat \ {0} /\ DOMAIN text = 1 .. Len(text)
      /\ \A i \in 1 .. Len(text) : text[i] \in LabelChars
  BY EmptySeq, LenProperties
<1>2. LabelChars \subseteq Chars
  BY TextAssumption DEF LabelChars
<1>3. text \in Text
  BY <1>2, SeqMonotonic DEF Text
<1>4. Len(text) \in 1 .. MaxLabel
  BY <1>1, NamesAssumption
<1>5. \A i \in DOMAIN text : Alnum(text[i]) \/ text[i] = "-"
  BY <1>1 DEF LabelChars, Alnum
<1>6. QED
  BY <1>3, <1>4, <1>5 DEF Label, validate_dns_label

LEMMA SanitizedLabel ==
  ASSUME NEW branch \in Text
  PROVE  LET t == sanitize_label(branch) IN
         t \in Text /\ (t # <<>> => Label(t))
<1> DEFINE Hyphened(c) == IF c \in {"/", "_"} THEN "-" ELSE c
           low == to_ascii_lowercase(branch)
           raw == [i \in DOMAIN low |-> Hyphened(low[i])]
           kept == {i \in DOMAIN raw : Alnum(raw[i]) \/ raw[i] = "-"}
           t == Capped(Picked(raw, kept))
<1>1. sanitize_label(branch) = t
  BY DEF sanitize_label
<1>2. low \in Text /\ Len(low) \in Nat /\ DOMAIN low = 1 .. Len(low)
  BY LowerCase, LenProperties DEF Text
<1>3. Len(raw) = Len(low)
  <2>1. \A i \in 1 .. Len(low) : Hyphened(low[i]) \in Chars
    BY <1>2, LenProperties, TextAssumption DEF Text
  <2>2. raw \in [1 .. Len(low) -> Chars]
    BY <1>2, <2>1
  <2> HIDE DEF raw
  <2>3. QED
    BY <1>2, <2>2, SeqDef, LenProperties
<1>4. \A i \in kept : raw[i] \in LabelChars
  BY DEF LabelChars, Alnum
<1> HIDE DEF raw, kept
<1>5. Picked(raw, kept) \in Seq(LabelChars)
  BY <1>2, <1>3, <1>4, PickedSeq
<1>6. t \in Seq(LabelChars) /\ Len(t) <= MaxLabel
      /\ (t # <<>> => t[1] # "-" /\ t[Len(t)] # "-")
  BY <1>5, CappedSeq
<1> HIDE DEF t
<1>7. t \in Text
  <2>1. LabelChars \subseteq Chars
    BY TextAssumption DEF LabelChars
  <2>2. QED
    BY <1>6, <2>1, SeqMonotonic DEF Text
<1>8. QED
  BY <1>1, <1>6, <1>7, LabelOfSeq

LEMMA SanitizedName ==
  ASSUME NEW dir \in Text
  PROVE  LET t == sanitize_name(dir) IN
         t \in Text /\ (t # <<>> => Label(t))
<1> DEFINE low == to_ascii_lowercase(dir)
           kept == {i \in DOMAIN low : i = 1 \/ Alnum(low[i]) \/ Alnum(low[i - 1])}
           dashed == [i \in DOMAIN low |-> IF Alnum(low[i]) THEN low[i] ELSE "-"]
           t == Capped(Picked(dashed, kept))
<1>1. sanitize_name(dir) = t
  BY DEF sanitize_name
<1>2. low \in Text /\ Len(low) \in Nat /\ DOMAIN low = 1 .. Len(low)
  BY LowerCase, LenProperties DEF Text
<1>3. dashed \in [1 .. Len(low) -> LabelChars]
  BY <1>2 DEF LabelChars, Alnum
<1> HIDE DEF dashed, kept
<1>4. Len(dashed) = Len(low) /\ \A i \in 1 .. Len(low) : dashed[i] \in LabelChars
  BY <1>2, <1>3, SeqDef, LenProperties
<1>5. Picked(dashed, kept) \in Seq(LabelChars)
  BY <1>2, <1>4, PickedSeq
<1>6. t \in Seq(LabelChars) /\ Len(t) <= MaxLabel
      /\ (t # <<>> => t[1] # "-" /\ t[Len(t)] # "-")
  BY <1>5, CappedSeq
<1> HIDE DEF t
<1>7. t \in Text
  <2>1. LabelChars \subseteq Chars
    BY TextAssumption DEF LabelChars
  <2>2. QED
    BY <1>6, <2>1, SeqMonotonic DEF Text
<1>8. QED
  BY <1>1, <1>6, <1>7, LabelOfSeq

-----------------------------------------------------------------------------
(* The registry.                                                            *)

(* A key that `add` accepts: a name, or a label and a name.                 *)
IsKey(key) ==
  \/ Label(key)
  \/ \E label, name \in Text : Label(label) /\ Label(name) /\ key = Key(label, name)

KeysInv ==
  \A key \in DOMAIN apps : apps[key] \in Dirs /\ IsKey(key) /\ key \notin RESERVED_NAMES

Written == Manifests \cup {build(d) : d \in Dirs}

ManifestsInv == manifest \in [Dirs -> Written \cup {None}]

SentInv ==
  sent # None =>
    /\ sent.dir \in Dirs /\ sent.label \in Text \cup {None}
    /\ sent.derived /\ sent.label # None => Label(sent.label)
    /\ sent.wrote # None => read_app_config(sent.wrote)

NInv == KeysInv /\ ManifestsInv /\ SentInv

LEMMA LabelSeq ==
  ASSUME NEW text, Label(text)
  PROVE  /\ text \in Seq(LabelChars) /\ text # <<>>
         /\ Len(text) \in Nat \ {0} /\ DOMAIN text = 1 .. Len(text)
<1>1. text \in Text /\ Len(text) \in Nat /\ DOMAIN text = 1 .. Len(text)
  BY LenProperties DEF Label, Text
<1>2. \A i \in 1 .. Len(text) : text[i] \in LabelChars
  BY <1>1 DEF Label, validate_dns_label, LabelChars, Alnum
<1>3. text \in [1 .. Len(text) -> LabelChars]
  <2>1. text \in [1 .. Len(text) -> Chars]
    BY <1>1, LenProperties DEF Text
  <2>2. QED
    BY <1>2, <2>1
<1>4. text \in Seq(LabelChars)
  BY <1>1, <1>3, SeqDef
<1>5. Len(text) # 0
  BY DEF Label, validate_dns_label
<1>6. text # <<>>
  BY <1>5, EmptySeq
<1>7. QED
  BY <1>1, <1>4, <1>5, <1>6

(* A key of two labels splits at its only dot. *)
LEMMA LabelledKey ==
  ASSUME NEW label, Label(label), NEW name, Label(name)
  PROVE  LET key == Key(label, name)
             dot == Len(label) + 1
         IN  /\ key \in Text
             /\ Len(key) = Len(label) + 1 + Len(name) /\ dot \in 2 .. Len(key) - 1
             /\ Len(key) \in Nat /\ DOMAIN key = 1 .. Len(key)
             /\ key[dot] = "."
             /\ \A i \in 1 .. Len(key) : i # dot => key[i] \in LabelChars
             /\ SubSeq(key, 1, dot - 1) = label /\ SubSeq(key, dot + 1, Len(key)) = name
<1> DEFINE C == LabelChars \cup {"."}
           ld == label \o <<".">>
           key == ld \o name
           dot == Len(label) + 1
<1>1. /\ label \in Seq(C) /\ name \in Seq(C)
      /\ Len(label) \in Nat \ {0} /\ Len(name) \in Nat \ {0}
      /\ \A i \in 1 .. Len(label) : label[i] \in LabelChars
      /\ \A i \in 1 .. Len(name) : name[i] \in LabelChars
  BY LabelSeq, SeqMonotonic, LenProperties
<1>2. <<".">> \in Seq(C) /\ Len(<<".">>) = 1 /\ <<".">>[1] = "."
  OBVIOUS
<1>3. Key(label, name) = key
  BY TextAssumption DEF Key, Label
<1> HIDE DEF C
<1>4. /\ ld \in Seq(C) /\ Len(ld) = dot
      /\ \A i \in 1 .. dot : ld[i] = IF i <= Len(label) THEN label[i] ELSE <<".">>[i - Len(label)]
  BY <1>1, <1>2, ConcatProperties
<1> HIDE DEF ld
<1>5. /\ key \in Seq(C) /\ Len(key) = dot + Len(name)
      /\ \A i \in 1 .. dot + Len(name) : key[i] = IF i <= dot THEN ld[i] ELSE name[i - dot]
  <2>1. ld \in Seq(C) /\ name \in Seq(C)
    BY <1>1, <1>4
  <2>2. /\ key \in Seq(C) /\ Len(key) = Len(ld) + Len(name)
        /\ \A i \in 1 .. Len(ld) + Len(name) :
             key[i] = IF i <= Len(ld) THEN ld[i] ELSE name[i - Len(ld)]
    BY <2>1, ConcatProperties
  <2> HIDE DEF key
  <2>3. QED
    BY <1>4, <2>2
<1> HIDE DEF key
<1>6. key[dot] = "." /\ dot \in 2 .. Len(key) - 1 /\ Len(key) = Len(label) + 1 + Len(name)
  BY <1>1, <1>2, <1>4, <1>5
<1>7. \A i \in 1 .. Len(label) : key[i] = label[i]
  BY <1>1, <1>4, <1>5
<1>8. \A i \in dot + 1 .. Len(key) : key[i] = name[i - dot] /\ i - dot \in 1 .. Len(name)
  BY <1>1, <1>5
<1>9. \A i \in 1 .. Len(key) : i # dot => key[i] \in LabelChars
  <2> TAKE i \in 1 .. Len(key)
  <2>1. CASE i \in 1 .. Len(label)
    BY <1>1, <1>7, <2>1
  <2>2. CASE i \in dot + 1 .. Len(key)
    BY <1>1, <1>8, <2>2
  <2>3. QED
    BY <1>1, <1>5, <2>1, <2>2
<1>10. SubSeq(key, 1, dot - 1) = label
  <2>1. \A i \in 1 .. Len(label) : key[i] \in C
    BY <1>1, <1>7, LenProperties
  <2>2. /\ SubSeq(key, 1, Len(label)) \in Seq(C)
        /\ Len(SubSeq(key, 1, Len(label))) = Len(label)
        /\ \A i \in 1 .. Len(label) : SubSeq(key, 1, Len(label))[i] = key[i]
    BY <1>1, <2>1, SubSeqProperties
  <2>3. SubSeq(key, 1, Len(label)) = label
    BY <1>1, <1>7, <2>2, SeqEqual
  <2>4. QED
    BY <1>1, <2>3
<1>11. SubSeq(key, dot + 1, Len(key)) = name
  <2>1. \A i \in dot + 1 .. Len(key) : key[i] \in C
    BY <1>1, <1>8, LenProperties
  <2>2. /\ SubSeq(key, dot + 1, Len(key)) \in Seq(C)
        /\ Len(SubSeq(key, dot + 1, Len(key))) = Len(name)
        /\ \A i \in 1 .. Len(name) : SubSeq(key, dot + 1, Len(key))[i] = key[dot + i]
    BY <1>1, <1>5, <2>1, SubSeqProperties
  <2>3. \A i \in 1 .. Len(name) : key[dot + i] = name[i]
    BY <1>1, <1>5, <1>8
  <2>4. QED
    BY <1>1, <2>2, <2>3, SeqEqual
<1>12. C \subseteq Chars
  BY TextAssumption DEF C, LabelChars
<1>13. key \in Text /\ Len(key) \in Nat /\ DOMAIN key = 1 .. Len(key)
  BY <1>5, <1>12, SeqMonotonic, LenProperties DEF Text
<1>14. QED
  BY <1>3, <1>6, <1>9, <1>10, <1>11, <1>13

LEMMA WrittenName ==
  ASSUME NEW cfg \in Written
  PROVE  cfg.name \in Text
<1>1. CASE cfg \in Manifests
  BY <1>1, TextAssumption
<1>2. ASSUME NEW d \in Dirs, cfg = build(d)
      PROVE  cfg.name \in Text
  <2>1. sanitize_name(Basename[d]) \in Text
    BY SanitizedName, TextAssumption
  <2>2. <<"app">> \in Text
    BY TextAssumption DEF Text, Lower
  <2>3. QED
    BY <1>2, <2>1, <2>2 DEF build
<1>3. QED
  BY <1>1, <1>2 DEF Written

(* What the client makes up. *)
LEMMA DetectedLabel ==
  ASSUME NEW label \in Detected, label # Failed, label # None
  PROVE  Label(label)
<1>1. PICK git \in Checkouts : label = detect_label(git)
  BY DEF Detected
<1>2. /\ git.kind = "worktree" /\ git.branch \notin {Detached, Failed}
      /\ sanitize_label(git.branch) # <<>> /\ label = sanitize_label(git.branch)
  BY <1>1 DEF detect_label
<1>3. git.branch \in Text
  BY <1>2, TextAssumption DEF Checkouts
<1>4. QED
  BY <1>2, <1>3, SanitizedLabel

LEMMA BuiltConfig ==
  ASSUME NEW d \in Dirs, Complete(d), build(d) # None
  PROVE  read_app_config(build(d))
<1>1. Label(sanitize_name(Basename[d]))
  BY SanitizedName, TextAssumption DEF Complete
<1>2. QED
  BY <1>1 DEF Complete, build, read_app_config, Label

LEMMA NInvInit == NamesInit => NInv
BY DEF NamesInit, NInv, KeysInv, ManifestsInv, SentInv

LEMMA ClientAddNInv ==
  ASSUME NInv, NEW d \in Dirs, NEW label, NEW derived \in BOOLEAN,
         ClientAdd(d, label, derived),
         label \in Text \cup {None, Failed},
         derived /\ label \notin {None, Failed} => Label(label)
  PROVE  NInv'
<1>1. KeysInv'
  BY DEF ClientAdd, NInv, KeysInv
<1>2. ManifestsInv'
  BY DEF ClientAdd, NInv, ManifestsInv, Written
<1>3. SentInv'
  <2> SUFFICES ASSUME sent' # None
               PROVE  /\ sent'.dir \in Dirs /\ sent'.label \in Text \cup {None}
                      /\ sent'.derived /\ sent'.label # None => Label(sent'.label)
                      /\ sent'.wrote # None => read_app_config(sent'.wrote)
    BY DEF SentInv
  <2> DEFINE wrote == IF manifest[d] = None THEN build(d) ELSE None
  <2>1. /\ ~(manifest[d] = None /\ ~Complete(d)) /\ label # Failed
        /\ sent' = [dir |-> d, label |-> label, derived |-> derived, wrote |-> wrote]
    BY DEF ClientAdd
  <2>2. wrote # None => read_app_config(wrote)
    BY <2>1, BuiltConfig
  <2> HIDE DEF wrote
  <2>3. QED
    BY <2>1, <2>2
<1>4. QED
  BY <1>1, <1>2, <1>3 DEF NInv

LEMMA AddNInv ==
  ASSUME NInv, Add
  PROVE  NInv'
<1> DEFINE cfg == manifest[sent.dir]
           key == Key(sent.label, cfg.name)
<1>1. sent # None /\ sent.dir \in Dirs /\ sent.label \in Text \cup {None}
  BY DEF Add, NInv, SentInv
<1>2. ManifestsInv' /\ SentInv'
  BY DEF Add, NInv, ManifestsInv, SentInv
<1>3. ASSUME read_app_config(cfg), cfg.name \notin RESERVED_NAMES, Takes(sent.label, key)
      PROVE  IsKey(key) /\ key \notin RESERVED_NAMES
  <2>1. cfg \in Written
    BY <1>1, <1>3 DEF NInv, ManifestsInv, read_app_config
  <2>2. Label(cfg.name)
    BY <1>3, <2>1, WrittenName DEF read_app_config, Label
  <2>3. CASE sent.label = None
    BY <1>3, <2>2, <2>3 DEF Key, IsKey
  <2>4. CASE sent.label # None
    <3>1. Label(sent.label)
      BY <1>1, <1>3, <2>4 DEF Takes, Label
    <3>2. IsKey(key)
      BY <2>2, <3>1 DEF IsKey, Label
    <3>3. Len(key) >= 3 /\ key[Len(sent.label) + 1] = "." /\ Len(sent.label) + 1 \in 2 .. Len(key) - 1
      <4>1. /\ Len(sent.label) + 1 \in 2 .. Len(key) - 1 /\ Len(key) \in Nat
            /\ key[Len(sent.label) + 1] = "."
        BY <2>2, <3>1, LabelledKey
      <4>2. Len(sent.label) \in Nat
        BY <3>1, LabelSeq
      <4> HIDE DEF key
      <4>3. QED
        BY <4>1, <4>2
    <3>4. key # Status
      BY <3>3 DEF Status
    <3>5. key # Verify
      <4>1. Len(Verify) = 7 /\ \A i \in 1 .. 7 : Verify[i] # "."
        BY DEF Verify
      <4>2. QED
        BY <3>3, <4>1
    <3>6. QED
      BY <3>2, <3>4, <3>5 DEF RESERVED_NAMES
  <2>5. QED
    BY <2>3, <2>4
<1>4. KeysInv'
  <2>1. CASE UNCHANGED apps
    BY <2>1 DEF NInv, KeysInv
  <2>2. CASE ~UNCHANGED apps
    <3>1. /\ apps' = [k \in DOMAIN apps \cup {key} |-> IF k = key THEN sent.dir ELSE apps[k]]
          /\ read_app_config(cfg) /\ cfg.name \notin RESERVED_NAMES /\ Takes(sent.label, key)
      BY <2>2 DEF Add
    <3>2. IsKey(key) /\ key \notin RESERVED_NAMES
      BY <1>3, <3>1
    <3> HIDE DEF key
    <3>3. QED
      BY <1>1, <3>1, <3>2 DEF NInv, KeysInv
  <2>3. QED
    BY <2>1, <2>2
<1>5. QED
  BY <1>2, <1>4 DEF NInv

LEMMA NInvStep == NInv /\ [NamesNext]_namesVars => NInv'
<1> SUFFICES ASSUME NInv, [NamesNext]_namesVars PROVE NInv'
  OBVIOUS
<1>1. ASSUME NEW d \in Dirs, Edit(d)
      PROVE  NInv'
  BY <1>1 DEF Edit, NInv, KeysInv, ManifestsInv, SentInv, Written
<1>2. ASSUME NEW d \in Dirs, NEW label \in Labels, ClientAdd(d, label, FALSE)
      PROVE  NInv'
  BY <1>2, ClientAddNInv, TextAssumption
<1>3. ASSUME NEW d \in Dirs, NEW label \in Detected, ClientAdd(d, label, TRUE)
      PROVE  NInv'
  <2>1. label \notin {None, Failed} => Label(label)
    BY DetectedLabel
  <2>2. QED
    BY <1>3, <2>1, ClientAddNInv DEF Label
<1>4. CASE Add
  BY <1>4, AddNInv
<1>5. ASSUME NEW key \in DOMAIN apps, Remove(key)
      PROVE  NInv'
  BY <1>5 DEF Remove, NInv, KeysInv, ManifestsInv, SentInv
<1>6. CASE UNCHANGED namesVars
  BY <1>6 DEF namesVars, NInv, KeysInv, ManifestsInv, SentInv
<1>7. QED
  BY <1>1, <1>2, <1>3, <1>4, <1>5, <1>6 DEF NamesNext

LEMMA NInvHolds == NamesSpec => []NInv
BY NInvInit, NInvStep, PTL DEF NamesSpec

(* Every key in the registry splits, at its only dot, into DNS labels, and  *)
(* belongs to a directory: for any sequence of edits, adds and removals,    *)
(* whatever --label, the branch and the manifest say.                       *)
THEOREM NamesTypeCorrect == NamesSpec => []NamesTypeOK
<1>1. ASSUME NInv
      PROVE  NamesTypeOK
  <2>1. ASSUME NEW key \in DOMAIN apps, ~validate_dns_label(key)
        PROVE  \E i \in DOMAIN key :
                 /\ key[i] = "."
                 /\ validate_dns_label(SubSeq(key, 1, i - 1))
                 /\ validate_dns_label(SubSeq(key, i + 1, Len(key)))
    <3>1. PICK label \in Text, name \in Text :
            Label(label) /\ Label(name) /\ key = Key(label, name)
      BY <1>1, <2>1 DEF NInv, KeysInv, IsKey, Label
    <3> DEFINE dot == Len(label) + 1
    <3>2. /\ dot \in 1 .. Len(key) /\ DOMAIN key = 1 .. Len(key) /\ key[dot] = "."
          /\ SubSeq(key, 1, dot - 1) = label /\ SubSeq(key, dot + 1, Len(key)) = name
      <4> DEFINE made == Key(label, name)
      <4>1. /\ dot \in 2 .. Len(made) - 1 /\ Len(made) \in Nat
            /\ DOMAIN made = 1 .. Len(made) /\ made[dot] = "."
            /\ SubSeq(made, 1, dot - 1) = label /\ SubSeq(made, dot + 1, Len(made)) = name
        BY <3>1, LabelledKey
      <4> HIDE DEF dot
      <4>2. dot \in 1 .. Len(made)
        BY <4>1
      <4>3. QED
        BY <3>1, <4>1, <4>2
    <3> HIDE DEF dot
    <3>3. validate_dns_label(label) /\ validate_dns_label(name)
      BY <3>1 DEF Label
    <3>4. dot \in DOMAIN key
      BY <3>2
    <3>5. /\ validate_dns_label(SubSeq(key, 1, dot - 1))
          /\ validate_dns_label(SubSeq(key, dot + 1, Len(key)))
      BY <3>2, <3>3
    <3>6. QED
      BY <3>2, <3>4, <3>5
  <2>2. QED
    BY <1>1, <2>1, NamesAssumption, TextAssumption
       DEF NInv, KeysInv, SentInv, NamesTypeOK
<1>2. QED
  BY <1>1, NInvHolds, PTL

(* What the client makes up is well-formed: every label that sanitize_label *)
(* makes of a branch is a DNS label, however long the branch, wherever it   *)
(* is cut, and so is every name that sanitize_name makes of a directory.    *)
THEOREM DerivedNamesValidHolds == NamesSpec => []DerivedNamesValid
<1>1. NInv => DerivedNamesValid
  BY DEF NInv, SentInv, DerivedNamesValid, Label
<1>2. QED
  BY <1>1, NInvHolds, PTL

(* The name at the end of a key. *)
LEMMA BaseName ==
  ASSUME NEW name, Label(name), NEW label, label = None \/ Label(label)
  PROVE  base_name(Key(label, name)) = name
<1>1. "." \notin LabelChars
  BY DEF LabelChars, Lower, Digit
<1>2. CASE label = None
  <2>1. DOMAIN name = 1 .. Len(name) /\ \A i \in 1 .. Len(name) : name[i] \in LabelChars
    BY LabelSeq, LenProperties
  <2>2. ~Has(name, ".")
    BY <1>1, <2>1 DEF Has
  <2>3. QED
    BY <1>2, <2>2 DEF base_name, Key
<1>3. CASE label # None
  <2> DEFINE key == Key(label, name)
             dot == Len(label) + 1
  <2>1. Label(label)
    BY <1>3
  <2>2. /\ dot \in 2 .. Len(key) - 1 /\ Len(key) \in Nat /\ DOMAIN key = 1 .. Len(key)
        /\ key[dot] = "." /\ \A i \in 1 .. Len(key) : i # dot => key[i] \in LabelChars
        /\ SubSeq(key, dot + 1, Len(key)) = name
    BY <2>1, LabelledKey
  <2> HIDE DEF key, dot
  <2>3. Positions(key, ".") = {dot} /\ Has(key, ".")
    BY <1>1, <2>2 DEF Positions, Has
  <2>4. First({dot}) = dot
    BY <2>2 DEF First
  <2>5. base_name(key) = name
    BY <2>2, <2>3, <2>4 DEF base_name
  <2>6. QED
    BY <2>5 DEF key
<1>4. QED
  BY <1>2, <1>3

(* agent-docs prints the key the daemon is about to make: the two derive it *)
(* each on its own, one from the registry and the branch, the other from a  *)
(* request sent before, and they agree because every key ends in the name   *)
(* of the manifest it was made from.                                        *)
THEOREM DocKeyAddedHolds == NamesSpec => DocKeyAdded
<1> DEFINE Printed(add) ==
      Add /\ add.derived /\ apps' # apps =>
        /\ \A key \in emit(add.dir, add.label)' :
             key \in DOMAIN apps' /\ apps'[key] = add.dir /\ Boots(key)'
        /\ registered_key(add.dir) = {} =>
             emit(add.dir, add.label)' = emit(add.dir, add.label)
<1>1. ASSUME NInv, NEW add \in {sent}
      PROVE  Printed(add)
  <2> SUFFICES ASSUME Add, add.derived, apps' # apps
               PROVE  /\ \A key \in emit(add.dir, add.label)' :
                           key \in DOMAIN apps' /\ apps'[key] = add.dir /\ Boots(key)'
                      /\ registered_key(add.dir) = {} =>
                           emit(add.dir, add.label)' = emit(add.dir, add.label)
    OBVIOUS
  <2> DEFINE d == add.dir
             label == add.label
             cfg == manifest[d]
             key == Key(label, cfg.name)
  <2>1. /\ sent # None /\ sent = add /\ manifest' = manifest
        /\ read_app_config(cfg) /\ Takes(label, key)
        /\ apps' = [k \in DOMAIN apps \cup {key} |-> IF k = key THEN d ELSE apps[k]]
    BY DEF Add
  <2>2. d \in Dirs /\ (label = None \/ Label(label)) /\ label # Failed
    BY <1>1, <2>1, NamesAssumption, TextAssumption DEF NInv, SentInv, Label
  <2>3. Label(cfg.name)
    <3>1. cfg \in Written
      BY <1>1, <2>1, <2>2 DEF NInv, ManifestsInv, read_app_config
    <3>2. QED
      BY <2>1, <3>1, WrittenName DEF read_app_config, Label
  <2>4. base_name(key) = cfg.name
    BY <2>2, <2>3, BaseName
  <2>5. derive_key(label, cfg.name) = key
    BY <2>2 DEF derive_key
  <2> HIDE DEF d, label, cfg, key
  <2>6. registered_key(d)' = {k \in DOMAIN apps' : apps'[k] = d /\ base_name(k) = cfg.name}
    BY <2>1 DEF registered_key, cfg
  <2>7. registered_key(d)' = registered_key(d) \cup {key}
    BY <2>1, <2>4, <2>6 DEF registered_key, cfg, Takes
  <2>8. emit(d, label)' = registered_key(d)'
    BY <2>7 DEF emit
  <2>9. \A k \in registered_key(d)' : k \in DOMAIN apps' /\ apps'[k] = d /\ Boots(k)'
    <3> SUFFICES ASSUME NEW k \in registered_key(d)'
                 PROVE  k \in DOMAIN apps' /\ apps'[k] = d /\ Boots(k)'
      OBVIOUS
    <3>1. k \in DOMAIN apps' /\ apps'[k] = d /\ base_name(k) = cfg.name
      BY <2>6
    <3>2. Boots(k)'
      BY <2>1, <3>1 DEF Boots, cfg
    <3>3. QED
      BY <3>1, <3>2
  <2>10. registered_key(d) = {} => emit(d, label)' = emit(d, label)
    BY <2>5, <2>7, <2>8 DEF emit, cfg
  <2>11. QED
    BY <2>8, <2>9, <2>10 DEF d, label
<1>2. NInv => \A add \in {sent} : Printed(add)
  BY <1>1
<1>3. QED
  BY <1>2, NInvHolds, PTL DEF DocKeyAdded

-----------------------------------------------------------------------------
(* Where a host leads.                                                      *)
KeyChars == LabelChars \cup {"."}

LEMMA KeyShape ==
  ASSUME NEW key, IsKey(key)
  PROVE  /\ key \in Seq(KeyChars) /\ key \in Text
         /\ Len(key) \in Nat \ {0} /\ DOMAIN key = 1 .. Len(key)
         /\ Cardinality(Positions(key, ".")) <= 1
         /\ Positions(key, ".") \cap {1, Len(key)} = {}
<1>1. CASE Label(key)
  <2>1. /\ key \in Seq(LabelChars) /\ Len(key) \in Nat \ {0} /\ DOMAIN key = 1 .. Len(key)
        /\ \A i \in 1 .. Len(key) : key[i] \in LabelChars
    BY <1>1, LabelSeq, LenProperties
  <2>2. "." \notin LabelChars
    BY DEF LabelChars, Lower, Digit
  <2>3. Positions(key, ".") = {}
    BY <2>1, <2>2 DEF Positions
  <2>4. Cardinality(Positions(key, ".")) = 0
    BY <2>3, FS_EmptySet
  <2>5. key \in Seq(KeyChars)
    BY <2>1, SeqMonotonic DEF KeyChars
  <2>6. QED
    BY <1>1, <2>1, <2>3, <2>4, <2>5 DEF Label
<1>2. CASE ~Label(key)
  <2>1. PICK label \in Text, name \in Text :
          Label(label) /\ Label(name) /\ key = Key(label, name)
    BY <1>2 DEF IsKey
  <2> DEFINE dot == Len(label) + 1
  <2>2. /\ key \in Text /\ dot \in 2 .. Len(key) - 1
        /\ Len(key) \in Nat /\ DOMAIN key = 1 .. Len(key)
        /\ key[dot] = "." /\ \A i \in 1 .. Len(key) : i # dot => key[i] \in LabelChars
    BY <2>1, LabelledKey
  <2> HIDE DEF dot
  <2>3. "." \notin LabelChars
    BY DEF LabelChars, Lower, Digit
  <2>4. Positions(key, ".") = {dot}
    BY <2>2, <2>3 DEF Positions
  <2>5. Cardinality(Positions(key, ".")) = 1
    BY <2>4, FS_Singleton
  <2>6. key \in Seq(KeyChars)
    <3>1. key \in [1 .. Len(key) -> Chars]
      BY <2>2, LenProperties DEF Text
    <3>2. \A i \in 1 .. Len(key) : key[i] \in KeyChars
      BY <2>2 DEF KeyChars
    <3>3. key \in [1 .. Len(key) -> KeyChars]
      BY <3>1, <3>2
    <3>4. QED
      BY <2>2, <3>3, SeqDef
  <2>7. QED
    BY <2>2, <2>4, <2>5, <2>6
<1>3. QED
  BY <1>1, <1>2

(* What is in lower case already stays as it is, and a text that is a key   *)
(* in lower case has none of the characters that no key has.                *)
LEMMA LowerOfKey ==
  ASSUME NEW text \in Seq(KeyChars)
  PROVE  text \in Text /\ to_ascii_lowercase(text) = text
<1>1. KeyChars \cap DOMAIN LowerOf = {}
  BY DEF KeyChars, LabelChars, Lower, Digit, LowerOf
<1>2. KeyChars \subseteq Chars
  BY TextAssumption DEF KeyChars, LabelChars
<1>3. text \in Text
  BY <1>2, SeqMonotonic DEF Text
<1>4. Len(text) \in Nat /\ \A i \in 1 .. Len(text) : text[i] \in KeyChars
  BY LenProperties
<1>5. \A i \in 1 .. Len(text) : to_ascii_lowercase(text)[i] = text[i]
  BY <1>1, <1>3, <1>4, LowerCase
<1>6. to_ascii_lowercase(text) \in Text /\ Len(to_ascii_lowercase(text)) = Len(text)
  BY <1>3, LowerCase
<1>7. QED
  BY <1>3, <1>5, <1>6, SeqEqual DEF Text

LEMMA HostOfKey ==
  ASSUME NEW key, IsKey(key)
  PROVE  LET h == key \o Suffix IN
         /\ h \in Seq(KeyChars) /\ Len(h) = Len(key) + Len(Suffix) /\ Len(Suffix) = 4
         /\ \A i \in 1 .. Len(key) : h[i] = key[i]
         /\ \A i \in 1 .. 4 : h[Len(key) + i] = Suffix[i]
<1>1. Suffix \in Seq(KeyChars) /\ Len(Suffix) = 4
  BY DEF Suffix, KeyChars, LabelChars, Lower
<1>2. key \in Seq(KeyChars) /\ Len(key) \in Nat
  BY KeyShape
<1> HIDE DEF Suffix
<1>3. /\ key \o Suffix \in Seq(KeyChars) /\ Len(key \o Suffix) = Len(key) + Len(Suffix)
      /\ \A i \in 1 .. Len(key) + Len(Suffix) :
           (key \o Suffix)[i] = IF i <= Len(key) THEN key[i] ELSE Suffix[i - Len(key)]
  BY <1>1, <1>2, ConcatProperties
<1>4. QED
  BY <1>1, <1>2, <1>3

(* Cutting a text at its front. *)
LEMMA Front ==
  ASSUME NEW T, NEW text \in Seq(T), NEW n \in 0 .. Len(text)
  PROVE  LET t == SubSeq(text, 1, n) IN
         t \in Seq(T) /\ Len(t) = n /\ \A i \in 1 .. n : t[i] = text[i]
<1>1. Len(text) \in Nat /\ \A i \in 1 .. Len(text) : text[i] \in T
  BY LenProperties
<1>2. 1 \in Int /\ n \in Int /\ \A i \in 1 .. n : text[i] \in T
  BY <1>1
<1>3. /\ SubSeq(text, 1, n) \in Seq(T)
      /\ Len(SubSeq(text, 1, n)) = IF 1 <= n THEN n - 1 + 1 ELSE 0
      /\ \A i \in 1 .. n - 1 + 1 : SubSeq(text, 1, n)[i] = text[1 + i - 1]
  BY <1>2, SubSeqProperties
<1>4. QED
  BY <1>1, <1>3

(* strip_port takes a host as it is, or cuts it at a colon before digits.   *)
LEMMA StripPort ==
  ASSUME NEW host \in Text
  PROVE  \E n \in 0 .. Len(host) :
           /\ strip_port(host) = SubSeq(host, 1, n)
           /\ n < Len(host) => host[n + 1] = ":"
           /\ \A i \in n + 2 .. Len(host) : host[i] \in Digit
<1> DEFINE colons == Positions(host, ":")
<1>1. Len(host) \in Nat /\ DOMAIN host = 1 .. Len(host)
  BY LenProperties DEF Text
<1>2. CASE strip_port(host) = host
  <2>1. SubSeq(host, 1, Len(host)) = host
    BY SubSeqFull DEF Text
  <2>2. /\ Len(host) \in 0 .. Len(host) /\ ~(Len(host) < Len(host))
        /\ Len(host) + 2 .. Len(host) = {}
    BY <1>1
  <2>3. QED
    BY <1>2, <2>1, <2>2
<1>3. CASE strip_port(host) # host
  <2>1. /\ colons # {} /\ \A i \in Last(colons) + 1 .. Len(host) : host[i] \in Digit
        /\ strip_port(host) = SubSeq(host, 1, Last(colons) - 1)
    BY <1>3 DEF strip_port
  <2>2. colons \subseteq 1 .. Len(host) /\ \A i \in colons : host[i] = ":"
    BY <1>1 DEF Positions
  <2>3. Last(colons) \in colons
    BY <1>1, <2>1, <2>2, LastPlace
  <2> DEFINE n == Last(colons) - 1
  <2>4. n \in 0 .. Len(host) /\ host[n + 1] = ":" /\ n + 2 = Last(colons) + 1
    BY <1>1, <2>2, <2>3
  <2>5. QED
    BY <2>1, <2>4
<1>4. QED
  BY <1>2, <1>3

(* A host that `handle` takes for an app's spells the app's key.            *)
LEMMA Reached ==
  ASSUME NEW host \in Text, NEW key, IsKey(key), handle(host) = <<"app", key>>
  PROVE  Spells(host, key)
<1> DEFINE h == strip_port(host)
           full == key \o Suffix
           low == to_ascii_lowercase(h)
           n == Len(h) - Len(Suffix)
<1>1. name_from_host(h) = key /\ key # None
  <2>1. name_from_host(h) # None
    BY DEF handle
  <2>2. handle(host) = <<"app", name_from_host(h)>>
    <3>1. handle(host) \notin {<<"not found">>, <<"status">>, <<"verify">>}
      OBVIOUS
    <3>2. QED
      BY <2>1, <3>1 DEF handle
  <2>3. QED
    BY <2>1, <2>2
<1>2. PICK m \in 0 .. Len(host) :
        /\ h = SubSeq(host, 1, m)
        /\ m < Len(host) => host[m + 1] = ":"
        /\ \A i \in m + 2 .. Len(host) : host[i] \in Digit
  BY StripPort
<1> HIDE DEF h
<1>3. h \in Text /\ Len(h) = m /\ Len(host) \in Nat
  BY <1>2, Front, LenProperties DEF Text
<1>4. low \in Text /\ Len(low) = m
  BY <1>3, LowerCase
<1>5. /\ n > 0 /\ SubSeq(low, 1, n) = key /\ SubSeq(low, n + 1, Len(h)) = Suffix
  BY <1>1 DEF name_from_host
<1>6. full \in Seq(KeyChars) /\ Len(full) = Len(key) + 4 /\ Len(Suffix) = 4
      /\ (\A i \in 1 .. Len(key) : full[i] = key[i])
      /\ \A i \in 1 .. 4 : full[Len(key) + i] = Suffix[i]
  BY HostOfKey
<1> HIDE DEF full, low
<1>7. n = m - 4 /\ n \in 1 .. m /\ m \in Nat
  BY <1>3, <1>5, <1>6
<1> HIDE DEF n
<1>8. Len(key) = n /\ \A i \in 1 .. n : key[i] = low[i]
  <2>1. low \in Seq(Chars) /\ n \in 0 .. Len(low)
    BY <1>4, <1>7 DEF Text
  <2>2. Len(SubSeq(low, 1, n)) = n /\ \A i \in 1 .. n : SubSeq(low, 1, n)[i] = low[i]
    BY <2>1, Front
  <2>3. QED
    BY <1>5, <2>2
<1>9. \A i \in 1 .. 4 : Suffix[i] = low[n + i]
  <2>1. \A i \in n + 1 .. m : low[i] \in Chars
    BY <1>4, <1>7, LenProperties DEF Text
  <2>2. \A i \in 1 .. m - (n + 1) + 1 : SubSeq(low, n + 1, m)[i] = low[(n + 1) + i - 1]
    BY <1>7, <2>1, SubSeqProperties
  <2>3. QED
    BY <1>3, <1>5, <1>7, <2>2
<1>10. low = full
  <2>1. full \in Text
    BY <1>6, LowerOfKey
  <2>2. \A i \in 1 .. m : low[i] = full[i]
    <3> TAKE i \in 1 .. m
    <3>1. CASE i <= n
      <4>1. i \in 1 .. n /\ i \in 1 .. Len(key)
        BY <1>7, <1>8, <3>1
      <4>2. QED
        BY <1>6, <1>8, <4>1
    <3>2. CASE i > n
      <4>1. i - n \in 1 .. 4 /\ i = n + (i - n)
        BY <1>7, <3>2
      <4>2. QED
        BY <1>6, <1>8, <1>9, <4>1
    <3>3. QED
      BY <1>7, <3>1, <3>2
  <2>3. QED
    BY <1>4, <1>6, <1>7, <1>8, <2>1, <2>2, SeqEqual DEF Text
<1>11. to_ascii_lowercase(SubSeq(host, 1, m)) = to_ascii_lowercase(full)
  BY <1>2, <1>6, <1>10, LowerOfKey DEF low
<1>12. Len(key) + Len(Suffix) = m
  BY <1>6, <1>7, <1>8
<1>13. QED
  BY <1>2, <1>3, <1>11, <1>12 DEF Spells, full

(* ... and only such a host: one that spells the key of an app leads to it. *)
LEMMA SpelledStripped ==
  ASSUME NEW host \in Text, NEW key, IsKey(key), Spells(host, key)
  PROVE  LET n == Len(key) + Len(Suffix)
             h == strip_port(host)
         IN  /\ h \in Text /\ Len(h) = n /\ n \in Nat
             /\ to_ascii_lowercase(h) = key \o Suffix
<1> DEFINE n == Len(key) + Len(Suffix)
           h == SubSeq(host, 1, n)
           full == key \o Suffix
           colons == Positions(host, ":")
<1>1. full \in Seq(KeyChars) /\ Len(full) = n /\ n \in Nat
  BY HostOfKey, KeyShape
<1>2. full \in Text /\ to_ascii_lowercase(full) = full
  BY <1>1, LowerOfKey
<1>3. /\ n <= Len(host) /\ to_ascii_lowercase(h) = to_ascii_lowercase(full)
      /\ n < Len(host) => host[n + 1] = ":"
      /\ \A i \in n + 2 .. Len(host) : host[i] \in Digit
  BY DEF Spells
<1> HIDE DEF n, full
<1>4. Len(host) \in Nat /\ DOMAIN host = 1 .. Len(host) /\ n \in 0 .. Len(host)
  BY <1>1, <1>3, LenProperties DEF Text
<1>5. h \in Text /\ Len(h) = n /\ \A i \in 1 .. n : h[i] = host[i]
  BY <1>4, Front DEF Text
<1> HIDE DEF h
<1>6. \A i \in 1 .. n : host[i] # ":"
  <2> TAKE i \in 1 .. n
  <2>1. to_ascii_lowercase(h)[i] \in KeyChars
    BY <1>1, <1>2, <1>3, LenProperties
  <2>2. ":" \notin KeyChars
    BY DEF KeyChars, LabelChars, Lower, Digit
  <2>3. h[i] = ":" => to_ascii_lowercase(h)[i] = ":"
    <3>1. ":" \notin DOMAIN LowerOf
      BY DEF LowerOf
    <3>2. QED
      BY <1>5, <3>1, LowerCase
  <2>4. QED
    BY <1>5, <2>1, <2>2, <2>3
<1>7. ":" \notin Digit
  BY DEF Digit
<1>8. strip_port(host) = h
  <2>1. CASE n = Len(host)
    <3>1. colons = {}
      BY <1>4, <1>6, <2>1 DEF Positions
    <3>2. h = host
      BY <2>1, SubSeqFull DEF h, Text
    <3>3. QED
      BY <3>1, <3>2 DEF strip_port
  <2>2. CASE n # Len(host)
    <3>0. n < Len(host)
      <4>1. n \in Int /\ Len(host) \in Int /\ n <= Len(host)
        BY <1>4
      <4>2. QED
        BY <2>2, <4>1
    <3>1. colons = {n + 1}
      <4>1. \A i \in 1 .. Len(host) : host[i] = ":" => i = n + 1
        <5> TAKE i \in 1 .. Len(host)
        <5>1. i \in 1 .. n \/ i = n + 1 \/ i \in n + 2 .. Len(host)
          BY <1>4
        <5>2. QED
          BY <1>3, <1>6, <1>7, <5>1
      <4>2. n + 1 \in 1 .. Len(host) /\ host[n + 1] = ":"
        BY <1>3, <1>4, <3>0
      <4>3. QED
        BY <1>4, <4>1, <4>2 DEF Positions
    <3>2. colons \subseteq 1 .. Len(host) /\ colons # {}
      BY <1>4, <3>1 DEF Positions
    <3> HIDE DEF colons
    <3>3. Last(colons) = n + 1
      BY <1>4, <3>1, <3>2, LastPlace
    <3>4. Last(colons) - 1 = n /\ Last(colons) + 1 = n + 2
      BY <1>4, <3>3
    <3>5. \A i \in Last(colons) + 1 .. Len(host) : host[i] \in Digit
      BY <1>3, <3>4
    <3>6. SubSeq(host, 1, Last(colons) - 1) = h
      BY <3>4 DEF h
    <3>7. QED
      BY <3>2, <3>5, <3>6 DEF strip_port, colons
  <2>3. QED
    BY <2>1, <2>2
<1>9. QED
  BY <1>1, <1>2, <1>3, <1>5, <1>8 DEF n, full

LEMMA Spelled ==
  ASSUME NEW host \in Text, NEW key \in DOMAIN apps, IsKey(key),
         key \notin RESERVED_NAMES, Spells(host, key)
  PROVE  handle(host) = <<"app", key>>
<1> DEFINE h == strip_port(host)
           full == key \o Suffix
           n == Len(h) - Len(Suffix)
           low == to_ascii_lowercase(h)
<1>1. /\ h \in Text /\ Len(h) = Len(key) + Len(Suffix) /\ low = full
  BY SpelledStripped
<1>2. /\ key \in Seq(KeyChars) /\ key \in Text /\ Len(key) \in Nat \ {0}
      /\ DOMAIN key = 1 .. Len(key)
      /\ Cardinality(Positions(key, ".")) <= 1
      /\ Positions(key, ".") \cap {1, Len(key)} = {}
  BY KeyShape
<1>3. /\ full \in Seq(KeyChars) /\ Len(full) = Len(key) + 4 /\ Len(Suffix) = 4
      /\ (\A i \in 1 .. Len(key) : full[i] = key[i])
      /\ \A i \in 1 .. 4 : full[Len(key) + i] = Suffix[i]
  BY HostOfKey
<1> HIDE DEF full, low, h
<1>4. n = Len(key) /\ n \in Nat \ {0} /\ Len(full) = n + 4 /\ Len(h) = n + 4
  BY <1>1, <1>2, <1>3
<1> HIDE DEF n
<1>5. SubSeq(low, 1, n) = key
  <2>1. n \in 0 .. Len(full)
    BY <1>4
  <2>2. /\ SubSeq(full, 1, n) \in Seq(KeyChars) /\ Len(SubSeq(full, 1, n)) = n
        /\ \A i \in 1 .. n : SubSeq(full, 1, n)[i] = full[i]
    BY <1>3, <2>1, Front
  <2>3. SubSeq(full, 1, n) = key
    BY <1>2, <1>3, <1>4, <2>2, SeqEqual
  <2>4. QED
    BY <1>1, <2>3
<1>6. SubSeq(low, n + 1, Len(h)) = Suffix
  <2>1. \A i \in n + 1 .. n + 4 : full[i] \in KeyChars
    BY <1>3, <1>4, LenProperties
  <2>2. /\ SubSeq(full, n + 1, n + 4) \in Seq(KeyChars)
        /\ Len(SubSeq(full, n + 1, n + 4)) = 4
        /\ \A i \in 1 .. 4 : SubSeq(full, n + 1, n + 4)[i] = full[n + i]
    BY <1>4, <2>1, SubSeqProperties
  <2>3. Suffix \in Seq(KeyChars)
    BY DEF Suffix, KeyChars, LabelChars, Lower
  <2>4. SubSeq(full, n + 1, n + 4) = Suffix
    BY <1>3, <1>4, <2>2, <2>3, SeqEqual
  <2>5. QED
    BY <1>1, <1>4, <2>4
<1>7. name_from_host(h) = key
  <2>1. Positions(key, ".") \cap {1, n} = {} /\ n > 0
    BY <1>2, <1>4
  <2>2. QED
    BY <1>2, <1>5, <1>6, <2>1 DEF name_from_host, low, n
<1>8. h # Verify \o Suffix
  <2>1. SUFFICES ASSUME h = Verify \o Suffix PROVE FALSE
    OBVIOUS
  <2>2. (Verify \o Suffix)[1] = "_"
    BY DEF Verify, Suffix
  <2>3. low[1] = h[1]
    <3>1. "_" \notin DOMAIN LowerOf
      BY DEF LowerOf
    <3>2. 1 \in 1 .. Len(h)
      BY <1>4
    <3>3. QED
      BY <1>1, <2>1, <2>2, <3>1, <3>2, LowerCase DEF low
  <2>4. low[1] \in KeyChars
    BY <1>1, <1>3, <1>4, LenProperties
  <2>5. "_" \notin KeyChars
    BY DEF KeyChars, LabelChars, Lower, Digit
  <2>6. QED
    BY <2>1, <2>2, <2>3, <2>4, <2>5
<1>9. key # Status /\ key # None
  BY <1>2, TextAssumption DEF RESERVED_NAMES
<1>10. QED
  BY <1>7, <1>8, <1>9 DEF handle, h

(* A request reaches an app exactly when its host spells the app's key, in  *)
(* any case and with any port, for any host, key and set of other apps: no  *)
(* key that `add` accepts is out of reach, hidden by a built-in route or    *)
(* shared (registry.rs:106-110).                                            *)
THEOREM HostsRouteHolds == NamesSpec => []HostsRoute
<1>1. ASSUME NInv
      PROVE  HostsRoute
  <2> SUFFICES ASSUME NEW host \in Hosts, NEW key \in DOMAIN apps
               PROVE  handle(host) = <<"app", key>> <=> Spells(host, key)
    BY DEF HostsRoute
  <2>1. host \in Text /\ IsKey(key) /\ key \notin RESERVED_NAMES
    BY <1>1, TextAssumption DEF NInv, KeysInv
  <2>2. QED
    BY <2>1, Reached, Spelled
<1>2. QED
  BY <1>1, NInvHolds, PTL

-----------------------------------------------------------------------------
(* The environment of a child.                                              *)

(* The first layer that sets a variable has the say.                        *)
LEMMA FirstLayer ==
  ASSUME NEW layers, DOMAIN layers \subseteq Nat, NEW i \in DOMAIN layers,
         NEW v \in DOMAIN layers[i],
         \A j \in DOMAIN layers : v \in DOMAIN layers[j] => i <= j
  PROVE  v \in DOMAIN Layered(layers) /\ Layered(layers)[v] = layers[i][v]
<1> DEFINE S == {j \in DOMAIN layers : v \in DOMAIN layers[j]}
<1>1. S \subseteq Nat /\ i \in S /\ \A j \in S : i <= j
  OBVIOUS
<1>2. First(S) \in S /\ First(S) <= i
  BY <1>1 DEF First
<1>3. First(S) = i
  <2>1. First(S) \in DOMAIN layers /\ First(S) \in Nat /\ v \in DOMAIN layers[First(S)]
    BY <1>1, <1>2
  <2>2. i <= First(S)
    BY <2>1
  <2>3. QED
    BY <1>2, <2>1, <2>2
<1>4. v \in UNION {DOMAIN layers[j] : j \in DOMAIN layers}
  OBVIOUS
<1>5. QED
  BY <1>3, <1>4 DEF Layered

(* The host of a key, with or without a port, spells the key.               *)
LEMMA AddressSpells ==
  ASSUME NEW key, IsKey(key), NEW port \in Seq(Digit)
  PROVE  LET host == key \o Suffix
             at == host \o <<":">> \o port
         IN  /\ host \in Text /\ Spells(host, key)
             /\ at \in Text /\ Spells(at, key)
<1> DEFINE host == key \o Suffix
           hc == host \o <<":">>
           at == hc \o port
           n == Len(key) + Len(Suffix)
<1>1. host \in Seq(KeyChars) /\ Len(host) = n /\ n \in Nat
  BY HostOfKey, KeyShape
<1>2. host \in Text /\ to_ascii_lowercase(host) = host
  BY <1>1, LowerOfKey
<1> HIDE DEF n
<1>3. Spells(host, key)
  <2>1. SubSeq(host, 1, n) = host
    BY <1>1, SubSeqFull
  <2>2. ~(n < Len(host)) /\ n <= Len(host) /\ n + 2 .. Len(host) = {}
    BY <1>1
  <2> HIDE DEF host
  <2>3. QED
    BY <2>1, <2>2 DEF Spells, n, host
<1> HIDE DEF host
<1>4. Digit \subseteq Chars /\ ":" \in Chars
  BY TextAssumption, PortAssumption
<1>5. port \in Text /\ <<":">> \in Text /\ Len(<<":">>) = 1 /\ <<":">>[1] = ":"
      /\ Len(port) \in Nat /\ \A i \in 1 .. Len(port) : port[i] \in Digit
  BY <1>4, SeqMonotonic, LenProperties DEF Text
<1>6. /\ hc \in Text /\ Len(hc) = n + 1
      /\ \A i \in 1 .. n + 1 : hc[i] = IF i <= n THEN host[i] ELSE <<":">>[i - n]
  <2>1. /\ hc \in Text /\ Len(hc) = Len(host) + Len(<<":">>)
        /\ \A i \in 1 .. Len(host) + Len(<<":">>) :
             hc[i] = IF i <= Len(host) THEN host[i] ELSE <<":">>[i - Len(host)]
    BY <1>2, <1>5, ConcatProperties DEF Text
  <2> HIDE DEF hc
  <2>2. QED
    BY <1>1, <1>5, <2>1
<1> HIDE DEF hc
<1>7. /\ at \in Text /\ Len(at) = n + 1 + Len(port)
      /\ \A i \in 1 .. Len(hc) + Len(port) :
           at[i] = IF i <= Len(hc) THEN hc[i] ELSE port[i - Len(hc)]
  <2>1. /\ at \in Text /\ Len(at) = Len(hc) + Len(port)
        /\ \A i \in 1 .. Len(hc) + Len(port) :
             at[i] = IF i <= Len(hc) THEN hc[i] ELSE port[i - Len(hc)]
    BY <1>5, <1>6, ConcatProperties DEF Text
  <2> HIDE DEF at
  <2>2. QED
    BY <1>6, <2>1
<1> HIDE DEF at
<1>8. Spells(at, key)
  <2>1. n \in 0 .. Len(at) /\ n <= Len(at)
    BY <1>1, <1>5, <1>7
  <2>2. SubSeq(at, 1, n) = host
    <3>1. SubSeq(at, 1, n) \in Text /\ Len(SubSeq(at, 1, n)) = n
          /\ \A i \in 1 .. n : SubSeq(at, 1, n)[i] = at[i]
      BY <1>7, <2>1, Front DEF Text
    <3>2. \A i \in 1 .. n : at[i] = host[i]
      BY <1>1, <1>5, <1>6, <1>7
    <3>3. QED
      BY <1>1, <1>2, <3>1, <3>2, SeqEqual DEF Text
  <2>3. at[n + 1] = ":"
    <3>1. n + 1 \in 1 .. n + 1 /\ ~(n + 1 <= n) /\ (n + 1) - n = 1
      BY <1>1
    <3>2. hc[n + 1] = ":"
      BY <1>5, <1>6, <3>1
    <3>3. n + 1 \in 1 .. Len(hc) + Len(port) /\ n + 1 <= Len(hc)
      BY <1>1, <1>5, <1>6
    <3>4. QED
      BY <1>7, <3>2, <3>3
  <2>4. \A i \in n + 2 .. Len(at) : at[i] \in Digit
    <3> TAKE i \in n + 2 .. Len(at)
    <3>1. i - (n + 1) \in 1 .. Len(port) /\ i \in 1 .. Len(hc) + Len(port) /\ ~(i <= Len(hc))
      BY <1>1, <1>5, <1>6, <1>7
    <3>2. QED
      BY <1>5, <1>6, <1>7, <3>1
  <2>5. QED
    BY <2>1, <2>2, <2>3, <2>4 DEF Spells, n, host
<1>9. QED
  BY <1>2, <1>3, <1>7, <1>8 DEF at, hc, host

LEMMA AuthorityOfUrl ==
  ASSUME NEW T, NEW text \in Seq(T), NEW scheme \in {"http", "https"}
  PROVE  Authority(Url(scheme, text)) = text
<1> DEFINE C == T \cup {scheme, "://"}
           url == Url(scheme, text)
<1>1. <<scheme, "://">> \in Seq(C) /\ Len(<<scheme, "://">>) = 2
  OBVIOUS
<1>2. text \in Seq(C) /\ Len(text) \in Nat /\ \A i \in 1 .. Len(text) : text[i] \in C
  BY SeqMonotonic, LenProperties
<1> HIDE DEF C
<1>3. /\ url \in Seq(C) /\ Len(url) = 2 + Len(text)
      /\ \A i \in 1 .. 2 + Len(text) :
           url[i] = IF i <= 2 THEN <<scheme, "://">>[i] ELSE text[i - 2]
  BY <1>1, <1>2, ConcatProperties DEF Url
<1> HIDE DEF url
<1>4. \A i \in 1 .. Len(text) : url[i + 2] = text[i]
  <2> TAKE i \in 1 .. Len(text)
  <2>1. i + 2 \in 1 .. 2 + Len(text) /\ ~(i + 2 <= 2) /\ (i + 2) - 2 = i
    BY <1>2
  <2>2. QED
    BY <1>3, <2>1
<1>5. /\ SubSeq(url, 3, Len(url)) \in Seq(C) /\ Len(SubSeq(url, 3, Len(url))) = Len(text)
      /\ \A i \in 1 .. Len(text) : SubSeq(url, 3, Len(url))[i] = url[3 + i - 1]
  <2>1. \A i \in 3 .. Len(url) : url[i] \in C
    BY <1>2, <1>3, LenProperties
  <2>2. Len(url) \in Int /\ Len(url) - 3 + 1 = Len(text)
    BY <1>2, <1>3
  <2>3. /\ SubSeq(url, 3, Len(url)) \in Seq(C)
        /\ Len(SubSeq(url, 3, Len(url))) = IF 3 <= Len(url) THEN Len(url) - 3 + 1 ELSE 0
        /\ \A i \in 1 .. Len(url) - 3 + 1 : SubSeq(url, 3, Len(url))[i] = url[3 + i - 1]
    BY <2>1, <2>2, SubSeqProperties
  <2>4. QED
    BY <1>2, <1>3, <2>2, <2>3
<1>6. \A i \in 1 .. Len(text) : SubSeq(url, 3, Len(url))[i] = text[i]
  <2> TAKE i \in 1 .. Len(text)
  <2>1. 3 + i - 1 = i + 2
    BY <1>2
  <2>2. QED
    BY <1>4, <1>5, <2>1
<1>7. SubSeq(url, 3, Len(url)) = text
  BY <1>2, <1>5, <1>6, SeqEqual
<1>8. QED
  BY <1>7 DEF Authority, url
(* What the daemon gives a child.                                           *)
LEMMA Given ==
  ASSUME NEW key, NEW told
  PROVE  LET host == key \o Suffix
             at == host \o <<":">> \o told
             given == adj_env(key, told, told)
         IN  /\ DOMAIN given \subseteq {"ADJ_NAME", "ADJ_HOST", "ADJ_URL", "ADJ_URL_HTTP",
                                        "ADJ_URL_DIRECT", "ADJ_URL_HTTP_DIRECT"}
             /\ told = None => "ADJ_URL_DIRECT" \notin DOMAIN given
                               /\ "ADJ_URL_HTTP_DIRECT" \notin DOMAIN given
             /\ "ADJ_HOST" \in DOMAIN given /\ given["ADJ_HOST"] = host
             /\ given["ADJ_URL"] = Url("https", host)
             /\ given["ADJ_URL_HTTP"] = Url("http", host)
             /\ told # None => /\ given["ADJ_URL_DIRECT"] = Url("https", at)
                               /\ given["ADJ_URL_HTTP_DIRECT"] = Url("http", at)
<1> DEFINE host == key \o Suffix
           at == host \o <<":">> \o told
           own == [ADJ_NAME |-> key, ADJ_HOST |-> host,
                   ADJ_URL |-> Url("https", host), ADJ_URL_HTTP |-> Url("http", host)]
           layers == <<own, Direct("ADJ_URL_DIRECT", "https", host, told),
                       Direct("ADJ_URL_HTTP_DIRECT", "http", host, told)>>
           given == adj_env(key, told, told)
<1>1. given = Layered(layers) /\ DOMAIN layers = 1 .. 3
      /\ layers[1] = own
      /\ layers[2] = Direct("ADJ_URL_DIRECT", "https", host, told)
      /\ layers[3] = Direct("ADJ_URL_HTTP_DIRECT", "http", host, told)
  BY DEF adj_env
<1>2. /\ DOMAIN own = {"ADJ_NAME", "ADJ_HOST", "ADJ_URL", "ADJ_URL_HTTP"}
      /\ own["ADJ_HOST"] = host /\ own["ADJ_URL"] = Url("https", host)
      /\ own["ADJ_URL_HTTP"] = Url("http", host)
  OBVIOUS
<1>3. IF told = None
      THEN DOMAIN layers[2] = {} /\ DOMAIN layers[3] = {}
      ELSE /\ DOMAIN layers[2] = {"ADJ_URL_DIRECT"}
           /\ layers[2]["ADJ_URL_DIRECT"] = Url("https", at)
           /\ DOMAIN layers[3] = {"ADJ_URL_HTTP_DIRECT"}
           /\ layers[3]["ADJ_URL_HTTP_DIRECT"] = Url("http", at)
  BY <1>1 DEF Direct
<1> HIDE DEF layers, own, given, at
<1>4. DOMAIN given = DOMAIN layers[1] \cup DOMAIN layers[2] \cup DOMAIN layers[3]
  BY <1>1 DEF Layered
<1>5. \A v \in DOMAIN own : v \in DOMAIN given /\ given[v] = own[v]
  <2> TAKE v \in DOMAIN own
  <2>1. \A j \in DOMAIN layers : v \in DOMAIN layers[j] => 1 <= j
    BY <1>1
  <2>2. DOMAIN layers \subseteq Nat /\ 1 \in DOMAIN layers /\ v \in DOMAIN layers[1]
    BY <1>1
  <2>3. v \in DOMAIN Layered(layers) /\ Layered(layers)[v] = layers[1][v]
    BY <2>1, <2>2, FirstLayer
  <2>4. QED
    BY <1>1, <2>3
<1>6. ASSUME told # None
      PROVE  given["ADJ_URL_DIRECT"] = Url("https", at)
             /\ given["ADJ_URL_HTTP_DIRECT"] = Url("http", at)
  <2>1. \A j \in DOMAIN layers : "ADJ_URL_DIRECT" \in DOMAIN layers[j] => 2 <= j
    BY <1>1, <1>2
  <2>2. \A j \in DOMAIN layers : "ADJ_URL_HTTP_DIRECT" \in DOMAIN layers[j] => 3 <= j
    BY <1>1, <1>2, <1>3, <1>6
  <2>3. /\ DOMAIN layers \subseteq Nat /\ {2, 3} \subseteq DOMAIN layers
        /\ "ADJ_URL_DIRECT" \in DOMAIN layers[2] /\ "ADJ_URL_HTTP_DIRECT" \in DOMAIN layers[3]
    BY <1>1, <1>3, <1>6
  <2>4. Layered(layers)["ADJ_URL_DIRECT"] = layers[2]["ADJ_URL_DIRECT"]
    BY <2>1, <2>3, FirstLayer
  <2>5. Layered(layers)["ADJ_URL_HTTP_DIRECT"] = layers[3]["ADJ_URL_HTTP_DIRECT"]
    BY <2>2, <2>3, FirstLayer
  <2>6. QED
    BY <1>1, <1>3, <1>6, <2>4, <2>5
<1>7. QED
  BY <1>1, <1>2, <1>3, <1>4, <1>5, <1>6 DEF given, at

(* What a child finds: nothing hides what the daemon gives it.              *)
LEMMA Found ==
  ASSUME NEW key, NEW env, NEW port, NEW told
  PROVE  LET given == adj_env(key, told, told)
             e == child_env(key, env, port, told, told)
         IN  /\ \A v \in DOMAIN given : e[v] = given[v]
             /\ port_env(env) \in DOMAIN given \/ e[port_env(env)] = port
<1> DEFINE given == adj_env(key, told, told)
           mine == PortLayer(env, port)
           file == load_env_file(env.file)
           layers == <<given, mine, env.table, file, Inherited>>
           e == child_env(key, env, port, told, told)
<1>1. e = Layered(layers)
  BY DEF child_env
<1>2. DOMAIN mine = {port_env(env)} /\ mine[port_env(env)] = port
  BY DEF PortLayer
<1> HIDE DEF e, given, mine, file
<1>3. DOMAIN layers = 1 .. 5 /\ layers[1] = given /\ layers[2] = mine
  OBVIOUS
<1> HIDE DEF layers
<1>4. ASSUME NEW v \in DOMAIN given
      PROVE  e[v] = given[v]
  <2>1. \A j \in DOMAIN layers : v \in DOMAIN layers[j] => 1 <= j
    BY <1>3
  <2>2. DOMAIN layers \subseteq Nat /\ 1 \in DOMAIN layers /\ v \in DOMAIN layers[1]
    BY <1>3
  <2>3. Layered(layers)[v] = layers[1][v]
    BY <2>1, <2>2, FirstLayer
  <2>4. QED
    BY <1>1, <1>3, <2>3
<1>5. ASSUME port_env(env) \notin DOMAIN given
      PROVE  e[port_env(env)] = port
  <2>1. \A j \in DOMAIN layers : port_env(env) \in DOMAIN layers[j] => 2 <= j
    BY <1>3, <1>5
  <2>2. DOMAIN layers \subseteq Nat /\ 2 \in DOMAIN layers /\ port_env(env) \in DOMAIN layers[2]
    BY <1>2, <1>3
  <2>3. Layered(layers)[port_env(env)] = layers[2][port_env(env)]
    BY <2>1, <2>2, FirstLayer
  <2>4. QED
    BY <1>1, <1>2, <1>3, <2>3
<1>6. QED
  BY <1>4, <1>5 DEF given, e
(* What an app is told is where it is found: whatever the daemon's          *)
(* environment, the manifest and the dotenv file set, each URL the daemon   *)
(* gives an app, with any port or none, is routed back to that app, for any *)
(* key and set of other apps, and the app finds its port under the name it  *)
(* asked for unless the daemon keeps that one (supervisor.rs:203-208).      *)
THEOREM AppsAddressedHolds == NamesSpec => []AppsAddressed
<1>1. ASSUME NInv
      PROVE  AppsAddressed
  <2> SUFFICES ASSUME NEW key \in DOMAIN apps,
                      NEW configured \in Configured, NEW file \in PortFiles
               PROVE  LET env == manifest[apps[key]].env
                          port == <<"8", "8">>
                          told == ProxyPort(configured, file)
                          given == adj_env(key, told, told)
                          e == child_env(key, env, port, told, told)
                      IN  /\ \A variable \in DOMAIN given \ {"ADJ_NAME", "ADJ_HOST"} :
                               handle(Authority(e[variable])) = <<"app", key>>
                          /\ handle(e["ADJ_HOST"]) = <<"app", key>>
                          /\ port_env(env) \in DOMAIN given \/ e[port_env(env)] = port
    BY DEF AppsAddressed
  <2> DEFINE env == manifest[apps[key]].env
             port == <<"8", "8">>
             told == ProxyPort(configured, file)
             given == adj_env(key, told, told)
             e == child_env(key, env, port, told, told)
             host == key \o Suffix
             at == host \o <<":">> \o told
  <2>1. IsKey(key) /\ key \notin RESERVED_NAMES
    BY <1>1 DEF NInv, KeysInv
  <2>2. told = None \/ told \in Seq(Digit)
    BY PortAssumption DEF ProxyPort
  <2> HIDE DEF env, port, told
  <2>3. handle(host) = <<"app", key>> /\ handle(Authority(Url("https", host))) = <<"app", key>>
        /\ handle(Authority(Url("http", host))) = <<"app", key>>
    <3>1. <<>> \in Seq(Digit)
      OBVIOUS
    <3>2. host \in Text /\ Spells(host, key)
      BY <2>1, <3>1, AddressSpells
    <3>3. handle(host) = <<"app", key>>
      BY <2>1, <3>2, Spelled
    <3>4. Authority(Url("https", host)) = host /\ Authority(Url("http", host)) = host
      BY <3>2, AuthorityOfUrl DEF Text
    <3>5. QED
      BY <3>3, <3>4
  <2>4. ASSUME told # None
        PROVE  handle(Authority(Url("https", at))) = <<"app", key>>
               /\ handle(Authority(Url("http", at))) = <<"app", key>>
    <3>1. at \in Text /\ Spells(at, key)
      BY <2>1, <2>2, <2>4, AddressSpells
    <3>2. handle(at) = <<"app", key>>
      BY <2>1, <3>1, Spelled
    <3>3. Authority(Url("https", at)) = at /\ Authority(Url("http", at)) = at
      BY <3>1, AuthorityOfUrl DEF Text
    <3>4. QED
      BY <3>2, <3>3
  <2>5. /\ DOMAIN given \subseteq {"ADJ_NAME", "ADJ_HOST", "ADJ_URL", "ADJ_URL_HTTP",
                                   "ADJ_URL_DIRECT", "ADJ_URL_HTTP_DIRECT"}
        /\ told = None => "ADJ_URL_DIRECT" \notin DOMAIN given
                          /\ "ADJ_URL_HTTP_DIRECT" \notin DOMAIN given
        /\ "ADJ_HOST" \in DOMAIN given /\ given["ADJ_HOST"] = host
        /\ given["ADJ_URL"] = Url("https", host)
        /\ given["ADJ_URL_HTTP"] = Url("http", host)
        /\ told # None => /\ given["ADJ_URL_DIRECT"] = Url("https", at)
                          /\ given["ADJ_URL_HTTP_DIRECT"] = Url("http", at)
    BY Given
  <2>6. /\ \A v \in DOMAIN given : e[v] = given[v]
        /\ port_env(env) \in DOMAIN given \/ e[port_env(env)] = port
    BY Found
  <2> HIDE DEF given, e, host, at
  <2>7. ASSUME NEW v \in DOMAIN given \ {"ADJ_NAME", "ADJ_HOST"}
        PROVE  handle(Authority(e[v])) = <<"app", key>>
    <3>1. e[v] = given[v]
      BY <2>6
    <3>2. CASE v = "ADJ_URL"
      BY <2>3, <2>5, <3>1, <3>2
    <3>3. CASE v = "ADJ_URL_HTTP"
      BY <2>3, <2>5, <3>1, <3>3
    <3>4. CASE v = "ADJ_URL_DIRECT"
      BY <2>4, <2>5, <3>1, <3>4
    <3>5. CASE v = "ADJ_URL_HTTP_DIRECT"
      BY <2>4, <2>5, <3>1, <3>5
    <3>6. QED
      BY <2>5, <3>2, <3>3, <3>4, <3>5
  <2>8. handle(e["ADJ_HOST"]) = <<"app", key>>
    BY <2>3, <2>5, <2>6
  <2>9. QED
    BY <2>6, <2>7, <2>8 DEF env, port, told, given, e
<1>2. QED
  BY <1>1, NInvHolds, PTL
=============================================================================
