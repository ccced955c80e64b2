----------------------------- MODULE TableProofs -----------------------------
(***************************************************************************)
(* The table of services stays the page a reload would draw, for any set   *)
(* of containers, any number of frames on their way and any order in which *)
(* refreshes, patches, losses of the stream and visits happen.             *)
(*                                                                         *)
(* The argument goes from strings to pages.  Sort keys compare as          *)
(* SortServices does; there is one list of a set of containers in that     *)
(* order; the script's patches keep the rows such a list; so each patched  *)
(* page is a drawn page, and the frames on their way say which comes next. *)
(***************************************************************************)
EXTENDS Table, MappingProofs

-----------------------------------------------------------------------------
\* How the comparison of two concatenations follows from that of their parts:
\* what the separator and the padding of a sort key rest on.

\* a is the smaller of the two at a position that both have.
FirstDifference(a, b) ==
    \E i \in 1 .. Len(a) : /\ i <= Len(b)
                           /\ \A j \in 1 .. i - 1 : a[j] = b[j]
                           /\ a[i] < b[i]

\* A string that is smaller at the first difference sorts first.
LEMMA FirstDifferenceLess ==
    ASSUME NEW a \in Seq(Nat), NEW b \in Seq(Nat), FirstDifference(a, b)
    PROVE  Less(a, b)
<1>1. PICK i \in 1 .. Len(a) : /\ i <= Len(b)
                               /\ \A j \in 1 .. i - 1 : a[j] = b[j]
                               /\ a[i] < b[i]
    BY DEF FirstDifference
<1>2. i \in 1 .. Len(b) /\ \A j \in 1 .. i - 1 : j <= Len(a) /\ a[j] = b[j]
    BY <1>1
<1> QED BY <1>1, <1>2 DEF Less

\* Such a difference decides, whatever follows it.
LEMMA DifferenceInPrefix ==
    ASSUME NEW a \in Seq(Nat), NEW b \in Seq(Nat), FirstDifference(a, b),
           NEW c \in Seq(Nat), NEW d \in Seq(Nat)
    PROVE  FirstDifference(a \o c, b \o d)
<1>1. PICK i \in 1 .. Len(a) : /\ i <= Len(b)
                               /\ \A j \in 1 .. i - 1 : a[j] = b[j]
                               /\ a[i] < b[i]
    BY DEF FirstDifference
<1>2. /\ Len(a \o c) = Len(a) + Len(c) /\ Len(b \o d) = Len(b) + Len(d)
      /\ \A j \in 1 .. i : (a \o c)[j] = a[j] /\ (b \o d)[j] = b[j]
    BY <1>1, ConcatProperties
<1>3. i \in 1 .. Len(a \o c) /\ i <= Len(b \o d)
    BY <1>1, <1>2
<1>4. \A j \in 1 .. i - 1 : (a \o c)[j] = (b \o d)[j]
    BY <1>1, <1>2
<1>5. (a \o c)[i] < (b \o d)[i]
    BY <1>1, <1>2
<1> QED BY <1>3, <1>4, <1>5 DEF FirstDifference

\* Neither does what precedes it on both sides matter.
LEMMA DifferenceAfterPrefix ==
    ASSUME NEW p \in Seq(Nat),
           NEW a \in Seq(Nat), NEW b \in Seq(Nat), FirstDifference(a, b)
    PROVE  FirstDifference(p \o a, p \o b)
<1>1. PICK i \in 1 .. Len(a) : /\ i <= Len(b)
                               /\ \A j \in 1 .. i - 1 : a[j] = b[j]
                               /\ a[i] < b[i]
    BY DEF FirstDifference
<1> DEFINE k == Len(p) + i
<1>2. /\ Len(p \o a) = Len(p) + Len(a) /\ Len(p \o b) = Len(p) + Len(b)
      /\ \A j \in 1 .. Len(p) + Len(a) :
           (p \o a)[j] = IF j <= Len(p) THEN p[j] ELSE a[j - Len(p)]
      /\ \A j \in 1 .. Len(p) + Len(b) :
           (p \o b)[j] = IF j <= Len(p) THEN p[j] ELSE b[j - Len(p)]
    BY ConcatProperties
<1>3. k \in 1 .. Len(p \o a) /\ k <= Len(p \o b)
    BY <1>1, <1>2
<1>4. \A j \in 1 .. k - 1 : (p \o a)[j] = (p \o b)[j]
    <2> TAKE j \in 1 .. k - 1
    <2>1. j \in 1 .. Len(p) + Len(a) /\ j \in 1 .. Len(p) + Len(b)
        BY <1>1
    <2>2. ~(j <= Len(p)) => a[j - Len(p)] = b[j - Len(p)]
        BY <1>1
    <2> QED BY <2>1, <2>2, <1>2
<1>5. (p \o a)[k] < (p \o b)[k]
    <2>1. /\ k - Len(p) = i /\ ~(k <= Len(p))
          /\ k \in 1 .. Len(p) + Len(a) /\ k \in 1 .. Len(p) + Len(b)
        BY <1>1
    <2>2. (p \o a)[k] = a[i] /\ (p \o b)[k] = b[i]
        BY <2>1, <1>2
    <2> QED BY <2>2, <1>1
<1> QED BY <1>3, <1>4, <1>5 DEF FirstDifference

\* Nor does it for any two strings, one being a prefix of the other included.
LEMMA LessAfterPrefix ==
    ASSUME NEW p \in Seq(Nat),
           NEW a \in Seq(Nat), NEW b \in Seq(Nat), Less(a, b)
    PROVE  Less(p \o a, p \o b)
<1>1. CASE FirstDifference(a, b)
    BY <1>1, DifferenceAfterPrefix, FirstDifferenceLess, ConcatProperties
<1>2. CASE ~FirstDifference(a, b)
    <2>1. PICK i \in 1 .. Len(b) : /\ \A j \in 1 .. i - 1 : j <= Len(a) /\ a[j] = b[j]
                                   /\ i > Len(a)
        <3>1. PICK i \in 1 .. Len(b) : /\ \A j \in 1 .. i - 1 : j <= Len(a) /\ a[j] = b[j]
                                       /\ i > Len(a) \/ a[i] < b[i]
            BY DEF Less
        <3>2. i <= Len(a) /\ a[i] < b[i] => FirstDifference(a, b)
            BY <3>1 DEF FirstDifference
        <3> QED BY <3>1, <3>2, <1>2
    <2>2. i = Len(a) + 1
        <3>1. i > 1 => i - 1 <= Len(a)
            BY <2>1
        <3> QED BY <2>1, <3>1
    <2>3. /\ Len(p \o a) = Len(p) + Len(a) /\ Len(p \o b) = Len(p) + Len(b)
          /\ \A j \in 1 .. Len(p) + Len(a) :
               (p \o a)[j] = IF j <= Len(p) THEN p[j] ELSE a[j - Len(p)]
          /\ \A j \in 1 .. Len(p) + Len(b) :
               (p \o b)[j] = IF j <= Len(p) THEN p[j] ELSE b[j - Len(p)]
        BY ConcatProperties
    <2>4. \A j \in 1 .. Len(p) + Len(a) : (p \o a)[j] = (p \o b)[j]
        <3> TAKE j \in 1 .. Len(p) + Len(a)
        <3>1. j > Len(p) => a[j - Len(p)] = b[j - Len(p)]
            BY <2>1, <2>2
        <3>2. j \in 1 .. Len(p) + Len(b)
            BY <2>1, <2>2
        <3> QED BY <2>3, <3>1, <3>2
    <2> DEFINE k == Len(p) + i
    <2>5. k \in 1 .. Len(p \o b) /\ k > Len(p \o a) /\ k - 1 = Len(p) + Len(a)
        BY <2>1, <2>2, <2>3
    <2>6. \A j \in 1 .. k - 1 : j <= Len(p \o a) /\ (p \o a)[j] = (p \o b)[j]
        BY <2>3, <2>4, <2>5
    <2> QED BY <2>5, <2>6 DEF Less
<1> QED BY <1>1, <1>2

\* What a name is made of: the characters above the separator.
Character == Nat \ 0 .. 31

\* Each of them is greater than 31, the separator of a sort key.
LEMMA CharacterAboveSeparator == \A c \in Character : c \in Nat /\ 31 < c
<1> TAKE c \in Character
<1>1. c \in Nat /\ c \notin 0 .. 31
    BY DEF Character
<1> QED BY <1>1

\* With the separator behind them two names differ at a position both have, also
\* when one is a prefix of the other: a service sorts before "service-1".
LEMMA DifferenceWithSeparator ==
    ASSUME NEW a \in Seq(Character), NEW b \in Seq(Character), Less(a, b)
    PROVE  FirstDifference(a \o <<31>>, b \o <<31>>)
<1>1. PICK i \in 1 .. Len(b) : /\ \A j \in 1 .. i - 1 : j <= Len(a) /\ a[j] = b[j]
                               /\ i > Len(a) \/ a[i] < b[i]
    BY DEF Less
<1>2. <<31>> \in Seq(Nat) /\ Len(<<31>>) = 1 /\ <<31>>[1] = 31
    OBVIOUS
<1>3. a \in Seq(Nat) /\ b \in Seq(Nat)
    BY SeqMonotonic, CharacterAboveSeparator
<1>4. /\ Len(a \o <<31>>) = Len(a) + 1 /\ Len(b \o <<31>>) = Len(b) + 1
      /\ \A j \in 1 .. Len(a) : (a \o <<31>>)[j] = a[j]
      /\ \A j \in 1 .. Len(b) : (b \o <<31>>)[j] = b[j]
      /\ (a \o <<31>>)[Len(a) + 1] = 31
    BY <1>2, <1>3, ConcatProperties
<1>5. i <= Len(a) + 1
    <2>1. i > 1 => i - 1 <= Len(a)
        BY <1>1
    <2> QED BY <2>1
<1>6. i \in 1 .. Len(a \o <<31>>) /\ i <= Len(b \o <<31>>)
    BY <1>1, <1>4, <1>5
<1>7. \A j \in 1 .. i - 1 : (a \o <<31>>)[j] = (b \o <<31>>)[j]
    BY <1>1, <1>4
<1>8. b[i] \in Nat /\ b[i] > 31
    <2>1. b[i] \in Character
        BY ElementOfSeq
    <2> QED BY <2>1, CharacterAboveSeparator
<1>9. (a \o <<31>>)[i] < (b \o <<31>>)[i]
    <2>1. (b \o <<31>>)[i] = b[i]
        BY <1>4
    <2>2. CASE i > Len(a)
        <3>1. i = Len(a) + 1
            BY <2>2, <1>3, <1>5
        <3> QED BY <2>1, <3>1, <1>4, <1>8
    <2>3. CASE ~(i > Len(a))
        <3>1. (a \o <<31>>)[i] = a[i]
            BY <2>3, <1>4
        <3> QED BY <2>1, <2>3, <3>1, <1>1
    <2> QED BY <2>2, <2>3
<1> QED BY <1>6, <1>7, <1>9 DEF FirstDifference

-----------------------------------------------------------------------------
\* A number with leading zeros sorts as a string as it does as a number.

\* The numbers that six digits hold.
SixDigits == 0 .. TenTo(6) - 1

\* The number that the first k of six digits make.
Leading(n, k) == n \div TenTo(6 - k)

\* Each digit more appends the last digit of the longer number.
LEMMA LeadingDigits ==
    ASSUME NEW n \in SixDigits
    PROVE  /\ Leading(n, 0) = 0 /\ Leading(n, 6) = n
           /\ \A k \in 0 .. 6 : Leading(n, k) \in Nat
           /\ \A k \in 1 .. 6 :
                Leading(n, k) = 10 * Leading(n, k - 1) + (Leading(n, k) % 10)
BY SMT DEF SixDigits, Leading, TenTo

\* The leading digits of a smaller number are no greater.
LEMMA LeadingMonotone ==
    ASSUME NEW m \in SixDigits, NEW n \in SixDigits, m <= n, NEW k \in 0 .. 6
    PROVE  Leading(m, k) <= Leading(n, k)
BY SMT DEF SixDigits, Leading, TenTo

\* A number below a million is padded to six digits, none of them lost.
LEMMA PaddedDigits ==
    ASSUME NEW n \in SixDigits
    PROVE  Padded(n) = [i \in 1 .. 6 |-> 48 + (Leading(n, i) % 10)]
<1> DEFINE Fits(w) == n < TenTo(w) /\ (w = 6 \/ n >= TenTo(w - 1))
<1>1. \A w \in 6 .. 9 : Fits(w) <=> w = 6
    BY SMT DEF TenTo, SixDigits
<1>2. (CHOOSE w \in 6 .. 9 : Fits(w)) = 6
    <2> HIDE DEF Fits
    <2> QED BY <1>1
<1>3. Padded(n) = LET width == CHOOSE w \in 6 .. 9 : Fits(w)
                  IN [i \in 1 .. width |-> 48 + ((n \div TenTo(width - i)) % 10)]
    BY Zenon DEF Padded
<1>4. Padded(n) = [i \in 1 .. 6 |-> 48 + ((n \div TenTo(6 - i)) % 10)]
    BY <1>2, <1>3, Zenon
<1> QED BY <1>4 DEF Leading

\* The padded number as a sequence, digit by digit.
LEMMA PaddedType ==
    ASSUME NEW n \in SixDigits
    PROVE  /\ Padded(n) \in Seq(Nat) /\ Len(Padded(n)) = 6
           /\ \A i \in 1 .. 6 : Padded(n)[i] = 48 + (Leading(n, i) % 10)
<1>1. \A i \in 1 .. 6 : 48 + (Leading(n, i) % 10) \in Nat
    <2> TAKE i \in 1 .. 6
    <2>1. Leading(n, i) \in Nat
        BY LeadingDigits
    <2> QED BY <2>1
<1>2. \A i \in 1 .. 6 : Padded(n)[i] = 48 + (Leading(n, i) % 10)
    BY PaddedDigits
<1>3. Padded(n) \in [1 .. 6 -> Nat]
    BY <1>1, PaddedDigits
<1>4. Padded(n) \in Seq(Nat) /\ Len(Padded(n)) = 6
    BY <1>3, FunctionIsSequence, 6 \in Nat, Zenon
<1> QED BY <1>2, <1>4

\* Two padded numbers differ first at a digit where the smaller number's is
\* smaller.
LEMMA PaddedDiffer ==
    ASSUME NEW m \in SixDigits, NEW n \in SixDigits, m < n
    PROVE  FirstDifference(Padded(m), Padded(n))
<1> DEFINE Differ == {k \in 0 .. 6 : Leading(m, k) # Leading(n, k)}
<1>1. m \in Nat /\ n \in Nat
    BY LeadingDigits
<1>2. 6 \in Differ /\ 0 \notin Differ
    BY <1>1, LeadingDigits
<1>3. PICK k \in Differ : \A j \in Differ : k <= j
    BY <1>2, LeastNumber
<1>4. k \in 1 .. 6 /\ k \in 0 .. 6 /\ Leading(m, k) # Leading(n, k)
    BY <1>2
<1>5. \A j \in 0 .. k - 1 : Leading(m, j) = Leading(n, j)
    <2> TAKE j \in 0 .. k - 1
    <2>1. j \notin Differ /\ j \in 0 .. 6
        BY <1>3, <1>4
    <2> QED BY <2>1
<1>6. Leading(m, k) < Leading(n, k)
    <2>1. Leading(m, k) <= Leading(n, k)
        BY <1>1, <1>4, LeadingMonotone
    <2>2. Leading(m, k) \in Nat /\ Leading(n, k) \in Nat
        BY <1>4, LeadingDigits
    <2> QED BY <1>4, <2>1, <2>2
<1>7. Leading(m, k) % 10 < Leading(n, k) % 10
    <2> DEFINE p == Leading(m, k) % 10
               q == Leading(n, k) % 10
               lead == Leading(m, k - 1)
    <2>1. Leading(m, k - 1) = Leading(n, k - 1) /\ k - 1 \in 0 .. 6
        BY <1>4, <1>5
    <2>2. Leading(m, k) = 10 * lead + p /\ Leading(n, k) = 10 * lead + q
        BY <1>4, <2>1, LeadingDigits
    <2>3. lead \in Nat /\ p \in Nat /\ q \in Nat
        BY <1>4, <2>1, LeadingDigits
    <2> HIDE DEF p, q, lead
    <2>4. p < q
        BY <1>6, <2>2, <2>3
    <2> QED BY <2>4 DEF p, q
<1> HIDE DEF Differ
<1>8. \A j \in 1 .. k - 1 : Padded(m)[j] = Padded(n)[j]
    <2> TAKE j \in 1 .. k - 1
    <2>1. j \in 1 .. 6 /\ Leading(m, j) = Leading(n, j)
        BY <1>4, <1>5
    <2> QED BY <2>1, PaddedType
<1>9. Padded(m)[k] < Padded(n)[k]
    <2>1. /\ Padded(m)[k] = 48 + (Leading(m, k) % 10)
          /\ Padded(n)[k] = 48 + (Leading(n, k) % 10)
        BY <1>4, PaddedType
    <2>2. Leading(m, k) \in Nat /\ Leading(n, k) \in Nat
        BY <1>4, LeadingDigits
    <2> QED BY <1>7, <2>1, <2>2
<1>10. Len(Padded(m)) = 6 /\ Len(Padded(n)) = 6
    BY PaddedType
<1> QED BY <1>4, <1>8, <1>9, <1>10 DEF FirstDifference

-----------------------------------------------------------------------------
\* SortServices (Before) is a strict total order of the containers, and the sort
\* keys of the rows are in that order.

\* What the assumptions say of one container.
LEMMA MemberFields ==
    ASSUME NEW m \in Member
    PROVE  /\ m.Name \in Seq(Character) /\ m.Name \in Seq(Nat)
           /\ m.Number \in SixDigits /\ m.Number \in Nat
           /\ m.ContainerID \in Seq(Nat)
<1>1. m.Name \in Seq(Character) /\ m.ContainerID \in Seq(Nat)
    BY NameAssumption DEF Character
<1>2. m.Name \in Seq(Nat)
    BY <1>1, SeqMonotonic, CharacterAboveSeparator
<1>3. m.Number \in SixDigits
    BY NumberAssumption DEF SixDigits
<1>4. m.Number \in Nat
    BY <1>3, LeadingDigits
<1> QED BY <1>1, <1>2, <1>3, <1>4

\* No container sorts before itself.
LEMMA BeforeIrreflexive ==
    ASSUME NEW a \in Member
    PROVE  ~Before(a, a)
BY MemberFields, LessIrreflexive DEF Before

\* SortServices compares consistently.
LEMMA BeforeTransitive ==
    ASSUME NEW a \in Member, NEW b \in Member, NEW c \in Member,
           Before(a, b), Before(b, c)
    PROVE  Before(a, c)
<1>1. /\ a.Name \in Seq(Nat) /\ b.Name \in Seq(Nat) /\ c.Name \in Seq(Nat)
      /\ a.Number \in Nat /\ b.Number \in Nat /\ c.Number \in Nat
      /\ a.ContainerID \in Seq(Nat) /\ b.ContainerID \in Seq(Nat) /\ c.ContainerID \in Seq(Nat)
    BY MemberFields
<1>2. Less(a.Name, b.Name) /\ Less(b.Name, c.Name) => Less(a.Name, c.Name)
    BY <1>1, LessTransitive
<1>3. a.Number < b.Number /\ b.Number < c.Number => a.Number < c.Number
    BY <1>1
<1>4. Less(a.ContainerID, b.ContainerID) /\ Less(b.ContainerID, c.ContainerID)
        => Less(a.ContainerID, c.ContainerID)
    BY <1>1, LessTransitive
<1> QED BY <1>2, <1>3, <1>4 DEF Before

\* Of two containers one sorts before the other: their IDs differ.
LEMMA BeforeTotal ==
    ASSUME NEW a \in Member, NEW b \in Member, a # b
    PROVE  Before(a, b) \/ Before(b, a)
<1>1. a.ContainerID # b.ContainerID
    BY IdAssumption
<1>2. /\ a.Name \in Seq(Nat) /\ b.Name \in Seq(Nat)
      /\ a.Number \in Nat /\ b.Number \in Nat
      /\ a.ContainerID \in Seq(Nat) /\ b.ContainerID \in Seq(Nat)
    BY MemberFields
<1>3. a.Name # b.Name => Less(a.Name, b.Name) \/ Less(b.Name, a.Name)
    BY <1>2, LessTotal
<1>4. a.Number # b.Number => a.Number < b.Number \/ b.Number < a.Number
    BY <1>2
<1>5. Less(a.ContainerID, b.ContainerID) \/ Less(b.ContainerID, a.ContainerID)
    BY <1>1, <1>2, LessTotal
<1> QED BY <1>3, <1>4, <1>5 DEF Before

\* A sort key is a string.
LEMMA SortKeyType ==
    ASSUME NEW m \in Member
    PROVE  SortKey(m) \in Seq(Nat)
<1>1. <<31>> \in Seq(Nat)
    OBVIOUS
<1>2. m.Name \in Seq(Nat) /\ Padded(m.Number) \in Seq(Nat) /\ m.ContainerID \in Seq(Nat)
    BY MemberFields, PaddedType
<1>3. m.Name \o <<31>> \in Seq(Nat)
    BY <1>1, <1>2, ConcatProperties
<1>4. m.Name \o <<31>> \o Padded(m.Number) \in Seq(Nat)
    BY <1>2, <1>3, ConcatProperties
<1>5. m.Name \o <<31>> \o Padded(m.Number) \o <<31>> \in Seq(Nat)
    BY <1>1, <1>4, ConcatProperties
<1>6. m.Name \o <<31>> \o Padded(m.Number) \o <<31>> \o m.ContainerID \in Seq(Nat)
    BY <1>2, <1>5, ConcatProperties
<1> QED BY <1>6 DEF SortKey

\* A container that SortServices puts first has the smaller sort key: the first of
\* name, number and ID that differs decides, here as there.
LEMMA BeforeSortsKeys ==
    ASSUME NEW a \in Member, NEW b \in Member, Before(a, b)
    PROVE  Less(SortKey(a), SortKey(b))
<1> DEFINE name(m) == m.Name \o <<31>>
           number(m) == name(m) \o Padded(m.Number)
           separated(m) == number(m) \o <<31>>
<1>1. \A m \in Member : SortKey(m) = separated(m) \o m.ContainerID
    BY DEF SortKey
<1>2. \A m \in Member : /\ <<31>> \in Seq(Nat) /\ Padded(m.Number) \in Seq(Nat)
                        /\ m.ContainerID \in Seq(Nat)
    BY MemberFields, PaddedType
<1>3. \A m \in Member : name(m) \in Seq(Nat)
    BY <1>2, MemberFields, ConcatProperties
<1>4. \A m \in Member : number(m) \in Seq(Nat)
    <2> HIDE DEF name
    <2> QED BY <1>2, <1>3, ConcatProperties
<1>5. \A m \in Member : separated(m) \in Seq(Nat)
    <2> HIDE DEF number
    <2> QED BY <1>2, <1>4, ConcatProperties
<1>6. CASE Less(a.Name, b.Name)
    <2>1. FirstDifference(name(a), name(b))
        BY <1>6, MemberFields, DifferenceWithSeparator
    <2>2. FirstDifference(number(a), number(b))
        <3> HIDE DEF name
        <3> QED BY <2>1, <1>2, <1>3, DifferenceInPrefix
    <2>3. FirstDifference(separated(a), separated(b))
        <3> HIDE DEF number
        <3> QED BY <2>2, <1>2, <1>4, DifferenceInPrefix
    <2> HIDE DEF separated
    <2>4. FirstDifference(separated(a) \o a.ContainerID, separated(b) \o b.ContainerID)
        BY <2>3, <1>2, <1>5, DifferenceInPrefix
    <2> QED BY <2>4, <1>1, SortKeyType, FirstDifferenceLess
<1>7. CASE a.Name = b.Name /\ a.Number < b.Number
    <2>1. FirstDifference(Padded(a.Number), Padded(b.Number))
        BY <1>7, MemberFields, PaddedDiffer
    <2>2. FirstDifference(number(a), number(b))
        <3>1. name(a) = name(b)
            BY <1>7
        <3> HIDE DEF name
        <3> QED BY <2>1, <3>1, <1>2, <1>3, DifferenceAfterPrefix
    <2>3. FirstDifference(separated(a), separated(b))
        <3> HIDE DEF number
        <3> QED BY <2>2, <1>2, <1>4, DifferenceInPrefix
    <2> HIDE DEF separated
    <2>4. FirstDifference(separated(a) \o a.ContainerID, separated(b) \o b.ContainerID)
        BY <2>3, <1>2, <1>5, DifferenceInPrefix
    <2> QED BY <2>4, <1>1, SortKeyType, FirstDifferenceLess
<1>8. CASE a.Name = b.Name /\ a.Number = b.Number /\ Less(a.ContainerID, b.ContainerID)
    <2>1. separated(a) = separated(b)
        BY <1>8
    <2> HIDE DEF separated
    <2> QED BY <2>1, <1>1, <1>2, <1>5, <1>8, LessAfterPrefix
<1> QED BY <1>6, <1>7, <1>8 DEF Before

\* The browser, comparing sort keys as strings, orders two rows exactly as
\* SortServices orders their containers (keys.go:14-16, "ordered lexically
\* exactly as the server orders the services").
THEOREM SortKeyOrder ==
    ASSUME NEW a \in Member, NEW b \in Member
    PROVE  Less(SortKey(a), SortKey(b)) <=> Before(a, b)
<1>1. SortKey(a) \in Seq(Nat) /\ SortKey(b) \in Seq(Nat)
    BY SortKeyType
<1>2. ASSUME Less(SortKey(a), SortKey(b)) PROVE Before(a, b)
    <2>1. a # b
        BY <1>1, <1>2, LessIrreflexive
    <2>2. ~Less(SortKey(b), SortKey(a))
        BY <1>1, <1>2, LessIrreflexive, LessTransitive
    <2> QED BY <2>1, <2>2, BeforeTotal, BeforeSortsKeys
<1> QED BY <1>2, BeforeSortsKeys

-----------------------------------------------------------------------------
\* InDisplayOrder lists a set of containers, each once and in order, and there is
\* only one such list.

\* The containers of S that sort before m.
Preceding(S, m) == {n \in S : Before(n, m)}

\* They are finitely many, and so is S.
LEMMA PrecedingFinite ==
    ASSUME NEW S \in SUBSET Member, NEW m
    PROVE  /\ IsFiniteSet(S) /\ IsFiniteSet(Preceding(S, m))
           /\ Cardinality(S) \in Nat /\ Cardinality(Preceding(S, m)) \in Nat
<1>1. IsFiniteSet(S)
    BY FiniteAssumption, FS_Subset
<1>2. Preceding(S, m) \in SUBSET S
    BY DEF Preceding
<1>3. IsFiniteSet(Preceding(S, m))
    BY <1>1, <1>2, FS_Subset
<1> QED BY <1>1, <1>3, FS_CardinalityType

\* Fewer containers precede an earlier one.
LEMMA FewerPrecede ==
    ASSUME NEW S \in SUBSET Member, NEW a \in S, NEW b \in S, Before(a, b)
    PROVE  Cardinality(Preceding(S, a)) < Cardinality(Preceding(S, b))
<1>1. a \in Member /\ b \in Member
    OBVIOUS
<1>2. a \notin Preceding(S, a) /\ a \in Preceding(S, b)
    BY <1>1, BeforeIrreflexive DEF Preceding
<1>3. Preceding(S, a) \in SUBSET Preceding(S, b)
    BY <1>1, BeforeTransitive DEF Preceding
<1>4. Cardinality(Preceding(S, a)) <= Cardinality(Preceding(S, b))
    BY <1>3, PrecedingFinite, FS_Subset
<1>5. Cardinality(Preceding(S, a)) # Cardinality(Preceding(S, b))
    BY <1>2, <1>3, PrecedingFinite, FS_Subset
<1> QED BY <1>4, <1>5, PrecedingFinite

\* No two containers have the same number of containers before them.
LEMMA OnePerPlace ==
    ASSUME NEW S \in SUBSET Member, NEW a \in S, NEW b \in S,
           Cardinality(Preceding(S, a)) = Cardinality(Preceding(S, b))
    PROVE  a = b
<1>1. a \in Member /\ b \in Member
    OBVIOUS
<1>2. /\ Before(a, b) => Cardinality(Preceding(S, a)) < Cardinality(Preceding(S, b))
      /\ Before(b, a) => Cardinality(Preceding(S, b)) < Cardinality(Preceding(S, a))
    BY FewerPrecede
<1>3. Cardinality(Preceding(S, a)) \in Nat /\ Cardinality(Preceding(S, b)) \in Nat
    BY PrecedingFinite
<1> QED BY <1>1, <1>2, <1>3, BeforeTotal

\* Before a container of S there are fewer containers than S has.
LEMMA PlaceInRange ==
    ASSUME NEW S \in SUBSET Member, NEW m \in S
    PROVE  Cardinality(Preceding(S, m)) + 1 \in 1 .. Cardinality(S)
<1>1. m \in Member
    OBVIOUS
<1>2. Preceding(S, m) \in SUBSET S /\ Preceding(S, m) # S
    BY <1>1, BeforeIrreflexive DEF Preceding
<1>3. /\ Cardinality(Preceding(S, m)) <= Cardinality(S)
      /\ Cardinality(Preceding(S, m)) # Cardinality(S)
    BY <1>2, PrecedingFinite, FS_Subset
<1> QED BY <1>3, PrecedingFinite

\* Each place of the list has a container: they are as many as the places.
LEMMA EveryPlaceTaken ==
    ASSUME NEW S \in SUBSET Member, NEW i \in 1 .. Cardinality(S)
    PROVE  \E m \in S : Cardinality(Preceding(S, m)) = i - 1
<1> DEFINE place == [m \in S |-> Cardinality(Preceding(S, m)) + 1]
           T == 1 .. Cardinality(S)
<1>1. IsFiniteSet(S) /\ Cardinality(S) \in Nat
    BY PrecedingFinite
<1>2. IsFiniteSet(T) /\ Cardinality(T) = Cardinality(S)
    BY <1>1, FS_Interval
<1>3. place \in [S -> T]
    BY PlaceInRange
<1>4. \A a, b \in S : place[a] = place[b] => a = b
    <2> TAKE a, b \in S
    <2>1. /\ Cardinality(Preceding(S, a)) \in Nat
          /\ Cardinality(Preceding(S, b)) \in Nat
        BY PrecedingFinite
    <2> QED BY <2>1, OnePerPlace
<1>5. place \in Injection(S, T)
    BY <1>3, <1>4 DEF Injection, IsInjective
<1> HIDE DEF T
<1>6. place \in Surjection(S, T)
    <2> HIDE DEF place
    <2> QED BY <1>2, <1>5, FS_Injection
<1>7. PICK m \in S : place[m] = i
    BY <1>6 DEF Surjection, T
<1> QED BY <1>7, PrecedingFinite

\* Each container sorts before those behind it.
DisplaySorted(s) == \A i, j \in DOMAIN s : i < j => Before(s[i], s[j])

\* The container in place i has i - 1 before it.
LEMMA InDisplayOrderDef ==
    ASSUME NEW S \in SUBSET Member, NEW i \in 1 .. Cardinality(S)
    PROVE  /\ InDisplayOrder(S)[i] \in S
           /\ Cardinality(Preceding(S, InDisplayOrder(S)[i])) = i - 1
<1> DEFINE Sits(m) == Cardinality({n \in S : Before(n, m)}) = i - 1
<1>1. InDisplayOrder(S)[i] = CHOOSE m \in S : Sits(m)
    BY DEF InDisplayOrder
<1>2. \E m \in S : Sits(m)
    BY EveryPlaceTaken DEF Preceding
<1> HIDE DEF Sits
<1>3. InDisplayOrder(S)[i] \in S /\ Sits(InDisplayOrder(S)[i])
    BY <1>1, <1>2
<1> QED BY <1>3 DEF Sits, Preceding

\* The list has the containers of S, all of them, and in order.
LEMMA InDisplayOrderSorts ==
    ASSUME NEW S \in SUBSET Member
    PROVE  /\ InDisplayOrder(S) \in [1 .. Cardinality(S) -> S]
           /\ InDisplayOrder(S) \in Seq(S)
           /\ Len(InDisplayOrder(S)) = Cardinality(S)
           /\ DisplaySorted(InDisplayOrder(S))
           /\ \A m \in S : \E i \in DOMAIN InDisplayOrder(S) : InDisplayOrder(S)[i] = m
<1> DEFINE s == InDisplayOrder(S)
<1>1. Cardinality(S) \in Nat
    BY PrecedingFinite
<1>2. DOMAIN s = 1 .. Cardinality(S)
    BY DEF InDisplayOrder
<1>3. \A i \in 1 .. Cardinality(S) : s[i] \in S /\ Cardinality(Preceding(S, s[i])) = i - 1
    BY InDisplayOrderDef
<1>4. s \in [1 .. Cardinality(S) -> S]
    <2>1. s = [i \in DOMAIN s |-> s[i]]
        BY DEF InDisplayOrder
    <2> HIDE DEF s
    <2> QED BY <1>2, <1>3, <2>1
<1> HIDE DEF s
<1>5. s \in Seq(S) /\ Len(s) = Cardinality(S)
    BY <1>1, <1>4, FunctionIsSequence
<1>6. DisplaySorted(s)
    <2> SUFFICES ASSUME NEW i \in DOMAIN s, NEW j \in DOMAIN s, i < j
                 PROVE  Before(s[i], s[j])
        BY DEF DisplaySorted
    <2>1. /\ s[i] \in S /\ s[j] \in S
          /\ Cardinality(Preceding(S, s[i])) < Cardinality(Preceding(S, s[j]))
        BY <1>1, <1>2, <1>3
    <2>2. Cardinality(Preceding(S, s[i])) \in Nat /\ Cardinality(Preceding(S, s[j])) \in Nat
        BY PrecedingFinite
    <2>3. s[i] # s[j] /\ ~Before(s[j], s[i])
        BY <2>1, <2>2, FewerPrecede
    <2> QED BY <2>1, <2>3, BeforeTotal
<1>7. \A m \in S : \E i \in DOMAIN s : s[i] = m
    <2> TAKE m \in S
    <2>1. Cardinality(Preceding(S, m)) + 1 \in DOMAIN s /\ Cardinality(Preceding(S, m)) \in Nat
        BY <1>2, PlaceInRange, PrecedingFinite
    <2>2. Cardinality(Preceding(S, s[Cardinality(Preceding(S, m)) + 1]))
            = Cardinality(Preceding(S, m))
        BY <1>2, <1>3, <2>1
    <2>3. s[Cardinality(Preceding(S, m)) + 1] = m
        BY <1>2, <1>3, <2>1, <2>2, OnePerPlace
    <2> QED BY <2>1, <2>3
<1> QED BY <1>4, <1>5, <1>6, <1>7 DEF s

\* A list of the containers of S in order, wherever it comes from, is that list.
LEMMA SortedIsDisplayOrder ==
    ASSUME NEW S \in SUBSET Member, NEW s \in Seq(S), DisplaySorted(s),
           \A m \in S : \E i \in DOMAIN s : s[i] = m
    PROVE  s = InDisplayOrder(S)
<1>1. Len(s) \in Nat /\ DOMAIN s = 1 .. Len(s) /\ s \in [1 .. Len(s) -> S]
    BY LenProperties
<1>2. \A i, j \in 1 .. Len(s) : s[i] = s[j] => i = j
    <2> TAKE i, j \in 1 .. Len(s)
    <2>1. s[i] \in Member
        BY <1>1
    <2>2. i < j => Before(s[i], s[j])
        BY <1>1 DEF DisplaySorted
    <2>3. j < i => Before(s[j], s[i])
        BY <1>1 DEF DisplaySorted
    <2> QED BY <2>1, <2>2, <2>3, BeforeIrreflexive
<1>3. Cardinality(S) = Len(s)
    <2>1. s \in Bijection(1 .. Len(s), S)
        BY <1>1, <1>2 DEF Bijection, Injection, Surjection, IsInjective
    <2> QED BY <1>1, <2>1, FS_CountingElements DEF ExistsBijection
<1>4. \A i \in 1 .. Len(s) : s[i] = InDisplayOrder(S)[i]
    <2> TAKE i \in 1 .. Len(s)
    <2>1. s[i] \in S
        BY <1>1
    <2>2. Preceding(S, s[i]) = {s[j] : j \in 1 .. i - 1}
        <3>1. ASSUME NEW n \in Preceding(S, s[i])
              PROVE  n \in {s[j] : j \in 1 .. i - 1}
            <4>1. n \in S /\ n \in Member /\ s[i] \in Member /\ Before(n, s[i])
                BY <2>1 DEF Preceding
            <4>2. PICK j \in 1 .. Len(s) : s[j] = n
                BY <1>1, <4>1
            <4>3. ~(j = i) /\ ~(i < j)
                BY <1>1, <4>1, <4>2, BeforeIrreflexive, BeforeTransitive DEF DisplaySorted
            <4>4. j \in 1 .. i - 1
                BY <1>1, <4>3
            <4> QED BY <4>2, <4>4
        <3>2. ASSUME NEW j \in 1 .. i - 1
              PROVE  s[j] \in Preceding(S, s[i])
            <4>1. j \in DOMAIN s /\ i \in DOMAIN s /\ j < i
                BY <1>1
            <4> QED BY <1>1, <4>1 DEF Preceding, DisplaySorted
        <3> QED BY <3>1, <3>2
    <2>3. Cardinality(Preceding(S, s[i])) = i - 1
        <3> DEFINE first == [j \in 1 .. i - 1 |-> s[j]]
        <3>1. i - 1 \in Nat /\ \A j \in 1 .. i - 1 : j \in 1 .. Len(s)
            BY <1>1
        <3>2. first \in Bijection(1 .. i - 1, Preceding(S, s[i]))
            BY <1>2, <2>2, <3>1 DEF Bijection, Injection, Surjection, IsInjective
        <3> QED BY <3>1, <3>2, FS_CountingElements DEF ExistsBijection
    <2>4. /\ InDisplayOrder(S)[i] \in S
          /\ Cardinality(Preceding(S, InDisplayOrder(S)[i])) = i - 1
        BY <1>3, InDisplayOrderDef
    <2> QED BY <2>1, <2>3, <2>4, OnePerPlace
<1>5. InDisplayOrder(S) \in Seq(S) /\ Len(InDisplayOrder(S)) = Cardinality(S)
    BY InDisplayOrderSorts
<1> QED BY <1>3, <1>4, <1>5, SeqEqual

-----------------------------------------------------------------------------
\* The sequence operations of the page's script.

\* Without its element k a sequence keeps the others in place.
LEMMA RemoveAtProperties ==
    ASSUME NEW S, NEW s \in Seq(S), NEW k \in 1 .. Len(s)
    PROVE  /\ RemoveAt(s, k) \in Seq(S) /\ Len(RemoveAt(s, k)) = Len(s) - 1
           /\ \A i \in 1 .. Len(s) - 1 :
                RemoveAt(s, k)[i] = IF i < k THEN s[i] ELSE s[i + 1]
<1> DEFINE p == SubSeq(s, 1, k - 1)
           q == SubSeq(s, k + 1, Len(s))
<1>1. Len(s) \in Nat /\ k \in Nat /\ \A i \in 1 .. Len(s) : s[i] \in S
    BY LenProperties, ElementOfSeq
<1>2. p \in Seq(S) /\ Len(p) = k - 1 /\ \A i \in 1 .. k - 1 : p[i] = s[i]
    <2>1. \A i \in 1 .. k - 1 : s[i] \in S
        BY <1>1
    <2>2. /\ p \in Seq(S) /\ Len(p) = IF 1 <= k - 1 THEN k - 1 - 1 + 1 ELSE 0
          /\ \A i \in 1 .. k - 1 - 1 + 1 : p[i] = s[1 + i - 1]
        BY <1>1, <2>1, SubSeqProperties
    <2> QED BY <1>1, <2>2
<1>3. q \in Seq(S) /\ Len(q) = Len(s) - k /\ \A i \in 1 .. Len(s) - k : q[i] = s[k + i]
    <2>1. \A i \in k + 1 .. Len(s) : s[i] \in S
        BY <1>1
    <2>2. /\ q \in Seq(S) /\ Len(q) = IF k + 1 <= Len(s) THEN Len(s) - (k + 1) + 1 ELSE 0
          /\ \A i \in 1 .. Len(s) - (k + 1) + 1 : q[i] = s[k + 1 + i - 1]
        BY <1>1, <2>1, SubSeqProperties
    <2> QED BY <1>1, <2>2
<1>4. RemoveAt(s, k) = p \o q
    BY DEF RemoveAt
<1> HIDE DEF p, q
<1>5. /\ p \o q \in Seq(S) /\ Len(p \o q) = Len(s) - 1
      /\ \A i \in 1 .. Len(s) - 1 : (p \o q)[i] = IF i <= k - 1 THEN p[i] ELSE q[i - (k - 1)]
    BY <1>1, <1>2, <1>3, ConcatProperties
<1>6. \A i \in 1 .. Len(s) - 1 : (p \o q)[i] = IF i < k THEN s[i] ELSE s[i + 1]
    <2> TAKE i \in 1 .. Len(s) - 1
    <2>1. CASE i < k
        BY <2>1, <1>1, <1>2, <1>5
    <2>2. CASE ~(i < k)
        <3>1. i - (k - 1) \in 1 .. Len(s) - k /\ k + (i - (k - 1)) = i + 1 /\ ~(i <= k - 1)
            BY <1>1, <2>2
        <3>2. q[i - (k - 1)] = s[i + 1]
            BY <1>3, <3>1
        <3> QED BY <1>5, <2>2, <3>1, <3>2
    <2> QED BY <2>1, <2>2
<1> QED BY <1>4, <1>5, <1>6

\* With an element inserted at k a sequence keeps the others in order.
LEMMA InsertAtProperties ==
    ASSUME NEW S, NEW s \in Seq(S), NEW k \in 1 .. Len(s), NEW e \in S
    PROVE  /\ InsertAt(s, k, e) \in Seq(S) /\ Len(InsertAt(s, k, e)) = Len(s) + 1
           /\ \A i \in 1 .. Len(s) + 1 :
                InsertAt(s, k, e)[i] = IF i < k THEN s[i] ELSE IF i = k THEN e ELSE s[i - 1]
<1> DEFINE p == SubSeq(s, 1, k - 1)
           q == SubSeq(s, k, Len(s))
           pe == p \o <<e>>
<1>1. Len(s) \in Nat /\ k \in Nat /\ \A i \in 1 .. Len(s) : s[i] \in S
    BY LenProperties, ElementOfSeq
<1>2. p \in Seq(S) /\ Len(p) = k - 1 /\ \A i \in 1 .. k - 1 : p[i] = s[i]
    <2>1. \A i \in 1 .. k - 1 : s[i] \in S
        BY <1>1
    <2>2. /\ p \in Seq(S) /\ Len(p) = IF 1 <= k - 1 THEN k - 1 - 1 + 1 ELSE 0
          /\ \A i \in 1 .. k - 1 - 1 + 1 : p[i] = s[1 + i - 1]
        BY <1>1, <2>1, SubSeqProperties
    <2> QED BY <1>1, <2>2
<1>3. /\ q \in Seq(S) /\ Len(q) = Len(s) - k + 1
      /\ \A i \in 1 .. Len(s) - k + 1 : q[i] = s[k + i - 1]
    <2>1. \A i \in k .. Len(s) : s[i] \in S
        BY <1>1
    <2>2. /\ q \in Seq(S) /\ Len(q) = IF k <= Len(s) THEN Len(s) - k + 1 ELSE 0
          /\ \A i \in 1 .. Len(s) - k + 1 : q[i] = s[k + i - 1]
        BY <1>1, <2>1, SubSeqProperties
    <2> QED BY <1>1, <2>2
<1>4. InsertAt(s, k, e) = pe \o q
    BY DEF InsertAt
<1>5. <<e>> \in Seq(S) /\ Len(<<e>>) = 1 /\ <<e>>[1] = e
    OBVIOUS
<1> HIDE DEF p, q
<1>6. /\ pe \in Seq(S) /\ Len(pe) = k
      /\ \A i \in 1 .. k : pe[i] = IF i <= k - 1 THEN p[i] ELSE e
    <2>1. /\ pe \in Seq(S) /\ Len(pe) = k - 1 + 1
          /\ \A i \in 1 .. k - 1 + 1 : pe[i] = IF i <= k - 1 THEN p[i] ELSE <<e>>[i - (k - 1)]
        BY <1>2, <1>5, ConcatProperties
    <2>2. \A i \in 1 .. k : ~(i <= k - 1) => i - (k - 1) = 1
        BY <1>1
    <2> QED BY <1>1, <1>5, <2>1, <2>2
<1> HIDE DEF pe
<1>7. /\ pe \o q \in Seq(S) /\ Len(pe \o q) = Len(s) + 1
      /\ \A i \in 1 .. Len(s) + 1 : (pe \o q)[i] = IF i <= k THEN pe[i] ELSE q[i - k]
    <2>1. /\ pe \o q \in Seq(S) /\ Len(pe \o q) = Len(pe) + Len(q)
          /\ \A i \in 1 .. Len(pe) + Len(q) :
               (pe \o q)[i] = IF i <= Len(pe) THEN pe[i] ELSE q[i - Len(pe)]
        BY <1>3, <1>6, ConcatProperties
    <2>2. Len(pe) + Len(q) = Len(s) + 1
        BY <1>1, <1>3, <1>6
    <2> QED BY <1>6, <2>1, <2>2
<1>8. \A i \in 1 .. Len(s) + 1 :
        (pe \o q)[i] = IF i < k THEN s[i] ELSE IF i = k THEN e ELSE s[i - 1]
    <2> TAKE i \in 1 .. Len(s) + 1
    <2>1. CASE i < k
        BY <2>1, <1>1, <1>2, <1>6, <1>7
    <2>2. CASE i = k
        BY <2>2, <1>1, <1>6, <1>7
    <2>3. CASE i > k
        <3>1. i - k \in 1 .. Len(s) - k + 1 /\ k + (i - k) - 1 = i - 1
            BY <1>1, <2>3
        <3>2. q[i - k] = s[i - 1]
            BY <1>3, <3>1
        <3> QED BY <1>1, <1>7, <2>3, <3>2
    <2>4. i < k \/ i = k \/ i > k
        BY <1>1
    <2> QED BY <2>1, <2>2, <2>3, <2>4
<1> QED BY <1>4, <1>7, <1>8

\* Without either finds no row with the ID and changes nothing, or removes one that
\* has it.
LEMMA WithoutRow ==
    ASSUME NEW S, NEW rows \in Seq(S), NEW id
    PROVE  \/ /\ \A i \in 1 .. Len(rows) : rows[i].id # id
              /\ Without(rows, id) = rows
           \/ \E k \in 1 .. Len(rows) : /\ rows[k].id = id
                                        /\ Without(rows, id) = RemoveAt(rows, k)
<1> DEFINE I == {i \in 1 .. Len(rows) : rows[i].id = id}
<1>1. CASE I = {}
    BY <1>1 DEF Without, RemoveFirstMatch
<1>2. CASE I # {}
    <2>1. I \in SUBSET Nat
        BY LenProperties
    <2>2. \E k \in I : \A j \in I : k <= j
        BY <1>2, <2>1, LeastNumber
    <2> DEFINE k == CHOOSE x \in I : \A y \in I : x <= y
    <2>3. k \in I
        BY <2>2
    <2>4. Without(rows, id) = RemoveAt(rows, k)
        BY <1>2 DEF Without, RemoveFirstMatch, SelectInSeq, Min
    <2> QED BY <2>3, <2>4
<1> QED BY <1>1, <1>2

\* The rows ascend by their sort keys.
RowsOrdered(rows) ==
    \A i, j \in DOMAIN rows : i < j => Less(rows[i].sort, rows[j].sort)

\* insert puts a row behind all rows with smaller keys and before all with greater
\* ones, when none has the same key (app.js, insert).
LEMMA InsertPlace ==
    ASSUME NEW S, \A x \in S : x.sort \in Seq(Nat),
           NEW rows \in Seq(S), NEW row \in S, RowsOrdered(rows),
           \A i \in 1 .. Len(rows) : rows[i].sort # row.sort
    PROVE  /\ insert(rows, row) \in Seq(S)
           /\ Len(insert(rows, row)) = Len(rows) + 1
           /\ \E k \in 1 .. Len(rows) + 1 :
                /\ \A i \in 1 .. Len(rows) + 1 :
                     insert(rows, row)[i] = IF i < k THEN rows[i]
                                            ELSE IF i = k THEN row ELSE rows[i - 1]
                /\ \A i \in 1 .. Len(rows) : i < k => Less(rows[i].sort, row.sort)
                /\ \A i \in 1 .. Len(rows) : k <= i => Less(row.sort, rows[i].sort)
<1> DEFINE greater == {i \in DOMAIN rows : Less(row.sort, rows[i].sort)}
<1>1. /\ Len(rows) \in Nat /\ DOMAIN rows = 1 .. Len(rows)
      /\ \A i \in 1 .. Len(rows) : rows[i] \in S /\ rows[i].sort \in Seq(Nat)
      /\ row.sort \in Seq(Nat)
    BY LenProperties, ElementOfSeq
<1>2. \A i \in 1 .. Len(rows) : i \notin greater => Less(rows[i].sort, row.sort)
    BY <1>1, LessTotal
<1>3. CASE greater = {}
    <2>1. insert(rows, row) = Append(rows, row)
        BY <1>3 DEF insert
    <2>2. /\ Append(rows, row) \in Seq(S)
          /\ Len(Append(rows, row)) = Len(rows) + 1
          /\ \A i \in 1 .. Len(rows) : Append(rows, row)[i] = rows[i]
          /\ Append(rows, row)[Len(rows) + 1] = row
        BY AppendProperties
    <2> DEFINE k == Len(rows) + 1
    <2>3. k \in 1 .. Len(rows) + 1
        BY <1>1
    <2>4. \A i \in 1 .. Len(rows) + 1 :
            Append(rows, row)[i] = IF i < k THEN rows[i] ELSE IF i = k THEN row ELSE rows[i - 1]
        BY <1>1, <2>2
    <2>5. \A i \in 1 .. Len(rows) : i < k => Less(rows[i].sort, row.sort)
        BY <1>2, <1>3
    <2>6. \A i \in 1 .. Len(rows) : k <= i => Less(row.sort, rows[i].sort)
        BY <1>1
    <2> HIDE DEF k
    <2> QED BY <2>1, <2>2, <2>3, <2>4, <2>5, <2>6
<1>4. CASE greater # {}
    <2>1. greater \in SUBSET Nat
        BY <1>1
    <2>2. \E k \in greater : \A j \in greater : k <= j
        BY <1>4, <2>1, LeastNumber
    <2> DEFINE k == CHOOSE i \in greater : \A j \in greater : i <= j
    <2>3. k \in greater /\ \A j \in greater : k <= j
        BY <2>2
    <2>4. insert(rows, row) = InsertAt(rows, k, row)
        BY <1>4 DEF insert
    <2> HIDE DEF k
    <2>5. k \in 1 .. Len(rows) /\ k \in 1 .. Len(rows) + 1 /\ Less(row.sort, rows[k].sort)
        BY <1>1, <2>3
    <2>6. /\ InsertAt(rows, k, row) \in Seq(S)
          /\ Len(InsertAt(rows, k, row)) = Len(rows) + 1
          /\ \A i \in 1 .. Len(rows) + 1 :
               InsertAt(rows, k, row)[i] =
                   IF i < k THEN rows[i] ELSE IF i = k THEN row ELSE rows[i - 1]
        BY <2>5, InsertAtProperties
    <2>7. \A i \in 1 .. Len(rows) : i < k => Less(rows[i].sort, row.sort)
        <3> TAKE i \in 1 .. Len(rows)
        <3>1. i < k => i \notin greater
            BY <1>1, <2>3, <2>5
        <3> QED BY <3>1, <1>2
    <2>8. \A i \in 1 .. Len(rows) : k <= i => Less(row.sort, rows[i].sort)
        <3> SUFFICES ASSUME NEW i \in 1 .. Len(rows), k <= i
                     PROVE  Less(row.sort, rows[i].sort)
            OBVIOUS
        <3>1. CASE i = k
            BY <3>1, <2>5
        <3>2. CASE k < i
            <4>1. Less(rows[k].sort, rows[i].sort)
                BY <3>2, <2>5, <1>1 DEF RowsOrdered
            <4> QED BY <4>1, <1>1, <2>5, LessTransitive
        <3>3. i = k \/ k < i
            BY <1>1, <2>5
        <3> QED BY <3>1, <3>2, <3>3
    <2> HIDE DEF greater
    <2> QED BY <2>4, <2>5, <2>6, <2>7, <2>8
<1> QED BY <1>3, <1>4

-----------------------------------------------------------------------------
\* The rows as drawings of containers.

\* What a refresh sees of a container.
States == TableState \cup {Absent}

\* The row of m in a state, for a deployment that may act (c) or not and for the
\* page v.
RowOf(m, state, c, v) == ServiceItem(Described(m, state), c, v = "services")

\* The fields of a row that the script and the properties read.
LEMMA RowFields ==
    ASSUME NEW m \in Member, NEW state, NEW c, NEW v
    PROVE  /\ RowOf(m, state, c, v).id = m.ContainerID
           /\ RowOf(m, state, c, v).sort = SortKey(m)
           /\ RowOf(m, state, c, v).online = (state = "running")
           /\ RowOf(m, state, c, v).actions = ServiceActions(Described(m, state), c)
BY DEF RowOf, ServiceItem, Described, SortKey, Online

\* Every row there can be.
Drawn(c, v) == {RowOf(m, state, c, v) : m \in Member, state \in States}

\* The sort key of a row is a string.
LEMMA DrawnFields ==
    ASSUME NEW c, NEW v, NEW row \in Drawn(c, v)
    PROVE  row.sort \in Seq(Nat)
<1>1. PICK m \in Member, state \in States : row = RowOf(m, state, c, v)
    BY DEF Drawn
<1> QED BY <1>1, RowFields, SortKeyType

\* The rows draw each container that f has a state for, in that state, once and
\* in order.
Shows(rows, f, c, v) ==
    /\ rows \in Seq(Drawn(c, v))
    /\ RowsOrdered(rows)
    /\ \A i \in DOMAIN rows : \E m \in Member :
         f[m] # Absent /\ rows[i] = RowOf(m, f[m], c, v)
    /\ \A m \in Member : f[m] # Absent =>
         \E i \in DOMAIN rows : rows[i] = RowOf(m, f[m], c, v)

\* No two of the rows have the same sort key.
LEMMA SortsDiffer ==
    ASSUME NEW c, NEW v, NEW rows \in Seq(Drawn(c, v)), RowsOrdered(rows),
           NEW i \in DOMAIN rows, NEW j \in DOMAIN rows, rows[i].sort = rows[j].sort
    PROVE  i = j
<1>1. i \in 1 .. Len(rows) /\ j \in 1 .. Len(rows) /\ Len(rows) \in Nat
    BY LenProperties
<1>2. rows[i] \in Drawn(c, v)
    BY <1>1, ElementOfSeq
<1>3. ~Less(rows[i].sort, rows[i].sort)
    BY <1>2, DrawnFields, LessIrreflexive
<1>4. ~(i < j) /\ ~(j < i)
    BY <1>3 DEF RowsOrdered
<1> QED BY <1>1, <1>4

\* A removed frame takes the row of its container out, and no other.
LEMMA ShowsWithout ==
    ASSUME NEW c, NEW v, NEW rows, NEW f \in [Member -> States], Shows(rows, f, c, v),
           NEW m \in Member
    PROVE  Shows(Without(rows, m.ContainerID), [f EXCEPT ![m] = Absent], c, v)
<1> DEFINE g == [f EXCEPT ![m] = Absent]
           left == Without(rows, m.ContainerID)
<1>1. /\ rows \in Seq(Drawn(c, v)) /\ Len(rows) \in Nat /\ DOMAIN rows = 1 .. Len(rows)
      /\ RowsOrdered(rows)
    BY LenProperties DEF Shows
<1>2. /\ \A i \in 1 .. Len(rows) : \E n \in Member :
           f[n] # Absent /\ rows[i] = RowOf(n, f[n], c, v)
      /\ \A n \in Member : f[n] # Absent =>
           \E i \in 1 .. Len(rows) : rows[i] = RowOf(n, f[n], c, v)
    BY <1>1 DEF Shows
<1>3. g[m] = Absent /\ \A n \in Member : n # m => g[n] = f[n]
    OBVIOUS
<1>4. CASE (\A i \in 1 .. Len(rows) : rows[i].id # m.ContainerID) /\ left = rows
    <2>1. f[m] = Absent
        BY <1>2, <1>4, RowFields
    <2>2. g = f
        BY <2>1
    <2> QED BY <2>2, <1>4
<1>5. ASSUME NEW k \in 1 .. Len(rows), rows[k].id = m.ContainerID, left = RemoveAt(rows, k)
      PROVE  Shows(left, g, c, v)
    <2> HIDE DEF g, left
    <2>1. /\ left \in Seq(Drawn(c, v)) /\ Len(left) = Len(rows) - 1
          /\ \A i \in 1 .. Len(rows) - 1 : left[i] = IF i < k THEN rows[i] ELSE rows[i + 1]
        BY <1>1, <1>5, RemoveAtProperties
    <2>2. DOMAIN left = 1 .. Len(rows) - 1
        BY <2>1, LenProperties
    <2>3. rows[k].sort = SortKey(m)
        <3>1. PICK n \in Member : rows[k] = RowOf(n, f[n], c, v)
            BY <1>2
        <3>2. n = m
            BY <1>5, <3>1, RowFields, IdAssumption
        <3> QED BY <3>1, <3>2, RowFields
    <2>4. RowsOrdered(left)
        <3> SUFFICES ASSUME NEW i \in DOMAIN left, NEW j \in DOMAIN left, i < j
                     PROVE  Less(left[i].sort, left[j].sort)
            BY DEF RowsOrdered
        <3> DEFINE p == IF i < k THEN i ELSE i + 1
                   q == IF j < k THEN j ELSE j + 1
        <3>1. p \in 1 .. Len(rows) /\ q \in 1 .. Len(rows) /\ p < q
            BY <1>1, <2>2
        <3>2. left[i] = rows[p] /\ left[j] = rows[q]
            BY <2>1, <2>2
        <3> HIDE DEF p, q
        <3> QED BY <1>1, <3>1, <3>2 DEF RowsOrdered
    <2>5. \A i \in DOMAIN left :
            \E n \in Member : g[n] # Absent /\ left[i] = RowOf(n, g[n], c, v)
        <3> TAKE i \in DOMAIN left
        <3> DEFINE p == IF i < k THEN i ELSE i + 1
        <3>1. p \in 1 .. Len(rows) /\ p # k
            BY <1>1, <2>2
        <3>2. left[i] = rows[p]
            BY <2>1, <2>2
        <3> HIDE DEF p
        <3>3. PICK n \in Member : f[n] # Absent /\ rows[p] = RowOf(n, f[n], c, v)
            BY <1>2, <3>1
        <3>4. n # m
            BY <1>1, <2>3, <3>1, <3>3, RowFields, SortsDiffer
        <3> QED BY <1>3, <3>2, <3>3, <3>4
    <2>6. \A n \in Member : g[n] # Absent =>
            \E i \in DOMAIN left : left[i] = RowOf(n, g[n], c, v)
        <3> SUFFICES ASSUME NEW n \in Member, g[n] # Absent
                     PROVE  \E i \in DOMAIN left : left[i] = RowOf(n, g[n], c, v)
            OBVIOUS
        <3>1. n # m /\ g[n] = f[n]
            BY <1>3
        <3>2. PICK j \in 1 .. Len(rows) : rows[j] = RowOf(n, f[n], c, v)
            BY <1>2, <3>1
        <3>3. j # k
            BY <1>5, <3>1, <3>2, RowFields, IdAssumption
        <3> DEFINE i == IF j < k THEN j ELSE j - 1
        <3>4. i \in 1 .. Len(rows) - 1 /\ j = IF i < k THEN i ELSE i + 1
            BY <1>1, <3>3
        <3> HIDE DEF i
        <3>5. left[i] = rows[j]
            BY <2>1, <3>4
        <3> QED BY <2>2, <3>1, <3>2, <3>4, <3>5
    <2> QED BY <2>1, <2>4, <2>5, <2>6 DEF Shows
<1>6. \/ (\A i \in 1 .. Len(rows) : rows[i].id # m.ContainerID) /\ left = rows
      \/ \E k \in 1 .. Len(rows) : rows[k].id = m.ContainerID /\ left = RemoveAt(rows, k)
    BY <1>1, WithoutRow
<1> QED BY <1>4, <1>5, <1>6

\* A row that is inserted stands where a page drawn with it would have it.
LEMMA ShowsInsert ==
    ASSUME NEW c, NEW v, NEW rows, NEW f \in [Member -> States], Shows(rows, f, c, v),
           NEW m \in Member, f[m] = Absent, NEW state \in States, state # Absent
    PROVE  Shows(insert(rows, RowOf(m, state, c, v)), [f EXCEPT ![m] = state], c, v)
<1> DEFINE g == [f EXCEPT ![m] = state]
           row == RowOf(m, state, c, v)
           more == insert(rows, row)
<1>1. /\ rows \in Seq(Drawn(c, v)) /\ Len(rows) \in Nat /\ DOMAIN rows = 1 .. Len(rows)
      /\ RowsOrdered(rows)
    BY LenProperties DEF Shows
<1>2. /\ \A i \in 1 .. Len(rows) : \E n \in Member :
           f[n] # Absent /\ rows[i] = RowOf(n, f[n], c, v)
      /\ \A n \in Member : f[n] # Absent =>
           \E i \in 1 .. Len(rows) : rows[i] = RowOf(n, f[n], c, v)
    BY <1>1 DEF Shows
<1>3. g[m] = state /\ \A n \in Member : n # m => g[n] = f[n]
    OBVIOUS
<1>4. row \in Drawn(c, v) /\ row.sort = SortKey(m)
    BY RowFields DEF Drawn
<1>5. \A i \in 1 .. Len(rows) : rows[i].sort # row.sort
    <2> TAKE i \in 1 .. Len(rows)
    <2>1. PICK n \in Member : f[n] # Absent /\ rows[i] = RowOf(n, f[n], c, v)
        BY <1>2
    <2>2. n # m /\ rows[i].sort = SortKey(n)
        BY <2>1, RowFields
    <2>3. Less(SortKey(n), SortKey(m)) \/ Less(SortKey(m), SortKey(n))
        BY <2>2, BeforeTotal, SortKeyOrder
    <2>4. ~Less(SortKey(m), SortKey(m))
        BY SortKeyType, LessIrreflexive
    <2> QED BY <1>4, <2>2, <2>3, <2>4
<1> HIDE DEF g, row
<1>6. \A x \in Drawn(c, v) : x.sort \in Seq(Nat)
    BY DrawnFields
<1>7. more \in Seq(Drawn(c, v)) /\ Len(more) = Len(rows) + 1
    BY <1>1, <1>4, <1>5, <1>6, InsertPlace
<1>8. PICK k \in 1 .. Len(rows) + 1 :
        /\ \A i \in 1 .. Len(rows) + 1 :
             more[i] = IF i < k THEN rows[i] ELSE IF i = k THEN row ELSE rows[i - 1]
        /\ \A i \in 1 .. Len(rows) : i < k => Less(rows[i].sort, row.sort)
        /\ \A i \in 1 .. Len(rows) : k <= i => Less(row.sort, rows[i].sort)
    BY <1>1, <1>4, <1>5, <1>6, InsertPlace
<1> HIDE DEF more
<1>9. DOMAIN more = 1 .. Len(rows) + 1
    BY <1>7, LenProperties
<1>10. RowsOrdered(more)
    <2> SUFFICES ASSUME NEW i \in 1 .. Len(rows) + 1, NEW j \in 1 .. Len(rows) + 1, i < j
                 PROVE  Less(more[i].sort, more[j].sort)
        BY <1>9 DEF RowsOrdered
    <2>1. CASE i = k
        <3>1. j - 1 \in 1 .. Len(rows) /\ k <= j - 1 /\ more[j] = rows[j - 1] /\ more[i] = row
            BY <1>1, <1>8, <2>1
        <3> QED BY <1>8, <3>1
    <2>2. CASE j = k
        <3>1. i \in 1 .. Len(rows) /\ i < k /\ more[i] = rows[i] /\ more[j] = row
            BY <1>1, <1>8, <2>2
        <3> QED BY <1>8, <3>1
    <2>3. CASE i # k /\ j # k
        <3> DEFINE p == IF i < k THEN i ELSE i - 1
                   q == IF j < k THEN j ELSE j - 1
        <3>1. p \in 1 .. Len(rows) /\ q \in 1 .. Len(rows) /\ p < q
            BY <1>1, <2>3
        <3>2. more[i] = rows[p] /\ more[j] = rows[q]
            BY <1>8, <2>3
        <3> HIDE DEF p, q
        <3> QED BY <1>1, <3>1, <3>2 DEF RowsOrdered
    <2> QED BY <2>1, <2>2, <2>3
<1>11. \A i \in DOMAIN more : \E n \in Member : g[n] # Absent /\ more[i] = RowOf(n, g[n], c, v)
    <2> SUFFICES ASSUME NEW i \in 1 .. Len(rows) + 1
                 PROVE  \E n \in Member : g[n] # Absent /\ more[i] = RowOf(n, g[n], c, v)
        BY <1>9
    <2>1. CASE i = k
        BY <2>1, <1>3, <1>8 DEF row
    <2>2. CASE i # k
        <3> DEFINE p == IF i < k THEN i ELSE i - 1
        <3>1. p \in 1 .. Len(rows) /\ more[i] = rows[p]
            BY <1>1, <1>8, <2>2
        <3> HIDE DEF p
        <3>2. PICK n \in Member : f[n] # Absent /\ rows[p] = RowOf(n, f[n], c, v)
            BY <1>2, <3>1
        <3>3. n # m
            BY <3>2
        <3> QED BY <1>3, <3>1, <3>2, <3>3
    <2> QED BY <2>1, <2>2
<1>12. \A n \in Member : g[n] # Absent => \E i \in DOMAIN more : more[i] = RowOf(n, g[n], c, v)
    <2> SUFFICES ASSUME NEW n \in Member, g[n] # Absent
                 PROVE  \E i \in 1 .. Len(rows) + 1 : more[i] = RowOf(n, g[n], c, v)
        BY <1>9
    <2>1. CASE n = m
        BY <2>1, <1>3, <1>8 DEF row
    <2>2. CASE n # m
        <3>1. PICK j \in 1 .. Len(rows) : rows[j] = RowOf(n, f[n], c, v)
            BY <1>2, <1>3, <2>2
        <3> DEFINE i == IF j < k THEN j ELSE j + 1
        <3>2. i \in 1 .. Len(rows) + 1 /\ i # k /\ j = IF i < k THEN i ELSE i - 1
            BY <1>1
        <3> HIDE DEF i
        <3>3. more[i] = rows[j]
            BY <1>8, <3>2
        <3> QED BY <1>3, <2>2, <3>1, <3>2, <3>3
    <2> QED BY <2>1, <2>2
<1>13. Shows(more, g, c, v)
    BY <1>7, <1>10, <1>11, <1>12 DEF Shows
<1> QED BY <1>13 DEF more, row, g

-----------------------------------------------------------------------------
\* The rows of a page drawn at once, and the proof that patching reaches them.

\* The rows the server draws when the containers are in the states f.
Listing(f, c, v) ==
    LET there == InDisplayOrder({m \in Member : f[m] # Absent})
    IN [i \in DOMAIN there |-> RowOf(there[i], f[there[i]], c, v)]

\* A page with its totals and its message counted from the rows.
Counted(rows, v) ==
    LET online == Cardinality({i \in DOMAIN rows : rows[i].online})
    IN [rows |-> rows,
        totals |-> [Online |-> online, Offline |-> Len(rows) - online],
        empty |-> (IF v = "overview" THEN online ELSE Len(rows)) = 0]

\* The containers that f has a state for.
Present(f) == {m \in Member : f[m] # Absent}

\* The same in display order.
Queue(f) == InDisplayOrder(Present(f))

\* Its rows, place by place.
LEMMA ListingDef ==
    ASSUME NEW f, NEW c, NEW v
    PROVE  /\ Queue(f) \in Seq(Present(f)) /\ DisplaySorted(Queue(f))
           /\ Len(Queue(f)) \in Nat /\ DOMAIN Queue(f) = 1 .. Len(Queue(f))
           /\ \A i \in 1 .. Len(Queue(f)) :
                Queue(f)[i] \in Member /\ f[Queue(f)[i]] # Absent
           /\ \A m \in Present(f) : \E i \in 1 .. Len(Queue(f)) : Queue(f)[i] = m
           /\ DOMAIN Listing(f, c, v) = 1 .. Len(Queue(f))
           /\ \A i \in 1 .. Len(Queue(f)) :
                Listing(f, c, v)[i] = RowOf(Queue(f)[i], f[Queue(f)[i]], c, v)
<1>1. Present(f) \in SUBSET Member
    BY DEF Present
<1>2. /\ Queue(f) \in Seq(Present(f)) /\ DisplaySorted(Queue(f))
      /\ \A m \in Present(f) : \E i \in DOMAIN Queue(f) : Queue(f)[i] = m
    BY <1>1, InDisplayOrderSorts DEF Queue
<1>3. Len(Queue(f)) \in Nat /\ DOMAIN Queue(f) = 1 .. Len(Queue(f))
    BY <1>2, LenProperties
<1>4. \A i \in 1 .. Len(Queue(f)) : Queue(f)[i] \in Present(f)
    BY <1>2, ElementOfSeq
<1>5. Listing(f, c, v) = [i \in DOMAIN Queue(f) |-> RowOf(Queue(f)[i], f[Queue(f)[i]], c, v)]
    BY DEF Listing, Present, Queue
<1>6. \A i \in 1 .. Len(Queue(f)) : Queue(f)[i] \in Member /\ f[Queue(f)[i]] # Absent
    BY <1>4 DEF Present
<1>7. /\ DOMAIN Listing(f, c, v) = 1 .. Len(Queue(f))
      /\ \A i \in 1 .. Len(Queue(f)) :
           Listing(f, c, v)[i] = RowOf(Queue(f)[i], f[Queue(f)[i]], c, v)
    BY <1>3, <1>5
<1> QED BY <1>2, <1>3, <1>6, <1>7

\* What the server draws shows the containers.
LEMMA ListingShows ==
    ASSUME NEW c, NEW v, NEW f \in [Member -> States]
    PROVE  Shows(Listing(f, c, v), f, c, v)
<1> DEFINE there == Queue(f)
           rows == Listing(f, c, v)
<1>1. DisplaySorted(there) /\ Len(there) \in Nat /\ DOMAIN there = 1 .. Len(there)
    BY ListingDef
<1>2. \A i \in 1 .. Len(there) : there[i] \in Member /\ f[there[i]] # Absent
    BY ListingDef
<1>3. \A m \in Present(f) : \E i \in 1 .. Len(there) : there[i] = m
    BY ListingDef
<1>4. /\ DOMAIN rows = 1 .. Len(there)
      /\ \A i \in 1 .. Len(there) : rows[i] = RowOf(there[i], f[there[i]], c, v)
    BY ListingDef
<1>5. rows = [i \in DOMAIN rows |-> rows[i]]
    BY DEF Listing
<1> HIDE DEF there, rows
<1>6. \A i \in 1 .. Len(there) : rows[i] \in Drawn(c, v)
    BY <1>2, <1>4 DEF Drawn
<1>7. rows \in [1 .. Len(there) -> Drawn(c, v)]
    BY <1>4, <1>5, <1>6
<1>8. rows \in Seq(Drawn(c, v))
    BY <1>1, <1>7, FunctionIsSequence
<1>9. RowsOrdered(rows)
    <2> SUFFICES ASSUME NEW i \in 1 .. Len(there), NEW j \in 1 .. Len(there), i < j
                 PROVE  Less(rows[i].sort, rows[j].sort)
        BY <1>4 DEF RowsOrdered
    <2>1. Before(there[i], there[j])
        BY <1>1 DEF DisplaySorted
    <2>2. rows[i].sort = SortKey(there[i]) /\ rows[j].sort = SortKey(there[j])
        BY <1>2, <1>4, RowFields
    <2> QED BY <1>2, <2>1, <2>2, SortKeyOrder
<1>10. \A i \in DOMAIN rows : \E m \in Member :
         f[m] # Absent /\ rows[i] = RowOf(m, f[m], c, v)
    BY <1>2, <1>4
<1>11. \A m \in Member : f[m] # Absent =>
         \E i \in DOMAIN rows : rows[i] = RowOf(m, f[m], c, v)
    BY <1>3, <1>4 DEF Present
<1>12. Shows(rows, f, c, v)
    BY <1>8, <1>9, <1>10, <1>11 DEF Shows
<1> QED BY <1>12 DEF rows

\* Rows that show the containers are what the server draws.
LEMMA ShowsListing ==
    ASSUME NEW c, NEW v, NEW f \in [Member -> States], NEW rows, Shows(rows, f, c, v)
    PROVE  rows = Listing(f, c, v)
<1> DEFINE Drew(i, m) == f[m] # Absent /\ rows[i] = RowOf(m, f[m], c, v)
           s == [i \in 1 .. Len(rows) |-> CHOOSE m \in Member : Drew(i, m)]
<1>1. /\ rows \in Seq(Drawn(c, v)) /\ Len(rows) \in Nat /\ DOMAIN rows = 1 .. Len(rows)
      /\ RowsOrdered(rows)
    BY LenProperties DEF Shows
<1>2. \A i \in 1 .. Len(rows) : \E m \in Member : Drew(i, m)
    BY <1>1 DEF Shows
<1>3. \A m \in Member : f[m] # Absent =>
        \E i \in 1 .. Len(rows) : rows[i] = RowOf(m, f[m], c, v)
    BY <1>1 DEF Shows
<1> HIDE DEF Drew
<1>4. \A i \in 1 .. Len(rows) : s[i] \in Member /\ Drew(i, s[i])
    BY <1>2
<1>5. DOMAIN s = 1 .. Len(rows) /\ s = [i \in 1 .. Len(rows) |-> s[i]]
    OBVIOUS
<1> HIDE DEF s
<1>6. \A i \in 1 .. Len(rows) : /\ s[i] \in Member /\ s[i] \in Present(f)
                                /\ rows[i] = RowOf(s[i], f[s[i]], c, v)
                                /\ rows[i].sort = SortKey(s[i])
                                /\ rows[i].id = s[i].ContainerID
    BY <1>4, RowFields DEF Drew, Present
<1>7. s \in [1 .. Len(rows) -> Present(f)]
    BY <1>5, <1>6
<1>8. s \in Seq(Present(f)) /\ Len(s) = Len(rows)
    BY <1>1, <1>7, FunctionIsSequence
<1>9. DisplaySorted(s)
    <2> SUFFICES ASSUME NEW i \in 1 .. Len(rows), NEW j \in 1 .. Len(rows), i < j
                 PROVE  Before(s[i], s[j])
        BY <1>5 DEF DisplaySorted
    <2>1. Less(SortKey(s[i]), SortKey(s[j]))
        BY <1>1, <1>6 DEF RowsOrdered
    <2> QED BY <2>1, <1>6, SortKeyOrder
<1>10. \A m \in Present(f) : \E i \in DOMAIN s : s[i] = m
    <2> SUFFICES ASSUME NEW m \in Present(f)
                 PROVE  \E i \in 1 .. Len(rows) : s[i] = m
        BY <1>5
    <2>1. m \in Member /\ f[m] # Absent
        BY DEF Present
    <2>2. PICK i \in 1 .. Len(rows) : rows[i] = RowOf(m, f[m], c, v)
        BY <1>3, <2>1
    <2>3. m.ContainerID = s[i].ContainerID
        BY <1>6, <2>1, <2>2, RowFields
    <2> QED BY <1>6, <2>1, <2>3, IdAssumption
<1>11. s = InDisplayOrder(Present(f))
    <2>1. Present(f) \in SUBSET Member
        BY DEF Present
    <2> QED BY <1>8, <1>9, <1>10, <2>1, SortedIsDisplayOrder
<1>12. Listing(f, c, v) = [i \in 1 .. Len(rows) |-> rows[i]]
    <2>1. Listing(f, c, v) = [i \in 1 .. Len(rows) |-> RowOf(s[i], f[s[i]], c, v)]
        BY <1>5, <1>11 DEF Listing, Present
    <2> QED BY <1>6, <2>1
<1>13. rows \in [1 .. Len(rows) -> Drawn(c, v)]
    BY <1>1, LenProperties
<1> QED BY <1>12, <1>13

\* The frame for a container that is now in a state, or gone.
FrameOf(m, state, c, v) ==
    IF state = Absent THEN [action |-> "removed", id |-> m.ContainerID]
    ELSE [action |-> "changed", id |-> m.ContainerID, row |-> RowOf(m, state, c, v)]

\* The rows after the change listener applied a frame.
Patched(rows, frame) ==
    IF frame.action = "removed" THEN Without(rows, frame.id) ELSE upsert(rows, frame.row)

\* The fields of a frame that the listener reads.
LEMMA FrameFields ==
    ASSUME NEW m, NEW state, NEW c, NEW v
    PROVE  /\ FrameOf(m, state, c, v).id = m.ContainerID
           /\ (FrameOf(m, state, c, v).action = "removed") <=> (state = Absent)
           /\ state # Absent => FrameOf(m, state, c, v).row = RowOf(m, state, c, v)
BY DEF FrameOf

\* The states f, with that of m replaced.
With(f, m, state) == [f EXCEPT ![m] = state]

\* A drawn page that is patched with the frame for one container is the page drawn
\* with that container's new state.
LEMMA PatchShows ==
    ASSUME NEW c, NEW v, NEW f \in [Member -> States], NEW m \in Member,
           NEW state \in States
    PROVE  Patched(Listing(f, c, v), FrameOf(m, state, c, v)) = Listing(With(f, m, state), c, v)
<1> DEFINE rows == Listing(f, c, v)
           less == [f EXCEPT ![m] = Absent]
           g == [f EXCEPT ![m] = state]
           left == Without(rows, m.ContainerID)
<1>0. With(f, m, state) = g
    BY DEF With
<1>1. Shows(rows, f, c, v)
    BY ListingShows
<1>2. Shows(left, less, c, v)
    BY <1>1, ShowsWithout
<1>3. less \in [Member -> States] /\ g \in [Member -> States] /\ less[m] = Absent
      /\ [less EXCEPT ![m] = state] = g /\ (state = Absent => less = g)
    BY DEF States
<1>4. CASE state = Absent
    <2>1. Patched(rows, FrameOf(m, state, c, v)) = left
        BY <1>4, FrameFields DEF Patched
    <2> HIDE DEF left, less
    <2>2. left = Listing(g, c, v)
        BY <1>2, <1>3, <1>4, ShowsListing
    <2> QED BY <1>0, <2>1, <2>2
<1>5. CASE state # Absent
    <2>1. Patched(rows, FrameOf(m, state, c, v)) = insert(left, RowOf(m, state, c, v))
        BY <1>5, FrameFields, RowFields DEF Patched, upsert
    <2> HIDE DEF left, less
    <2>2. Shows(insert(left, RowOf(m, state, c, v)), [less EXCEPT ![m] = state], c, v)
        BY <1>2, <1>3, <1>5, ShowsInsert
    <2>3. Shows(insert(left, RowOf(m, state, c, v)), g, c, v)
        BY <1>3, <2>2
    <2> HIDE DEF g
    <2>4. insert(left, RowOf(m, state, c, v)) = Listing(g, c, v)
        BY <1>3, <2>3, ShowsListing
    <2> QED BY <1>0, <2>1, <2>4
<1> QED BY <1>4, <1>5

-----------------------------------------------------------------------------
\* The definitions of the model in these terms.

\* The two listings.
ViewNames == {"services", "overview"}

\* The stream's renderer draws the rows of the page that is open.
LEMMA RenderIsRow ==
    ASSUME view \in ViewNames, NEW m, NEW state
    PROVE  Render(Described(m, state)) = RowOf(m, state, control, view)
BY DEF ViewNames, Render, ParseView, RowOf

\* A frame carries the row that the page that is open would have.
LEMMA FrameForIsFrameOf ==
    ASSUME view \in ViewNames, NEW m, NEW state
    PROVE  FrameFor(m, state) = FrameOf(m, state, control, view)
BY RenderIsRow DEF FrameFor, FrameOf

\* The service list, place by place.
LEMMA SortedServicesDef ==
    /\ DOMAIN SortedServices = DOMAIN Queue(observed)
    /\ \A i \in DOMAIN Queue(observed) :
         SortedServices[i] = Described(Queue(observed)[i], observed[Queue(observed)[i]])
    /\ SortedServices = [i \in DOMAIN SortedServices |-> SortedServices[i]]
BY DEF SortedServices, Queue, Present

\* recount, with the page that is open.
LEMMA RecountIsCounted ==
    ASSUME NEW rows
    PROVE  /\ recount(rows) = Counted(rows, view)
           /\ Counted(rows, view).rows = rows
BY DEF recount, Counted

\* Either page lists the services of the last refresh.
LEMMA ItemsAreListing ==
    ASSUME NEW v
    PROVE  Items(SortedServices, control, v = "services") = Listing(observed, control, v)
<1>1. Items(SortedServices, control, v = "services")
        = [i \in DOMAIN Queue(observed) |->
             ServiceItem(SortedServices[i], control, v = "services")]
    BY SortedServicesDef DEF Items
<1>2. \A i \in DOMAIN Queue(observed) :
        ServiceItem(SortedServices[i], control, v = "services")
            = RowOf(Queue(observed)[i], observed[Queue(observed)[i]], control, v)
    BY SortedServicesDef DEF RowOf
<1>3. Listing(observed, control, v) = [i \in DOMAIN Queue(observed) |->
             RowOf(Queue(observed)[i], observed[Queue(observed)[i]], control, v)]
    BY DEF Listing, Queue, Present
<1> QED BY <1>1, <1>2, <1>3

\* The totals and the message that a handler computes from the services are those
\* the script counts from their rows: hidden rows are counted, and the front page's
\* message depends on the running ones.
LEMMA FullPageIsCounted ==
    ASSUME NEW v \in ViewNames
    PROVE  FullPage(v) = Counted(Listing(observed, control, v), v)
<1> DEFINE rows == Listing(observed, control, v)
           online == {i \in DOMAIN SortedServices : Online(SortedServices[i])}
<1>1. Items(SortedServices, control, v = "services") = rows
    BY ItemsAreListing
<1>2. /\ DOMAIN rows = 1 .. Len(Queue(observed))
      /\ \A i \in 1 .. Len(Queue(observed)) :
           rows[i] = RowOf(Queue(observed)[i], observed[Queue(observed)[i]], control, v)
    BY ListingDef
<1>3. \A i \in 1 .. Len(Queue(observed)) : Queue(observed)[i] \in Member
    BY ListingDef
<1>4. Len(Queue(observed)) \in Nat /\ DOMAIN Queue(observed) = 1 .. Len(Queue(observed))
    BY ListingDef
<1>5. {i \in DOMAIN rows : rows[i].online} = online
    <2>1. \A i \in 1 .. Len(Queue(observed)) :
            rows[i].online = (observed[Queue(observed)[i]] = "running")
        BY <1>2, <1>3, RowFields
    <2>2. \A i \in 1 .. Len(Queue(observed)) :
            Online(SortedServices[i]) <=> observed[Queue(observed)[i]] = "running"
        BY <1>4, SortedServicesDef DEF Online, Described
    <2> HIDE DEF rows
    <2> QED BY <1>2, <1>4, <2>1, <2>2, SortedServicesDef
<1>6. Len(rows) = Len(SortedServices) /\ Len(rows) = Len(Queue(observed))
    BY <1>2, <1>4, SortedServicesDef
<1>7. hasRunning(SortedServices) <=> Cardinality(online) # 0
    <2>1. IsFiniteSet(online)
        <3>1. IsFiniteSet(1 .. Len(Queue(observed)))
            BY <1>4, FS_Interval
        <3>2. online \in SUBSET (1 .. Len(Queue(observed)))
            BY <1>4, SortedServicesDef
        <3> HIDE DEF online
        <3> QED BY <3>1, <3>2, FS_Subset
    <2>2. Cardinality(online) = 0 <=> online = {}
        <3> HIDE DEF online
        <3> QED BY <2>1, FS_EmptySet
    <2> QED BY <2>2 DEF hasRunning
<1>8. SortedServices = <<>> <=> Len(SortedServices) = 0
    BY <1>4, <1>6, SortedServicesDef
<1>9. Summarize(SortedServices)
        = [Online |-> Cardinality(online), Offline |-> Len(rows) - Cardinality(online)]
    BY <1>6 DEF Summarize
<1>10. Counted(rows, v) =
         [rows |-> rows,
          totals |-> [Online |-> Cardinality(online),
                      Offline |-> Len(rows) - Cardinality(online)],
          empty |-> (IF v = "overview" THEN Cardinality(online) ELSE Len(rows)) = 0]
    BY <1>5 DEF Counted
<1> HIDE DEF rows, online
<1>11. CASE v = "overview"
    <2>1. Items(SortedServices, control, FALSE) = rows
        BY <1>1, <1>11
    <2>2. FullPage(v) = [rows |-> rows, totals |-> Summarize(SortedServices),
                         empty |-> ~hasRunning(SortedServices)]
        BY <1>11, <2>1 DEF FullPage, Overview
    <2>3. (~hasRunning(SortedServices)) = (Cardinality(online) = 0)
        BY <1>7
    <2> QED BY <1>9, <1>10, <1>11, <2>2, <2>3 DEF rows
<1>12. CASE v = "services"
    <2>1. Items(SortedServices, control, TRUE) = rows
        BY <1>1, <1>12
    <2>2. FullPage(v) = [rows |-> rows, totals |-> Summarize(SortedServices),
                         empty |-> SortedServices = <<>>]
        BY <1>12, <2>1 DEF FullPage, ServicesList
    <2>3. (SortedServices = <<>>) = (Len(rows) = 0)
        BY <1>6, <1>8
    <2> QED BY <1>9, <1>10, <1>12, <2>2, <2>3 DEF rows
<1> QED BY <1>11, <1>12 DEF ViewNames

-----------------------------------------------------------------------------
\* The invariant: at every moment the page is what a handler would have drawn for
\* some states of the containers, and on an open stream the frames on their way
\* lead from those states to the ones of the last refresh.

\* Every frame there can be.
FrameSet(c, v) == {FrameOf(m, state, c, v) : m \in Member, state \in States}

\* For each container, the last frame about it brings its state in target, and
\* without a frame it is there already.
Leads(frames, f, target, c, v) ==
    \A m \in Member :
        \/ /\ f[m] = target[m]
           /\ \A i \in DOMAIN frames : frames[i].id # m.ContainerID
        \/ \E i \in DOMAIN frames :
             /\ frames[i] = FrameOf(m, target[m], c, v)
             /\ \A j \in DOMAIN frames : i < j => frames[j].id # m.ContainerID

\* What the variables range over.
TableShape ==
    /\ observed \in [Member -> States]
    /\ control \in BOOLEAN
    /\ view \in ViewNames
    /\ arriving \in Seq(FrameSet(control, view))

\* The page is drawn from the states f, and the frames lead on from there.
Rendered(f) ==
    /\ table = Counted(Listing(f, control, view), view)
    /\ connected => Leads(arriving, f, observed, control, view)

\* The inductive invariant.
TableInv ==
    /\ TableShape
    /\ ~connected => arriving = <<>>
    /\ \E f \in [Member -> States] : Rendered(f)

\* Nothing has to be on its way to a page that is up to date.
LEMMA LeadsNowhere ==
    ASSUME NEW f \in [Member -> States], NEW c, NEW v
    PROVE  Leads(<<>>, f, f, c, v)
BY DEF Leads

\* A page that nothing is on its way to is up to date.
LEMMA LeadsFromHere ==
    ASSUME NEW f \in [Member -> States], NEW target \in [Member -> States],
           NEW c, NEW v, Leads(<<>>, f, target, c, v)
    PROVE  f = target
BY DEF Leads

\* The frame applied first takes the states a step on: a frame about the same
\* container may be behind it, and if not it brings the last state.
LEMMA LeadsOnPatch ==
    ASSUME NEW c, NEW v, NEW frames \in Seq(FrameSet(c, v)), frames # <<>>,
           NEW f \in [Member -> States], NEW target \in [Member -> States],
           Leads(frames, f, target, c, v)
    PROVE  \E m \in Member, state \in States :
             /\ Head(frames) = FrameOf(m, state, c, v)
             /\ Leads(Tail(frames), With(f, m, state), target, c, v)
<1> DEFINE rest == Tail(frames)
<1>1. /\ Len(frames) \in Nat \ {0} /\ DOMAIN frames = 1 .. Len(frames)
      /\ Head(frames) = frames[1] /\ frames[1] \in FrameSet(c, v)
    <2>1. Len(frames) \in Nat \ {0} /\ DOMAIN frames = 1 .. Len(frames)
        BY EmptySeq, LenProperties
    <2>2. frames[1] \in FrameSet(c, v)
        BY <2>1, ElementOfSeq
    <2> QED BY <2>1, <2>2
<1>2. /\ rest \in Seq(FrameSet(c, v)) /\ DOMAIN rest = 1 .. Len(frames) - 1
      /\ \A i \in 1 .. Len(frames) - 1 : rest[i] = frames[i + 1]
    <2>1. /\ rest \in Seq(FrameSet(c, v)) /\ Len(rest) = Len(frames) - 1
          /\ \A i \in 1 .. Len(rest) : rest[i] = frames[i + 1]
        BY HeadTailProperties
    <2>2. DOMAIN rest = 1 .. Len(rest)
        BY <2>1, LenProperties
    <2> QED BY <2>1, <2>2
<1> HIDE DEF rest
<1>3. PICK m \in Member, known \in States : frames[1] = FrameOf(m, known, c, v)
    BY <1>1 DEF FrameSet
<1> DEFINE Last1 == \A i \in DOMAIN rest : rest[i].id # m.ContainerID
           state == IF Last1 THEN target[m] ELSE known
           g == [f EXCEPT ![m] = state]
<1>4. frames[1].id = m.ContainerID
    BY <1>3, FrameFields
<1>5. Last1 => frames[1] = FrameOf(m, target[m], c, v)
    <2> SUFFICES ASSUME Last1 PROVE frames[1] = FrameOf(m, target[m], c, v)
        OBVIOUS
    <2>1. PICK i \in DOMAIN frames : frames[i] = FrameOf(m, target[m], c, v)
        BY <1>1, <1>4 DEF Leads
    <2>2. i = 1
        <3>1. frames[i].id = m.ContainerID
            BY <2>1, FrameFields
        <3>2. i # 1 => i - 1 \in DOMAIN rest /\ rest[i - 1] = frames[i]
            BY <1>1, <1>2
        <3> QED BY <3>1, <3>2
    <2> QED BY <2>1, <2>2
<1>6. state \in States /\ Head(frames) = FrameOf(m, state, c, v)
    BY <1>1, <1>3, <1>5
<1>7. Leads(rest, g, target, c, v)
    <2> SUFFICES ASSUME NEW n \in Member
                 PROVE  \/ /\ g[n] = target[n]
                           /\ \A i \in DOMAIN rest : rest[i].id # n.ContainerID
                        \/ \E i \in DOMAIN rest :
                             /\ rest[i] = FrameOf(n, target[n], c, v)
                             /\ \A j \in DOMAIN rest : i < j => rest[j].id # n.ContainerID
        BY DEF Leads
    <2>1. ASSUME NEW i \in DOMAIN frames, i # 1, frames[i] = FrameOf(n, target[n], c, v),
                 \A j \in DOMAIN frames : i < j => frames[j].id # n.ContainerID
          PROVE  \E k \in DOMAIN rest :
                   /\ rest[k] = FrameOf(n, target[n], c, v)
                   /\ \A j \in DOMAIN rest : k < j => rest[j].id # n.ContainerID
        <3>1. i - 1 \in DOMAIN rest /\ rest[i - 1] = FrameOf(n, target[n], c, v)
            BY <1>1, <1>2, <2>1
        <3>2. \A j \in DOMAIN rest : i - 1 < j => rest[j].id # n.ContainerID
            <4> SUFFICES ASSUME NEW j \in DOMAIN rest, i - 1 < j
                         PROVE  rest[j].id # n.ContainerID
                OBVIOUS
            <4>1. j + 1 \in DOMAIN frames /\ i < j + 1 /\ rest[j] = frames[j + 1]
                BY <1>1, <1>2
            <4> QED BY <4>1, <2>1
        <3> QED BY <3>1, <3>2
    <2>2. CASE n # m
        <3>1. g[n] = f[n] /\ frames[1].id # n.ContainerID
            BY <2>2, <1>4, IdAssumption
        <3>2. CASE f[n] = target[n] /\ \A i \in DOMAIN frames : frames[i].id # n.ContainerID
            <4>1. \A i \in DOMAIN rest : rest[i].id # n.ContainerID
                <5> TAKE i \in DOMAIN rest
                <5>1. i + 1 \in DOMAIN frames /\ rest[i] = frames[i + 1]
                    BY <1>1, <1>2
                <5> QED BY <5>1, <3>2
            <4> QED BY <3>1, <3>2, <4>1
        <3>3. ASSUME NEW i \in DOMAIN frames, frames[i] = FrameOf(n, target[n], c, v),
                     \A j \in DOMAIN frames : i < j => frames[j].id # n.ContainerID
              PROVE  \E k \in DOMAIN rest :
                       /\ rest[k] = FrameOf(n, target[n], c, v)
                       /\ \A j \in DOMAIN rest : k < j => rest[j].id # n.ContainerID
            <4>1. i # 1
                BY <3>1, <3>3, FrameFields
            <4> QED BY <4>1, <3>3, <2>1
        <3> QED BY <3>2, <3>3 DEF Leads
    <2>3. CASE n = m /\ Last1
        <3>1. g[n] = target[n]
            BY <2>3
        <3> QED BY <2>3, <3>1
    <2>4. CASE n = m /\ ~Last1
        <3>1. PICK k \in DOMAIN rest : rest[k].id = m.ContainerID
            BY <2>4
        <3>2. k + 1 \in DOMAIN frames /\ 1 < k + 1 /\ frames[k + 1].id = m.ContainerID
            BY <1>1, <1>2, <3>1
        <3>3. PICK i \in DOMAIN frames :
                /\ frames[i] = FrameOf(n, target[n], c, v)
                /\ \A j \in DOMAIN frames : i < j => frames[j].id # n.ContainerID
            BY <2>4, <3>2 DEF Leads
        <3>4. i # 1
            BY <2>4, <3>2, <3>3
        <3> QED BY <3>3, <3>4, <2>1
    <2> QED BY <2>2, <2>3, <2>4
<1> HIDE DEF state
<1> QED BY <1>6, <1>7 DEF rest, With

\* The frames that a refresh appends lead to what it saw: one for each container
\* that changed, and none for the others.
LEMMA LeadsAfterRefresh ==
    ASSUME NEW c, NEW v, NEW frames \in Seq(FrameSet(c, v)),
           NEW f \in [Member -> States], NEW target \in [Member -> States],
           Leads(frames, f, target, c, v),
           NEW changed \in SUBSET Member, NEW next \in [changed -> States],
           NEW after \in [Member -> States],
           \A m \in Member : after[m] = IF m \in changed THEN next[m] ELSE target[m],
           NEW new, new = [i \in DOMAIN InDisplayOrder(changed) |->
                             FrameOf(InDisplayOrder(changed)[i],
                                     next[InDisplayOrder(changed)[i]], c, v)]
    PROVE  frames \o new \in Seq(FrameSet(c, v)) /\ Leads(frames \o new, f, after, c, v)
<1> DEFINE events == InDisplayOrder(changed)
           all == frames \o new
<1>1. Len(frames) \in Nat /\ DOMAIN frames = 1 .. Len(frames)
    BY LenProperties
<1>2. /\ events \in Seq(changed) /\ DisplaySorted(events)
      /\ \A m \in changed : \E i \in DOMAIN events : events[i] = m
    BY InDisplayOrderSorts
<1>3. /\ Len(events) \in Nat /\ DOMAIN events = 1 .. Len(events)
      /\ \A i \in 1 .. Len(events) : events[i] \in changed /\ events[i] \in Member
    BY <1>2, LenProperties, ElementOfSeq
<1>4. new = [i \in DOMAIN events |-> FrameOf(events[i], next[events[i]], c, v)]
    OBVIOUS
<1> HIDE DEF events
<1>5. \A i \in 1 .. Len(events) : /\ new[i] = FrameOf(events[i], next[events[i]], c, v)
                                  /\ new[i] \in FrameSet(c, v)
                                  /\ new[i].id = events[i].ContainerID
    <2> TAKE i \in 1 .. Len(events)
    <2>1. new[i] = FrameOf(events[i], next[events[i]], c, v)
        BY <1>3, <1>4
    <2>2. next[events[i]] \in States
        BY <1>3
    <2> QED BY <1>3, <2>1, <2>2, FrameFields DEF FrameSet
<1>6. new \in Seq(FrameSet(c, v)) /\ Len(new) = Len(events)
    <2>1. new \in [1 .. Len(events) -> FrameSet(c, v)]
        BY <1>3, <1>4, <1>5
    <2> QED BY <1>3, <2>1, FunctionIsSequence
<1>7. /\ all \in Seq(FrameSet(c, v)) /\ DOMAIN all = 1 .. Len(frames) + Len(events)
      /\ \A i \in 1 .. Len(frames) + Len(events) :
           all[i] = IF i <= Len(frames) THEN frames[i] ELSE new[i - Len(frames)]
    <2>1. /\ all \in Seq(FrameSet(c, v)) /\ Len(all) = Len(frames) + Len(new)
          /\ \A i \in 1 .. Len(frames) + Len(new) :
               all[i] = IF i <= Len(frames) THEN frames[i] ELSE new[i - Len(frames)]
        BY <1>6, ConcatProperties
    <2>2. DOMAIN all = 1 .. Len(all)
        BY <2>1, LenProperties
    <2> QED BY <1>6, <2>1, <2>2
<1> HIDE DEF all
<1>8. \A i \in 1 .. Len(frames) : i \in DOMAIN all /\ all[i] = frames[i]
    BY <1>1, <1>3, <1>7
<1>9. \A i \in 1 .. Len(events) :
        Len(frames) + i \in DOMAIN all /\ all[Len(frames) + i] = new[i]
    <2> TAKE i \in 1 .. Len(events)
    <2>1. /\ Len(frames) + i \in 1 .. Len(frames) + Len(events)
          /\ ~(Len(frames) + i <= Len(frames)) /\ Len(frames) + i - Len(frames) = i
        BY <1>1, <1>3
    <2> QED BY <1>7, <2>1
<1>10. \A k \in DOMAIN all : \/ k \in 1 .. Len(frames)
                             \/ \E i \in 1 .. Len(events) : k = Len(frames) + i
    <2> TAKE k \in DOMAIN all
    <2>1. CASE k <= Len(frames)
        BY <1>1, <1>3, <1>7, <2>1
    <2>2. CASE ~(k <= Len(frames))
        <3>1. k - Len(frames) \in 1 .. Len(events) /\ k = Len(frames) + (k - Len(frames))
            BY <1>1, <1>3, <1>7, <2>2
        <3> QED BY <3>1
    <2> QED BY <2>1, <2>2
<1>11. Leads(all, f, after, c, v)
    <2> SUFFICES ASSUME NEW m \in Member
                 PROVE  \/ /\ f[m] = after[m]
                           /\ \A i \in DOMAIN all : all[i].id # m.ContainerID
                        \/ \E i \in DOMAIN all :
                             /\ all[i] = FrameOf(m, after[m], c, v)
                             /\ \A j \in DOMAIN all : i < j => all[j].id # m.ContainerID
        BY DEF Leads
    <2>1. CASE m \in changed
        <3>1. PICK i \in 1 .. Len(events) : events[i] = m
            BY <1>2, <1>3, <2>1
        <3>2. all[Len(frames) + i] = FrameOf(m, after[m], c, v)
            BY <1>5, <1>9, <2>1, <3>1
        <3>3. \A j \in DOMAIN all : Len(frames) + i < j => all[j].id # m.ContainerID
            <4> SUFFICES ASSUME NEW j \in DOMAIN all, Len(frames) + i < j
                         PROVE  all[j].id # m.ContainerID
                OBVIOUS
            <4>1. PICK h \in 1 .. Len(events) : j = Len(frames) + h
                BY <1>1, <1>10
            <4>2. i < h
                BY <1>1, <4>1
            <4>3. Before(m, events[h])
                BY <1>2, <1>3, <3>1, <4>2 DEF DisplaySorted
            <4>4. events[h] # m
                BY <4>3, BeforeIrreflexive
            <4>5. events[h].ContainerID # m.ContainerID
                BY <1>3, <4>4, IdAssumption
            <4> QED BY <1>5, <1>9, <4>1, <4>5
        <3> QED BY <1>9, <3>2, <3>3
    <2>2. CASE m \notin changed
        <3>1. after[m] = target[m]
            BY <2>2
        <3>2. \A i \in 1 .. Len(events) : all[Len(frames) + i].id # m.ContainerID
            <4> TAKE i \in 1 .. Len(events)
            <4>1. events[i].ContainerID # m.ContainerID
                BY <1>3, <2>2, IdAssumption
            <4> QED BY <1>5, <1>9, <4>1
        <3>3. CASE f[m] = target[m] /\ \A i \in DOMAIN frames : frames[i].id # m.ContainerID
            <4>1. \A i \in DOMAIN all : all[i].id # m.ContainerID
                BY <1>1, <1>8, <1>10, <3>2, <3>3
            <4> QED BY <3>1, <3>3, <4>1
        <3>4. CASE \E i \in DOMAIN frames :
                     /\ frames[i] = FrameOf(m, target[m], c, v)
                     /\ \A j \in DOMAIN frames : i < j => frames[j].id # m.ContainerID
            <4>1. PICK i \in 1 .. Len(frames) :
                     /\ frames[i] = FrameOf(m, target[m], c, v)
                     /\ \A j \in 1 .. Len(frames) : i < j => frames[j].id # m.ContainerID
                BY <1>1, <3>4
            <4>2. \A j \in DOMAIN all : i < j => all[j].id # m.ContainerID
                BY <1>8, <1>10, <3>2, <4>1
            <4> QED BY <1>8, <3>1, <4>1, <4>2
        <3> QED BY <3>3, <3>4 DEF Leads
    <2> QED BY <2>1, <2>2
<1> QED BY <1>7, <1>11 DEF all

-----------------------------------------------------------------------------
\* Every step preserves it.

\* The first page is drawn from the last refresh.
LEMMA TableInitInv == TableInit => TableInv
<1> SUFFICES ASSUME TableInit PROVE TableInv
    OBVIOUS
<1>1. TableShape
    <2>1. arriving \in Seq(FrameSet(control, view))
        BY EmptySeq DEF TableInit
    <2> QED BY <2>1 DEF TableInit, TableShape, States, ViewNames
<1>2. Rendered(observed)
    BY <1>1, FullPageIsCounted DEF TableInit, Rendered, TableShape
<1> QED BY <1>1, <1>2 DEF TableInv, TableInit, TableShape

\* A step of another page keeps the invariant.
LEMMA TableInvUnchanged == TableInv /\ UNCHANGED tableVars => TableInv'
<1> SUFFICES ASSUME TableInv, UNCHANGED tableVars PROVE TableInv'
    OBVIOUS
<1>1. /\ observed' = observed /\ control' = control /\ view' = view
      /\ table' = table /\ connected' = connected /\ arriving' = arriving
    BY DEF tableVars
<1> QED BY <1>1 DEF TableInv, TableShape, Rendered

\* The change listener patches the page that the frames lead on from.
LEMMA ApplyInv == TableInv /\ Apply => TableInv'
<1> SUFFICES ASSUME TableInv, Apply PROVE TableInv'
    OBVIOUS
<1>1. /\ arriving # <<>> /\ arriving' = Tail(arriving)
      /\ observed' = observed /\ control' = control /\ view' = view
      /\ connected' = connected /\ connected
    BY DEF Apply, TableInv
<1>2. PICK f \in [Member -> States] : Rendered(f)
    BY DEF TableInv
<1>3. Leads(arriving, f, observed, control, view)
    BY <1>1, <1>2 DEF Rendered
<1>4. PICK m \in Member, state \in States :
        /\ Head(arriving) = FrameOf(m, state, control, view)
        /\ Leads(Tail(arriving), With(f, m, state), observed, control, view)
    BY <1>1, <1>3, LeadsOnPatch DEF TableInv, TableShape
<1>g. PICK g : g = With(f, m, state)
    OBVIOUS
<1>5. table.rows = Listing(f, control, view)
    BY <1>2, RecountIsCounted DEF Rendered
<1>6. table' = recount(Patched(table.rows, Head(arriving)))
    BY DEF Apply, Patched
<1>7. table' = Counted(Listing(g, control, view), view)
    <2>1. Patched(table.rows, Head(arriving)) = Listing(g, control, view)
        <3>1. Patched(Listing(f, control, view), FrameOf(m, state, control, view))
                = Listing(g, control, view)
            BY <1>g, PatchShows
        <3>2. Head(arriving) = FrameOf(m, state, control, view)
            BY <1>4
        <3> QED BY <1>5, <3>1, <3>2
    <2>2. recount(Listing(g, control, view)) = Counted(Listing(g, control, view), view)
        BY RecountIsCounted
    <2> QED BY <1>6, <2>1, <2>2
<1>8. g \in [Member -> States]
    BY <1>g DEF With
<1>9. TableShape'
    <2>1. Tail(arriving) \in Seq(FrameSet(control, view))
        BY <1>1, HeadTailProperties DEF TableInv, TableShape
    <2> QED BY <1>1, <2>1 DEF TableInv, TableShape
<1>10. Rendered(g)'
    BY <1>1, <1>4, <1>7, <1>g DEF Rendered
<1> QED BY <1>1, <1>8, <1>9, <1>10 DEF TableInv

\* The sync frame draws the last refresh, and nothing else is on its way.
LEMMA ConnectInv == TableInv /\ Connect => TableInv'
<1> SUFFICES ASSUME TableInv, Connect PROVE TableInv'
    OBVIOUS
<1>1. /\ ~connected /\ arriving = <<>> /\ arriving' = <<>>
      /\ observed' = observed /\ control' = control /\ view' = view
      /\ observed \in [Member -> States] /\ view \in ViewNames
    BY DEF Connect, TableInv, TableShape
<1>2. table' = recount([i \in DOMAIN SortedServices |-> Render(SortedServices[i])])
    BY DEF Connect
<1>3. [i \in DOMAIN SortedServices |-> Render(SortedServices[i])]
        = Listing(observed, control, view)
    <2>1. [i \in DOMAIN SortedServices |-> Render(SortedServices[i])]
            = Items(SortedServices, control, view = "services")
        BY <1>1 DEF Items, Render, ParseView, ViewNames
    <2> QED BY <2>1, ItemsAreListing
<1>4. table' = Counted(Listing(observed, control, view), view)
    BY <1>2, <1>3, RecountIsCounted
<1>5. Leads(<<>>, observed, observed, control, view)
    BY <1>1, LeadsNowhere
<1>6. Rendered(observed)'
    BY <1>1, <1>4, <1>5 DEF Rendered
<1>7. TableShape'
    BY <1>1 DEF TableInv, TableShape
<1> QED BY <1>1, <1>6, <1>7 DEF TableInv

\* A page that lost its stream keeps what it shows.
LEMMA LoseInv == TableInv /\ Lose => TableInv'
<1> SUFFICES ASSUME TableInv, Lose PROVE TableInv'
    OBVIOUS
<1>1. /\ connected' = FALSE /\ arriving' = <<>>
      /\ observed' = observed /\ control' = control /\ view' = view /\ table' = table
    BY DEF Lose
<1>2. PICK f \in [Member -> States] : Rendered(f)
    BY DEF TableInv
<1>3. Rendered(f)'
    BY <1>1, <1>2 DEF Rendered
<1>4. TableShape'
    BY <1>1, EmptySeq DEF TableInv, TableShape
<1> QED BY <1>1, <1>3, <1>4 DEF TableInv

\* A page that is loaded anew is drawn from the last refresh.
LEMMA VisitInv == TableInv /\ Visit => TableInv'
<1> SUFFICES ASSUME TableInv, Visit PROVE TableInv'
    OBVIOUS
<1>1. /\ connected' = FALSE /\ arriving' = <<>>
      /\ observed' = observed /\ control' = control
      /\ observed \in [Member -> States]
    BY DEF Visit, TableInv, TableShape
<1>2. PICK shown \in ViewNames : view' = shown /\ table' = FullPage(shown)
    BY DEF Visit, ViewNames
<1>3. table' = Counted(Listing(observed, control, shown), shown)
    BY <1>2, FullPageIsCounted
<1>4. Rendered(observed)'
    BY <1>1, <1>2, <1>3 DEF Rendered
<1>5. TableShape'
    BY <1>1, <1>2, EmptySeq DEF TableInv, TableShape
<1> QED BY <1>1, <1>4, <1>5 DEF TableInv

\* A refresh sends the frames that lead to what it saw.
LEMMA RefreshTableInv == TableInv /\ RefreshTable => TableInv'
<1> SUFFICES ASSUME TableInv, RefreshTable PROVE TableInv'
    OBVIOUS
<1>1. /\ control' = control /\ view' = view /\ table' = table /\ connected' = connected
      /\ TableShape
    BY DEF RefreshTable, TableInv
<1>0. PICK changed \in SUBSET Member : \E next \in [changed -> States] :
         /\ observed' = [m \in Member |-> IF m \in changed THEN next[m] ELSE observed[m]]
         /\ LET events == InDisplayOrder(changed)
                new == [i \in DOMAIN events |-> FrameFor(events[i], next[events[i]])]
            IN arriving' = IF connected THEN arriving \o new ELSE <<>>
    BY DEF RefreshTable, States
<1>2. PICK next \in [changed -> States] :
         /\ observed' = [m \in Member |-> IF m \in changed THEN next[m] ELSE observed[m]]
         /\ LET events == InDisplayOrder(changed)
                new == [i \in DOMAIN events |-> FrameFor(events[i], next[events[i]])]
            IN arriving' = IF connected THEN arriving \o new ELSE <<>>
    BY <1>0
<1> DEFINE new == [i \in DOMAIN InDisplayOrder(changed) |->
                     FrameOf(InDisplayOrder(changed)[i],
                             next[InDisplayOrder(changed)[i]], control, view)]
<1>3. arriving' = IF connected THEN arriving \o new ELSE <<>>
    BY <1>1, <1>2, FrameForIsFrameOf DEF TableShape
<1>4. observed' \in [Member -> States]
    BY <1>1, <1>2 DEF TableShape
<1>5. \A m \in Member : observed'[m] = IF m \in changed THEN next[m] ELSE observed[m]
    BY <1>2
<1>6. PICK f \in [Member -> States] : Rendered(f)
    BY DEF TableInv
<1>7. CASE ~connected
    <2>1. arriving' = <<>>
        BY <1>3, <1>7
    <2>2. Rendered(f)'
        BY <1>1, <1>6, <1>7 DEF Rendered
    <2>3. TableShape'
        BY <1>1, <1>4, <2>1, EmptySeq DEF TableShape
    <2> QED BY <1>1, <1>7, <2>1, <2>2, <2>3 DEF TableInv
<1>8. CASE connected
    <2>1. arriving' = arriving \o new
        BY <1>3, <1>8
    <2>2. Leads(arriving, f, observed, control, view)
        BY <1>6, <1>8 DEF Rendered
    <2>3. arriving \in Seq(FrameSet(control, view)) /\ observed \in [Member -> States]
        BY <1>1 DEF TableShape
    <2>4. /\ arriving \o new \in Seq(FrameSet(control, view))
          /\ Leads(arriving \o new, f, observed', control, view)
        BY <1>4, <1>5, <2>2, <2>3, LeadsAfterRefresh
    <2> HIDE DEF new
    <2>5. Rendered(f)'
        BY <1>1, <1>6, <2>1, <2>4 DEF Rendered
    <2>6. TableShape'
        BY <1>1, <1>4, <2>1, <2>4 DEF TableShape
    <2> QED BY <1>1, <1>8, <2>5, <2>6 DEF TableInv
<1> QED BY <1>7, <1>8

\* Every step of the table keeps the invariant.
LEMMA TableStep == TableInv /\ (TableNext \/ UNCHANGED tableVars) => TableInv'
BY ApplyInv, ConnectInv, LoseInv, VisitInv, RefreshTableInv, TableInvUnchanged DEF TableNext

-----------------------------------------------------------------------------
\* What the invariant says of the page.

\* A page drawn at once is in the order of SortServices.
LEMMA TableInOrder == TableInv => InServerOrder
<1> SUFFICES ASSUME TableInv PROVE InServerOrder
    OBVIOUS
<1> DEFINE MemberOf(row) == CHOOSE m \in Member : m.ContainerID = row.id
           rows == table.rows
<1>1. PICK f \in [Member -> States] : rows = Listing(f, control, view)
    BY RecountIsCounted DEF TableInv, Rendered
<1>2. DisplaySorted(Queue(f)) /\ DOMAIN Queue(f) = 1 .. Len(Queue(f))
    BY ListingDef
<1>3. \A i \in 1 .. Len(Queue(f)) : Queue(f)[i] \in Member
    BY ListingDef
<1>4. /\ DOMAIN rows = 1 .. Len(Queue(f))
      /\ \A i \in 1 .. Len(Queue(f)) :
           rows[i] = RowOf(Queue(f)[i], f[Queue(f)[i]], control, view)
    <2>1. DOMAIN Listing(f, control, view) = 1 .. Len(Queue(f))
        BY ListingDef
    <2>2. \A i \in 1 .. Len(Queue(f)) :
            Listing(f, control, view)[i] = RowOf(Queue(f)[i], f[Queue(f)[i]], control, view)
        BY ListingDef
    <2> HIDE DEF rows
    <2> QED BY <1>1, <2>1, <2>2
<1> HIDE DEF rows
<1>5. \A i \in DOMAIN rows : MemberOf(rows[i]) = Queue(f)[i]
    <2> TAKE i \in DOMAIN rows
    <2>1. Queue(f)[i] \in Member /\ rows[i].id = Queue(f)[i].ContainerID
        BY <1>3, <1>4, RowFields
    <2>2. \A m \in Member : m.ContainerID = rows[i].id <=> m = Queue(f)[i]
        BY <2>1, IdAssumption
    <2> QED BY <2>1, <2>2
<1> HIDE DEF MemberOf
<1>6. \A i, j \in DOMAIN rows : i < j => Before(MemberOf(rows[i]), MemberOf(rows[j]))
    BY <1>2, <1>4, <1>5 DEF DisplaySorted
<1> QED BY <1>6 DEF InServerOrder, MemberOf, rows

\* A page that applied every frame is the one drawn from the last refresh.
LEMMA TableAsReloaded == TableInv => AsReloaded
<1> SUFFICES ASSUME TableInv, connected, arriving = <<>>
             PROVE  table = FullPage(view)
    BY DEF AsReloaded
<1>1. observed \in [Member -> States] /\ view \in ViewNames
    BY DEF TableInv, TableShape
<1>2. PICK f \in [Member -> States] : Rendered(f)
    BY DEF TableInv
<1>3. f = observed
    BY <1>1, <1>2, LeadsFromHere DEF Rendered
<1> QED BY <1>1, <1>2, <1>3, FullPageIsCounted DEF Rendered

\* Its rows offer the actions of the services they draw.
LEMMA TableOffers == TableInv => OffersAccepted
<1> SUFFICES ASSUME TableInv, connected, arriving = <<>>,
                    NEW i \in DOMAIN table.rows
             PROVE  table.rows[i].actions \ {"open"}
                      = {a \in {"start", "stop", "remove"} : Accepts(SortedServices[i], a)}
    BY DEF OffersAccepted
<1>1. view \in ViewNames /\ control \in BOOLEAN
    BY DEF TableInv, TableShape
<1>2. table.rows = Listing(observed, control, view)
    BY <1>1, TableAsReloaded, FullPageIsCounted, RecountIsCounted DEF AsReloaded
<1>3. i \in 1 .. Len(Queue(observed)) /\ DOMAIN Queue(observed) = 1 .. Len(Queue(observed))
    BY <1>2, ListingDef
<1>4. Queue(observed)[i] \in Member
    BY <1>3, ListingDef
<1>5. table.rows[i] = RowOf(Queue(observed)[i], observed[Queue(observed)[i]], control, view)
    BY <1>2, <1>3, ListingDef
<1>6. table.rows[i].actions = ServiceActions(SortedServices[i], control)
    BY <1>3, <1>4, <1>5, RowFields, SortedServicesDef
<1>7. PICK service : service = SortedServices[i]
    OBVIOUS
<1>8. CASE ~control
    BY <1>6, <1>7, <1>8 DEF ServiceActions, Accepts
<1>9. CASE control /\ Online(service)
    BY <1>6, <1>7, <1>9 DEF ServiceActions, Accepts
<1>10. CASE control /\ ~Online(service)
    BY <1>6, <1>7, <1>10 DEF ServiceActions, Accepts
<1> QED BY <1>8, <1>9, <1>10
==============================================================================
