------------------------------ MODULE LogProofs ------------------------------
(***************************************************************************)
(* Proofs about Log: the table of error texts in every build, for any      *)
(* texts and any failing malloc(), the opening of the error log, and the   *)
(* line that is put together in the buffer: it stays inside the buffer, it *)
(* is the rendered text of the call clipped where the code clips it, and   *)
(* the error's own text is clipped only by the end of the buffer.          *)
(***************************************************************************)
EXTENDS Log, Induction, SequenceTheorems, FiniteSetTheorems

(* The text that the table should hold for an error.                       *)
TextOf(e) == IF strerror[e].text = NoText THEN UnknownError ELSE strerror[e].text

LEMMA TextOfType ==
  ASSUME NEW e \in Numbers
  PROVE  TextOf(e) \in CStrings /\ strerror[e].text \in {NoText} \cup CStrings
BY ErrnoAssumption DEF ErrnoAssumption, TextOf

\* The bounds of the table, once they are found.
RangeFound ==
  /\ ngx_first_error \in Nat /\ ngx_last_error \in Nat
  /\ ngx_first_error..(ngx_last_error - 1) \subseteq Numbers
  /\ Listed >= 0 =>
       \A e \in Searched : Known(e) => ngx_first_error <= e /\ e < ngx_last_error

TableInv ==
  /\ table \in {"np", "nerr", "large", "guess"}
  /\ setup \in {"range", "list", "copy", "failed", "over", "done"}
  /\ wanted \in Int
  /\ table = "np" => setup = "done"
  /\ table # "np" =>
       /\ setup # "range" => RangeFound
       /\ ngx_sys_errlist \in Seq(CStrings)
       /\ setup \in {"range", "list"} => ngx_sys_errlist = <<>>
       /\ setup = "done" => Len(ngx_sys_errlist) = Listed
       /\ \A i \in 1..Len(ngx_sys_errlist) : ngx_sys_errlist[i] = TextOf(ngx_first_error + i - 1)

-----------------------------------------------------------------------------
(* The searches.                                                           *)
LEMMA FirstFound ==
  ASSUME NEW S \in SUBSET Nat, NEW x \in OrZero(FirstKnown(S))
  PROVE  \/ x = 0 /\ \A e \in S : ~Known(e)
         \/ x \in S /\ Known(x) /\ \A e \in S : Known(e) => x <= e
<1> DEFINE T == {e \in S : Known(e)}
<1>1. CASE T = {}
  <2>1. FirstKnown(S) = {}
    BY <1>1, Zenon DEF FirstKnown
  <2> QED  BY <1>1, <2>1 DEF OrZero
<1>2. CASE T # {}
  <2>1. PICK n \in T : \A m \in T : n <= m
    BY <1>2, LeastNumber
  <2>2. n \in FirstKnown(S)
    BY <2>1 DEF FirstKnown
  <2>3. x \in FirstKnown(S)
    BY <2>2 DEF OrZero
  <2> QED  BY <2>3 DEF FirstKnown
<1> QED  BY <1>1, <1>2

LEMMA LastFound ==
  ASSUME NEW bound \in Nat, NEW S \in SUBSET (0..bound), NEW x \in OrZero({After(e) : e \in LastKnown(S)})
  PROVE  \/ x = 0 /\ \A e \in S : ~Known(e)
         \/ \E last \in S : x = last + 1 /\ Known(last) /\ \A e \in S : Known(e) => e <= last
<1> DEFINE T == {e \in S : Known(e)}
           U == {After(e) : e \in LastKnown(S)}
<1>1. CASE T = {}
  <2>1. LastKnown(S) = {}
    BY <1>1, Zenon DEF LastKnown
  <2>2. U = {}
    BY <2>1
  <2> QED  BY <1>1, <2>2, Zenon DEF OrZero
<1>2. CASE T # {}
  <2>1. PICK n \in T : \A m \in T : m <= n
    BY <1>2, GreatestNumber
  <2>2. n \in LastKnown(S)
    BY <2>1 DEF LastKnown
  <2>3. U # {}
    BY <2>2
  <2>4. x \in U
    BY <2>3, Zenon DEF OrZero
  <2>5. PICK last \in LastKnown(S) : x = After(last)
    BY <2>4, Zenon
  <2> QED  BY <2>5 DEF LastKnown, After
<1> QED  BY <1>1, <1>2

LEMMA Windows ==
  /\ Below \in SUBSET Nat /\ 0 \notin Below /\ \A e \in Below : e <= EPERM
  /\ Above \in SUBSET (0..(EPERM + Reach)) /\ \A e \in Above : EPERM <= e /\ e < EPERM + Reach
  /\ EPERM \in Nat /\ Reach \in Nat /\ EPERM + Reach \in Nat /\ NGX_SYS_NERR \in Nat
BY ErrnoAssumption DEF ErrnoAssumption, Below, Above

LEMMA NumbersBelow ==
  ASSUME NEW first \in Nat, NEW last \in Nat, last <= EPERM + Reach
  PROVE  first..(last - 1) \subseteq Numbers
<1>1. \A e \in first..(last - 1) : e \in 0..(EPERM + Reach - 1)
  BY Windows
<1>2. 0..(EPERM + Reach - 1) \subseteq Numbers
  BY ErrnoAssumption DEF ErrnoAssumption
<1> QED  BY <1>1, <1>2

\* The search on both sides of EPERM.
LEMMA LargeWindow ==
  ASSUME NEW first \in OrZero(FirstKnown(Below)),
         NEW last \in OrZero({After(e) : e \in LastKnown(Above)})
  PROVE  /\ first \in Nat /\ last \in Nat /\ first..(last - 1) \subseteq Numbers
         /\ last - first >= 0 =>
              \A e \in Below \cup Above : Known(e) => first <= e /\ e < last
<1>1. \/ first = 0 /\ \A e \in Below : ~Known(e)
      \/ first \in Below /\ \A e \in Below : Known(e) => first <= e
  BY Windows, FirstFound
<1>2. \/ last = 0 /\ \A e \in Above : ~Known(e)
      \/ \E k \in Above : last = k + 1 /\ \A e \in Above : Known(e) => e <= k
  BY Windows, LastFound
<1>3. first \in Nat /\ first <= EPERM
  <2>1. CASE first = 0
    BY <2>1, Windows
  <2>2. CASE first \in Below
    BY <2>2, Windows
  <2> QED  BY <1>1, <2>1, <2>2
<1>4. CASE last = 0 /\ \A k \in Above : ~Known(k)
  <2>1. first..(last - 1) \subseteq Numbers
    BY <1>3, <1>4, Windows, NumbersBelow
  <2>2. last - first >= 0 => first = 0
    BY <1>3, <1>4
  <2>3. first = 0 => \A e \in Below : ~Known(e)
    BY <1>1, Windows
  <2> QED  BY <1>3, <1>4, <2>1, <2>2, <2>3
<1>5. ASSUME NEW k \in Above, last = k + 1, \A e \in Above : Known(e) => e <= k
      PROVE  /\ last \in Nat /\ first..(last - 1) \subseteq Numbers
             /\ \A e \in Below \cup Above : Known(e) => first <= e /\ e < last
  <2>1. k \in Nat /\ EPERM <= k /\ last \in Nat /\ last <= EPERM + Reach
    BY <1>5, Windows
  <2>2. first..(last - 1) \subseteq Numbers
    BY <1>3, <2>1, NumbersBelow
  <2>3. \A e \in Above : Known(e) => first <= e /\ e < last
    BY <1>3, <1>5, <2>1, Windows
  <2>4. \A e \in Below : Known(e) => first <= e /\ e < last
    BY <1>1, <1>5, <2>1, Windows
  <2> QED  BY <2>1, <2>2, <2>3, <2>4
<1> QED  BY <1>2, <1>3, <1>4, <1>5

\* The search from 0 on.
LEMMA GuessedWindow ==
  ASSUME NEW last \in OrZero({After(e) : e \in LastKnown(0..(Reach - 1))})
  PROVE  /\ last \in Nat /\ 0..(last - 1) \subseteq Numbers
         /\ \A e \in 0..(Reach - 1) : Known(e) => 0 <= e /\ e < last
<1> DEFINE S == 0..(Reach - 1)
<1>1. S \in SUBSET (0..Reach) /\ Reach \in Nat
  BY Windows
<1>2. \/ last = 0 /\ \A e \in S : ~Known(e)
      \/ \E k \in S : last = k + 1 /\ \A e \in S : Known(e) => e <= k
  BY <1>1, LastFound
<1>3. last \in Nat /\ last <= Reach
  BY <1>1, <1>2
<1>4. 0..(last - 1) \subseteq Numbers
  <2>1. last <= EPERM + Reach
    BY <1>1, <1>3, Windows
  <2> QED  BY <1>3, <2>1, NumbersBelow
<1> QED  BY <1>1, <1>2, <1>3, <1>4

\* All errors that can be known lie between the bounds, in every build.
LEMMA FindRangeFinds ==
  ASSUME TableInv, FindRange
  PROVE  RangeFound'
<1>1. table' = table
  BY DEF FindRange
<1>2. CASE table = "nerr"
  <2>1. ngx_first_error' = 0 /\ ngx_last_error' = NGX_SYS_NERR
    BY <1>2 DEF FindRange
  <2>2. Searched' = 0..(NGX_SYS_NERR - 1)
    BY <1>1, <1>2 DEF Searched
  <2> QED  BY <2>1, <2>2, Windows, ErrnoAssumption DEF RangeFound, ErrnoAssumption
<1>3. CASE table = "large"
  <2>1. /\ ngx_first_error' \in OrZero(FirstKnown(Below))
        /\ ngx_last_error' \in OrZero({After(e) : e \in LastKnown(Above)})
    BY <1>3 DEF FindRange
  <2>2. Searched' = Below \cup Above
    BY <1>1, <1>3 DEF Searched
  <2> QED  BY <2>1, <2>2, LargeWindow DEF RangeFound, Listed
<1>4. CASE table = "guess"
  <2>1. ngx_first_error' = 0 /\ ngx_last_error' \in OrZero({After(e) : e \in LastKnown(0..(Reach - 1))})
    BY <1>4 DEF FindRange
  <2>2. Searched' = 0..(Reach - 1)
    BY <1>1, <1>4 DEF Searched
  <2> QED  BY <2>1, <2>2, GuessedWindow DEF RangeFound
<1> QED  BY <1>2, <1>3, <1>4 DEF FindRange

-----------------------------------------------------------------------------
(* The table through ngx_strerror_init().                                  *)
LEMMA TableInit == ErrnoInit => TableInv
<1>1. <<>> \in Seq(CStrings) /\ Len(<<>>) = 0
  BY EmptySeq
<1> QED  BY <1>1, ErrnoAssumption DEF ErrnoInit, TableInv, ErrnoAssumption

LEMMA SameTable == TableInv /\ UNCHANGED errnoVars => TableInv'
BY DEF TableInv, errnoVars, RangeFound, Listed, Searched

LEMMA CopyTextKeeps ==
  ASSUME TableInv, CopyText
  PROVE  TableInv'
<1> DEFINE n == Len(ngx_sys_errlist)
           e == ngx_first_error + n
<1>1. /\ setup = "copy" /\ n < Listed /\ table # "np"
      /\ RangeFound /\ ngx_sys_errlist \in Seq(CStrings) /\ n \in Nat
      /\ \A i \in 1..n : ngx_sys_errlist[i] = TextOf(ngx_first_error + i - 1)
  BY LenProperties DEF CopyText, TableInv
<1>2. e \in Numbers
  BY <1>1 DEF RangeFound, Listed
<1>3. TextOf(e) \in CStrings /\ strerror[e].text \in {NoText} \cup CStrings
  BY <1>2, TextOfType
<1>4. /\ UNCHANGED <<table, ngx_first_error, ngx_last_error>>
      /\ \/ setup' = "copy" /\ ngx_sys_errlist' = Append(ngx_sys_errlist, TextOf(e))
         \/ setup' = "failed" /\ ngx_sys_errlist' = ngx_sys_errlist
  BY <1>1 DEF CopyText, TextOf
<1>5. wanted' \in Int
  <2>1. strerror[e].text # NoText => Len(strerror[e].text) \in Nat
    BY <1>3, LenProperties DEF CStrings
  <2> QED  BY <2>1 DEF CopyText, TableInv
<1>6. RangeFound'
  BY <1>1, <1>4 DEF RangeFound, Listed, Searched
<1>7. CASE setup' = "failed" /\ ngx_sys_errlist' = ngx_sys_errlist
  BY <1>1, <1>4, <1>5, <1>6, <1>7 DEF TableInv
<1>8. CASE setup' = "copy" /\ ngx_sys_errlist' = Append(ngx_sys_errlist, TextOf(e))
  <2>1. /\ ngx_sys_errlist' \in Seq(CStrings) /\ Len(ngx_sys_errlist') = n + 1
        /\ \A i \in 1..n : ngx_sys_errlist'[i] = ngx_sys_errlist[i]
        /\ ngx_sys_errlist'[n + 1] = TextOf(e)
    BY <1>1, <1>3, <1>8, AppendProperties
  <2>2. \A i \in 1..(n + 1) : ngx_sys_errlist'[i] = TextOf(ngx_first_error + i - 1)
    <3> SUFFICES ASSUME NEW i \in 1..(n + 1)
                 PROVE  ngx_sys_errlist'[i] = TextOf(ngx_first_error + i - 1)
      OBVIOUS
    <3>1. CASE i = n + 1
      <4>1. ngx_first_error + i - 1 = e
        BY <1>1, <3>1 DEF RangeFound
      <4> QED  BY <2>1, <3>1, <4>1
    <3>2. CASE i # n + 1
      <4>1. i \in 1..n
        BY <1>1, <3>2
      <4> QED  BY <1>1, <2>1, <4>1
    <3> QED  BY <3>1, <3>2
  <2> QED  BY <1>1, <1>4, <1>5, <1>6, <1>8, <2>1, <2>2 DEF TableInv
<1> QED  BY <1>4, <1>7, <1>8

LEMMA TableStep == TableInv /\ ngx_strerror_init => TableInv'
<1> SUFFICES ASSUME TableInv, ngx_strerror_init PROVE TableInv'
  OBVIOUS
<1>1. CASE FindRange
  <2>1. RangeFound'
    BY <1>1, FindRangeFinds
  <2>2. /\ setup = "range" /\ setup' = "list" /\ table # "np"
        /\ UNCHANGED <<table, ngx_sys_errlist, wanted>>
    BY <1>1 DEF FindRange
  <2>3. ngx_sys_errlist = <<>>
    BY <2>2 DEF TableInv
  <2> QED  BY <2>1, <2>2, <2>3 DEF TableInv
<1>2. CASE AllocList
  <2>1. /\ setup = "list" /\ setup' \in {"copy", "failed"} /\ wanted' = Listed * 16
        /\ UNCHANGED <<table, ngx_first_error, ngx_last_error, ngx_sys_errlist>>
    BY <1>2 DEF AllocList
  <2>2. table # "np" /\ RangeFound
    BY <2>1 DEF TableInv
  <2>3. RangeFound' /\ wanted' \in Int
    <3>1. Listed' = Listed /\ Searched' = Searched
      BY <2>1 DEF Listed, Searched
    <3>2. Listed \in Int
      BY <2>2 DEF RangeFound, Listed
    <3>3. wanted' \in Int
      BY <2>1, <3>2
    <3> QED  BY <2>1, <2>2, <3>1, <3>3 DEF RangeFound
  <2> QED  BY <2>1, <2>2, <2>3 DEF TableInv
<1>3. CASE CopyText
  BY <1>3, CopyTextKeeps
<1>4. CASE InitDone
  <2>1. /\ setup = "copy" /\ setup' = "done" /\ Len(ngx_sys_errlist) = Listed
        /\ UNCHANGED <<table, ngx_first_error, ngx_last_error, ngx_sys_errlist, wanted>>
    BY <1>4 DEF InitDone
  <2>2. RangeFound => RangeFound'
    BY <2>1 DEF RangeFound, Listed, Searched
  <2> QED  BY <2>1, <2>2 DEF TableInv, Listed
<1> QED  BY <1>1, <1>2, <1>3, <1>4 DEF ngx_strerror_init

\* What a complete table says of an error.
LEMMA TableSays ==
  ASSUME TableInv, setup = "done", NEW e \in Numbers
  PROVE  Looked(e) \in Texts(e) /\ Looked(e) \in CStrings
<1>1. UnknownError \in CStrings /\ TextOf(e) \in CStrings
  BY TextOfType, ErrnoAssumption DEF ErrnoAssumption
<1>2. TextOf(e) \in {UnknownError} \cup ({strerror[e].text} \ {NoText})
  BY DEF TextOf
<1>3. Known(e) => TextOf(e) = strerror[e].text
  BY DEF Known, TextOf
<1>4. CASE table = "np"
  <2>1. Looked(e) = IF Known(e) THEN TextOf(e) ELSE UnknownError
    BY <1>3, <1>4 DEF Looked
  <2>2. Searched = Numbers
    BY <1>4 DEF Searched
  <2> QED  BY <1>1, <1>2, <1>3, <2>1, <2>2 DEF Texts
<1>5. CASE table # "np"
  <2>1. /\ RangeFound /\ Len(ngx_sys_errlist) = Listed /\ Len(ngx_sys_errlist) \in Nat
        /\ \A i \in 1..Len(ngx_sys_errlist) : ngx_sys_errlist[i] = TextOf(ngx_first_error + i - 1)
    BY <1>5, LenProperties DEF TableInv
  <2>2. e \in Nat
    BY ErrnoAssumption DEF ErrnoAssumption
  <2>3. CASE e < ngx_first_error \/ e >= ngx_last_error
    <3>1. Looked(e) = UnknownError
      BY <1>5, <2>3 DEF Looked
    <3>2. ~(Known(e) /\ e \in Searched)
      BY <2>1, <2>2, <2>3 DEF RangeFound
    <3> QED  BY <1>1, <3>1, <3>2 DEF Texts
  <2>4. CASE ~(e < ngx_first_error \/ e >= ngx_last_error)
    <3> DEFINE i == e - ngx_first_error + 1
    <3>1. i \in 1..Len(ngx_sys_errlist) /\ e - ngx_first_error < Len(ngx_sys_errlist)
          /\ ngx_first_error + i - 1 = e
      BY <2>1, <2>2, <2>4 DEF RangeFound, Listed
    <3>2. Looked(e) = ngx_sys_errlist[i]
      BY <1>5, <2>4, <3>1 DEF Looked
    <3>3. ngx_sys_errlist[i] = TextOf(e)
      BY <2>1, <3>1
    <3> QED  BY <1>1, <1>2, <1>3, <3>2, <3>3 DEF Texts
  <2> QED  BY <2>3, <2>4
<1> QED  BY <1>4, <1>5

-----------------------------------------------------------------------------
(* The name of the log.                                                    *)
LEMMA LeastIsMin ==
  ASSUME NEW T \in SUBSET Nat, NEW n \in T, \A m \in T : n <= m
  PROVE  Min(T) = n
<1>1. \A x \in T : (\A y \in T : x =< y) => x = n
  BY SMT
<1>2. (CHOOSE x \in T : \A y \in T : x =< y) = n
  BY <1>1
<1> QED  BY <1>2 DEF Min

\* What is copied is a C string and ends where it ended.
LEMMA BytesUpToNul ==
  ASSUME NEW s \in CStrings
  PROVE  Bytes(s \o <<Nul>>, NoLength) = s
<1> DEFINE t == s \o <<Nul>>
           n == Len(s) + 1
           I == {i \in 1..Len(t) : t[i] = Nul}
<1>1. s \in Seq(Nat) /\ <<Nul>> \in Seq(Nat) /\ Len(<<Nul>>) = 1 /\ Len(s) \in Nat
      /\ \A i \in 1..Len(s) : s[i] # Nul
  <2>1. s \in Seq(1..255) /\ (1..255) \subseteq Nat
    BY DEF CStrings
  <2>2. s \in Seq(Nat)
    BY <2>1, SeqMonotonic, Zenon
  <2>3. \A i \in 1..Len(s) : s[i] \in 1..255
    BY <2>1, ElementOfSeq
  <2>4. <<Nul>> \in Seq(Nat) /\ Len(<<Nul>>) = 1 /\ Nul = 0
    BY DEF Nul
  <2>5. Len(s) \in Nat
    BY <2>1
  <2>6. ASSUME NEW i \in 1..Len(s) PROVE s[i] # Nul
    <3>1. s[i] \in 1..255
      BY <2>3
    <3>2. \A x \in 1..255 : x # Nul
      BY DEF Nul
    <3> QED  BY <3>1, <3>2, Zenon
  <2> QED  BY <2>2, <2>4, <2>5, <2>6
<1>2. /\ Len(t) = n /\ t[n] = Nul
      /\ \A i \in 1..Len(s) : t[i] = s[i]
  <2>1. \A i \in 1..n : t[i] = IF i <= Len(s) THEN s[i] ELSE <<Nul>>[i - Len(s)]
    BY <1>1, ConcatProperties
  <2>2. Len(t) = n
    BY <1>1, ConcatProperties
  <2> QED  BY <1>1, <2>1, <2>2
<1>3. n \in I /\ I \in SUBSET Nat /\ \A m \in I : n <= m
  BY <1>1, <1>2
<1>4. Min(I) = n
  <2> HIDE DEF I
  <2> QED  BY <1>3, LeastIsMin
<1>5. SelectInSeq(t, LAMBDA c : c = Nul) = n
  BY <1>3, <1>4 DEF SelectInSeq
<1>6. SubSeq(t, 1, Len(s)) = s
  <2>1. \A i \in 1..Len(s) : t[i] \in 1..255
    BY <1>2, ElementOfSeq DEF CStrings
  <2>2. /\ SubSeq(t, 1, Len(s)) \in Seq(1..255) /\ Len(SubSeq(t, 1, Len(s))) = Len(s)
        /\ \A i \in 1..Len(s) : SubSeq(t, 1, Len(s))[i] = t[i]
    <3>1. /\ SubSeq(t, 1, Len(s)) \in Seq(1..255)
          /\ Len(SubSeq(t, 1, Len(s))) = IF 1 <= Len(s) THEN Len(s) - 1 + 1 ELSE 0
          /\ \A i \in 1..(Len(s) - 1 + 1) : SubSeq(t, 1, Len(s))[i] = t[1 + i - 1]
      <4> HIDE DEF t
      <4> QED  BY <1>1, <2>1, SubSeqProperties
    <3> QED  BY <1>1, <3>1
  <2> HIDE DEF t
  <2> QED  BY <1>2, <2>2, SeqEqual DEF CStrings
<1>7. Bytes(t, NoLength) = SubSeq(t, 1, n - 1)
  <2> HIDE DEF t
  <2>1. n # 0
    BY <1>1
  <2> QED  BY <1>5, <2>1 DEF Bytes
<1> QED  BY <1>1, <1>6, <1>7

LEMMA FullNameIs ==
  ASSUME NEW dir \in CStrings, NEW log \in CStrings, dir # <<>>
  PROVE  /\ WithSeparator(dir) \in CStrings
         /\ FullName(dir, log) = WithSeparator(dir) \o log
<1>1. Slash \in 1..255 /\ Len(log) \in Nat
  BY DEF Slash, CStrings
<1>2. WithSeparator(dir) \in CStrings
  BY <1>1, AppendProperties DEF WithSeparator, CStrings
<1>3. WithSeparator(dir) \o log \in CStrings
  BY <1>2, ConcatProperties DEF CStrings
<1>4. Least((Len(log) + 1) - 1, Len(log)) = Len(log)
  BY <1>1 DEF Least
<1>5. SubSeq(log, 1, Len(log)) = log
  BY SubSeqFull DEF CStrings
<1>6. ngx_cpystrn(WithSeparator(dir), log, Len(log) + 1) = WithSeparator(dir) \o log \o <<Nul>>
  <2>1. SubSeq(log, 1, Least((Len(log) + 1) - 1, Len(log))) = log
    BY <1>4, <1>5, Zenon
  <2> QED  BY <2>1, Zenon DEF ngx_cpystrn
<1> QED  BY <1>2, <1>3, <1>6, BytesUpToNul DEF FullName

LEMMA PrefixBy ==
  ASSUME NEW S, NEW s \in Seq(S), NEW t \in Seq(S), Len(s) <= Len(t),
         \A i \in 1..Len(s) : s[i] = t[i]
  PROVE  IsPrefix(s, t)
<1>1. Len(s) \in Nat /\ Len(t) \in Nat
  OBVIOUS
<1>2. \A i \in 1..Len(s) : t[i] \in S
  BY <1>1
<1>3. /\ SubSeq(t, 1, Len(s)) \in Seq(S)
      /\ Len(SubSeq(t, 1, Len(s))) = IF 1 <= Len(s) THEN Len(s) - 1 + 1 ELSE 0
      /\ \A i \in 1..(Len(s) - 1 + 1) : SubSeq(t, 1, Len(s))[i] = t[1 + i - 1]
  BY <1>1, <1>2, SubSeqProperties
<1>4. Len(SubSeq(t, 1, Len(s))) = Len(s) /\ \A i \in 1..Len(s) : SubSeq(t, 1, Len(s))[i] = s[i]
  BY <1>1, <1>3
<1>5. SubSeq(t, 1, Len(s)) = s
  BY <1>1, <1>3, <1>4, SeqEqual
<1> QED  BY <1>5, SubSeqFull DEF IsPrefix

LEMMA PrefixOfJoin ==
  ASSUME NEW S, NEW s \in Seq(S), NEW t \in Seq(S)
  PROVE  IsPrefix(s, s \o t)
<1>1. /\ s \o t \in Seq(S) /\ Len(s \o t) = Len(s) + Len(t) /\ Len(s) \in Nat /\ Len(t) \in Nat
      /\ \A i \in 1..Len(s) + Len(t) : (s \o t)[i] = IF i <= Len(s) THEN s[i] ELSE t[i - Len(s)]
  BY ConcatProperties
<1>2. Len(s) <= Len(s \o t) /\ \A i \in 1..Len(s) : s[i] = (s \o t)[i]
  BY <1>1
<1> QED  BY <1>1, <1>2, PrefixBy

LEMMA ReverseIs ==
  ASSUME NEW S, NEW u \in Seq(S)
  PROVE  /\ Reverse(u) \in Seq(S) /\ Len(Reverse(u)) = Len(u)
         /\ \A i \in 1..Len(u) : Reverse(u)[i] = u[(Len(u) - i) + 1]
BY DEF Reverse

LEMMA SuffixOfJoin ==
  ASSUME NEW S, NEW s \in Seq(S), NEW t \in Seq(S)
  PROVE  IsSuffix(t, s \o t)
<1> DEFINE j == s \o t
           rt == Reverse(t)
           rj == Reverse(j)
<1>1. /\ j \in Seq(S) /\ Len(j) = Len(s) + Len(t) /\ Len(s) \in Nat /\ Len(t) \in Nat
      /\ \A i \in 1..Len(s) + Len(t) : j[i] = IF i <= Len(s) THEN s[i] ELSE t[i - Len(s)]
  BY ConcatProperties
<1> HIDE DEF j
<1>2. rt \in Seq(S) /\ Len(rt) = Len(t) /\ \A i \in 1..Len(t) : rt[i] = t[(Len(t) - i) + 1]
  BY ReverseIs
<1>3. rj \in Seq(S) /\ Len(rj) = Len(j) /\ \A i \in 1..Len(j) : rj[i] = j[(Len(j) - i) + 1]
  BY <1>1, ReverseIs
<1> HIDE DEF rt, rj
<1>4. \A i \in 1..Len(t) : rt[i] = rj[i]
  <2> SUFFICES ASSUME NEW i \in 1..Len(t) PROVE rt[i] = rj[i]
    OBVIOUS
  <2> DEFINE k == (Len(j) - i) + 1
  <2>1. k \in 1..(Len(s) + Len(t)) /\ ~(k <= Len(s)) /\ k - Len(s) = (Len(t) - i) + 1
        /\ i \in 1..Len(j)
    BY <1>1
  <2>2. rj[i] = j[k]
    BY <1>3, <2>1
  <2>3. j[k] = t[k - Len(s)]
    <3> HIDE DEF k
    <3> QED  BY <1>1, <2>1
  <2> QED  BY <1>2, <2>1, <2>2, <2>3
<1>5. IsPrefix(rt, rj)
  BY <1>1, <1>2, <1>3, <1>4, PrefixBy, SMTT(30)
<1> QED  BY <1>5, Zenon DEF IsSuffix, rt, rj, j

-----------------------------------------------------------------------------
(***************************************************************************)
(* Where the startup and ngx_log_init stand.  An error is only looked up   *)
(* once the table is made, and the name of a log that could not be opened  *)
(* stays allocated while that is said.                                     *)
(***************************************************************************)
Reporting == {"print", "errno", "linefeed", "written"}

NameKept == block # 0 \/ name = asked.log

ControlInv ==
  /\ pc \in Reporting \cup {"idle", "open", "opened", "failed"}
  /\ fd \in {"unset", "stderr", "file", "invalid", "none"}
  /\ setup \notin {"done", "over"} => pc = "idle"
  /\ pc \in {"print", "errno"} /\ args.err # 0 => setup = "done" /\ args.err \in Errors
  /\ pc = "errno" => args.err # 0
  /\ pc = "idle" => fd # "invalid" /\ block = 0
  /\ pc \in Reporting /\ fd # "invalid" => block = 0
  /\ pc = "failed" => fd = "invalid"
  /\ fd = "invalid" => pc \in Reporting \cup {"failed"} /\ NameKept
  /\ pc = "open" => setup = "done" /\ fd = "unset" /\ LogFileNamed /\ NameKept

LogInv == TableInv /\ ControlInv

LEMMA PathTexts ==
  /\ \A a \in PrefixArgs : GivenOr(a, NGX_PREFIX) \in CStrings
  /\ \A a \in LogArgs : GivenOr(a, NGX_ERROR_LOG_PATH) \in CStrings
BY LogAssumption DEF LogAssumption, GivenOr

Regroups(s, t, u) == (s \o t) \o u = s \o (t \o u)

LEMMA JoinRegroups ==
  ASSUME NEW s \in Seq(1..255), NEW t \in Seq(1..255), NEW u \in Seq(1..255)
  PROVE  Regroups(s, t, u)
<1>1. (s \o t) \o u = s \o (t \o u)
  BY ConcatAssociative, SMTT(30)
<1> QED  BY <1>1 DEF Regroups

\* The seam between the prefix and the name.
LEMMA RelativeNameIsBuilt ==
  ASSUME NEW dir \in CStrings, NEW log \in CStrings, dir # <<>>, log # <<>>
  PROVE  LET full == FullName(dir, log)
             seam == Len(full) - Len(log)
         IN  /\ IsPrefix(dir, full) /\ IsSuffix(log, full)
             /\ full[seam] = Slash
             /\ seam = Len(dir) + (IF Last(dir) = Slash THEN 0 ELSE 1)
             /\ Len(full) + 1 <= Len(dir) + Len(log) + 2
<1> DEFINE w == WithSeparator(dir)
           full == FullName(dir, log)
<1>1. w \in Seq(1..255) /\ full = w \o log /\ dir \in Seq(1..255) /\ log \in Seq(1..255)
  BY FullNameIs DEF CStrings
<1>2. Len(dir) \in Nat /\ Len(dir) # 0 /\ Len(log) \in Nat /\ Len(w) \in Nat
  BY <1>1, EmptySeq
<1>3. Slash \in 1..255 /\ <<Slash>> \in Seq(1..255)
  BY DEF Slash
<1>4. /\ Len(w) = Len(dir) + (IF Last(dir) = Slash THEN 0 ELSE 1)
      /\ w[Len(w)] = Slash
      /\ w = dir \/ w = dir \o <<Slash>>
  <2>1. CASE Last(dir) = Slash
    BY <1>2, <2>1 DEF Last, WithSeparator
  <2>2. CASE Last(dir) # Slash
    <3>1. w = Append(dir, Slash)
      BY <2>2 DEF Last, WithSeparator
    <3>2. Len(w) = Len(dir) + 1 /\ w[Len(dir) + 1] = Slash
      BY <1>1, <1>3, <3>1, AppendProperties
    <3>3. w = dir \o <<Slash>>
      BY <1>1, <1>3, <3>1, AppendIsConcat
    <3> QED  BY <2>2, <3>2, <3>3
  <2> QED  BY <2>1, <2>2
<1> HIDE DEF w, full
<1>5. /\ Len(full) = Len(w) + Len(log)
      /\ \A i \in 1..(Len(w) + Len(log)) : full[i] = IF i <= Len(w) THEN w[i] ELSE log[i - Len(w)]
  BY <1>1, ConcatProperties
<1>6. full[Len(w)] = Slash
  <2>1. Len(w) \in 1..(Len(w) + Len(log))
    BY <1>2, <1>4
  <2> QED  BY <1>2, <1>4, <1>5, <2>1
<1>7. IsSuffix(log, full)
  BY <1>1, SuffixOfJoin
<1>8. IsPrefix(dir, full)
  <2>1. CASE w = dir
    BY <1>1, <2>1, PrefixOfJoin
  <2>2. CASE w = dir \o <<Slash>>
    <3>1. full = dir \o (<<Slash>> \o log)
      <4> DEFINE s == <<Slash>>
      <4>1. s \in Seq(1..255) /\ full = (dir \o s) \o log
        BY <1>1, <1>3, <2>2
      <4> HIDE DEF s
      <4>2. Regroups(dir, s, log)
        BY <1>1, <4>1, JoinRegroups
      <4>3. full = dir \o (s \o log)
        BY <4>1, <4>2 DEF Regroups
      <4> QED  BY <4>3 DEF s
    <3>2. <<Slash>> \o log \in Seq(1..255)
      BY <1>1, <1>3, ConcatProperties
    <3> QED  BY <1>1, <3>1, <3>2, PrefixOfJoin
  <2> QED  BY <1>4, <2>1, <2>2
<1>9. Len(full) - Len(log) = Len(w)
  BY <1>2, <1>5
<1>10. Len(full) + 1 <= Len(dir) + Len(log) + 2
  BY <1>2, <1>4, <1>5
<1>11. /\ IsPrefix(dir, full) /\ IsSuffix(log, full)
       /\ full[Len(full) - Len(log)] = Slash
       /\ Len(full) - Len(log) = Len(dir) + (IF Last(dir) = Slash THEN 0 ELSE 1)
       /\ Len(full) + 1 <= Len(dir) + Len(log) + 2
  BY <1>4, <1>6, <1>7, <1>8, <1>9, <1>10
<1> QED  BY <1>11, Zenon DEF full

LEMMA LogInit == Init => LogInv
<1> SUFFICES ASSUME Init PROVE LogInv
  OBVIOUS
<1>1. TableInv
  BY TableInit DEF Init
<1> QED  BY <1>1 DEF Init, LogInv, ControlInv, Reporting, NameKept

LEMMA InitLogKeeps ==
  ASSUME LogInv, NEW prefix \in PrefixArgs, NEW errorLog \in LogArgs, InitLog(prefix, errorLog)
  PROVE  LogInv'
<1> DEFINE log == GivenOr(errorLog, NGX_ERROR_LOG_PATH)
           dir == GivenOr(prefix, NGX_PREFIX)
<1>1. log \in CStrings /\ dir \in CStrings
  BY PathTexts
<1>2. /\ pc = "idle" /\ setup = "done" /\ fd = "unset"
      /\ UNCHANGED errnoVars /\ setup' = setup /\ UNCHANGED args
      /\ TableInv /\ block = 0
  BY DEF InitLog, errnoVars, LogInv, ControlInv
<1>3. TableInv'
  BY <1>2, SameTable
<1>4. CASE /\ log # <<>> /\ (log[1] = Slash \/ dir = <<>>)
           /\ name' = log /\ asked' = [dir |-> dir, log |-> log]
           /\ pc' = "open" /\ UNCHANGED <<block, fd>>
  <2> HIDE DEF log, dir
  <2>1. asked'.log = log /\ asked'.dir = dir
    BY <1>4
  <2>2. LogFileNamed' /\ NameKept'
    BY <1>2, <1>4, <2>1 DEF LogFileNamed, NameKept
  <2> QED  BY <1>2, <1>3, <1>4, <2>2 DEF LogInv, ControlInv, Reporting
<1>5. CASE /\ log # <<>> /\ log[1] # Slash /\ dir # <<>>
           /\ name' = FullName(dir, log) /\ asked' = [dir |-> dir, log |-> log]
           /\ block' = Len(dir) + Len(log) + 2
           /\ pc' = "open" /\ UNCHANGED fd
  <2> HIDE DEF log, dir
  <2>1. asked'.log = log /\ asked'.dir = dir
    BY <1>5
  <2>2. block' # 0
    BY <1>1, <1>5 DEF CStrings
  <2>3. LogFileNamed'
    BY <1>1, <1>5, <2>1, RelativeNameIsBuilt, Zenon DEF LogFileNamed
  <2>4. NameKept'
    BY <2>2 DEF NameKept
  <2> QED  BY <1>2, <1>3, <1>5, <2>3, <2>4 DEF LogInv, ControlInv, Reporting
<1>6. CASE pc' = pc /\ fd' \in {"stderr", "none"} /\ UNCHANGED <<name, asked, block>>
  BY <1>2, <1>3, <1>6 DEF LogInv, ControlInv, Reporting
<1> QED  BY <1>4, <1>5, <1>6 DEF InitLog

LEMMA LogStep == LogInv /\ [Next]_vars => LogInv'
<1> SUFFICES ASSUME LogInv, [Next]_vars PROVE LogInv'
  OBVIOUS
<1> USE DEF Reporting
<1>1. CASE UNCHANGED vars
  <2>1. TableInv'
    BY <1>1, SameTable DEF vars, LogInv
  <2> QED  BY <1>1, <2>1 DEF vars, errnoVars, LogInv, ControlInv, LogFileNamed, NameKept
<1>2. CASE Setup
  <2>1. TableInv'
    BY <1>2, TableStep DEF Setup, LogInv
  <2>2. /\ setup \notin {"done", "over"}
        /\ UNCHANGED <<pc, args, errstr, asked, name, block, fd>>
    BY <1>2 DEF Setup, ngx_strerror_init, FindRange, AllocList, CopyText, InitDone
  <2> QED  BY <2>1, <2>2 DEF LogInv, ControlInv, NameKept
<1>3. CASE SetupFailed
  <2>1. /\ setup = "failed" /\ setup' = "over" /\ args'.err = 0 /\ pc' = "print"
        /\ UNCHANGED <<table, ngx_first_error, ngx_last_error, ngx_sys_errlist, wanted,
                       errstr, asked, name, block, fd>>
    BY <1>3 DEF SetupFailed, MallocFailed
  <2>2. TableInv'
    BY <2>1 DEF LogInv, TableInv, RangeFound, Listed, Searched
  <2> QED  BY <2>1, <2>2 DEF LogInv, ControlInv, NameKept
<1>4. CASE Stopped
  BY <1>1, <1>4 DEF Stopped
<1>5. CASE UNCHANGED errnoVars /\ (CallStderr \/ PrintMessage \/ AddErrno \/ Write \/ ReturnStderr)
  <2>1. TableInv' /\ setup' = setup
    BY <1>5, SameTable DEF LogInv, errnoVars
  <2>2. UNCHANGED <<asked, name, block, fd>>
    BY <1>5 DEF CallStderr, PrintMessage, AddErrno, Write, ReturnStderr
  <2>3. CASE CallStderr
    <3>1. args'.err \in Errors \cup {0} /\ setup = "done" /\ pc = "idle" /\ pc' = "print"
      BY <2>3 DEF CallStderr, Lines
    <3> QED  BY <2>1, <2>2, <3>1 DEF LogInv, ControlInv, NameKept
  <2>4. CASE PrintMessage
    <3>1. pc = "print" /\ args' = args /\ pc' = IF args.err # 0 THEN "errno" ELSE "linefeed"
      BY <2>4 DEF PrintMessage
    <3> QED  BY <2>1, <2>2, <3>1 DEF LogInv, ControlInv, NameKept
  <2>5. CASE AddErrno
    BY <2>1, <2>2, <2>5 DEF AddErrno, LogInv, ControlInv, NameKept
  <2>6. CASE Write
    BY <2>1, <2>2, <2>6 DEF Write, LogInv, ControlInv, NameKept
  <2>7. CASE ReturnStderr
    BY <2>1, <2>2, <2>7 DEF ReturnStderr, LogInv, ControlInv, NameKept
  <2> QED  BY <1>5, <2>3, <2>4, <2>5, <2>6, <2>7
<1>6. ASSUME NEW prefix \in PrefixArgs, NEW errorLog \in LogArgs, InitLog(prefix, errorLog)
      PROVE  LogInv'
  BY <1>6, InitLogKeeps
<1>7. CASE UNCHANGED errnoVars /\ (OpenFile \/ Fallback \/ FreeName)
  <2>1. TableInv' /\ setup' = setup
    BY <1>7, SameTable DEF LogInv, errnoVars
  <2>2. CASE OpenFile
    <3>1. /\ pc = "open" /\ setup = "done" /\ fd = "unset" /\ NameKept
          /\ UNCHANGED <<asked, name, block>>
      BY <2>2 DEF OpenFile, LogInv, ControlInv
    <3>2. \/ fd' = "file" /\ pc' = "opened"
          \/ fd' = "invalid" /\ pc' = "print" /\ args'.err \in Errors
      BY <2>2 DEF OpenFile, OpenFailed
    <3> QED  BY <2>1, <3>1, <3>2 DEF LogInv, ControlInv, NameKept
  <2>3. CASE Fallback
    BY <2>1, <2>3 DEF Fallback, LogInv, ControlInv
  <2>4. CASE FreeName
    <3>1. pc = "opened" /\ block' = 0 /\ pc' = "idle" /\ UNCHANGED <<args, fd>>
      BY <2>4 DEF FreeName
    <3> QED  BY <2>1, <3>1 DEF LogInv, ControlInv
  <2> QED  BY <1>7, <2>2, <2>3, <2>4
<1>8. Next => \/ Setup \/ SetupFailed \/ Stopped
              \/ UNCHANGED errnoVars /\ (CallStderr \/ PrintMessage \/ AddErrno \/ Write \/ ReturnStderr)
              \/ \E prefix \in PrefixArgs, errorLog \in LogArgs : InitLog(prefix, errorLog)
              \/ UNCHANGED errnoVars /\ (OpenFile \/ Fallback \/ FreeName)
  BY DEF Next, CallStderr, PrintMessage, AddErrno, Write, ReturnStderr, OpenFile, Fallback, FreeName, errnoVars
<1> QED  BY <1>1, <1>2, <1>3, <1>4, <1>5, <1>6, <1>7, <1>8

LEMMA LogAlways == Spec => []LogInv
BY LogInit, LogStep, PTL DEF Spec

(***************************************************************************)
(* Once ngx_strerror_init is through, every error has its text: in every   *)
(* build, whatever strerror() answers, wherever the gaps between the known *)
(* errors are, and however many entries malloc() let it make.              *)
(***************************************************************************)
THEOREM ErrorTextsAreRight == Spec => []ErrorsDescribed
<1>1. LogInv => ErrorsDescribed
  BY TableSays DEF LogInv, ErrorsDescribed
<1> QED  BY <1>1, LogAlways, PTL

(***************************************************************************)
(* ngx_log_errno only looks up errors whose entry was written: the report  *)
(* of a failed startup, which may stop anywhere in the table, does not.    *)
(***************************************************************************)
THEOREM UnwrittenEntriesStayUnread == Spec => []EntriesReadAreWritten
<1>1. LogInv => EntriesReadAreWritten
  <2> SUFFICES ASSUME LogInv, pc = "errno" PROVE Looked(args.err) # Unset
    BY DEF EntriesReadAreWritten
  <2>1. args.err # 0 /\ setup = "done" /\ args.err \in Errors
    BY DEF LogInv, ControlInv
  <2>2. args.err \in Numbers
    BY <2>1, LogAssumption DEF LogAssumption
  <2>3. Looked(args.err) \in Seq(1..255)
    BY <2>1, <2>2, TableSays DEF LogInv, CStrings
  <2>4. Unset \notin Seq(1..255)
    <3>1. Len(Unset) = 1 /\ Unset[1] = -1
      BY DEF Unset
    <3>2. 1 \in 1..Len(Unset) /\ -1 \notin 1..255
      BY <3>1
    <3>3. Unset \in Seq(1..255) => Unset[1] \in 1..255
      BY <3>2, ElementOfSeq, Zenon
    <3> QED  BY <3>1, <3>2, <3>3
  <2> QED  BY <2>3, <2>4
<1> QED  BY <1>1, LogAlways, PTL

(***************************************************************************)
(* The file ngx_log_init opens is the one that was asked for, and its name *)
(* fits its memory, for every prefix and every name.                       *)
(***************************************************************************)
THEOREM OpenedLogIsTheNamedOne == Spec => []LogFileNamed
<1>1. LogInv => LogFileNamed
  BY DEF LogInv, ControlInv, LogFileNamed
<1> QED  BY <1>1, LogAlways, PTL

(***************************************************************************)
(* ngx_log_init returns with a usable descriptor and without the memory of *)
(* the name, which is there as long as the failure is reported.            *)
(***************************************************************************)
THEOREM LogEndsUsable == Spec => []LogUsable
<1>1. LogInv => LogUsable
  BY DEF LogInv, ControlInv, LogUsable, NameKept
<1> QED  BY <1>1, LogAlways, PTL

-----------------------------------------------------------------------------
(* Quotients and remainders.                                               *)
LEMMA QuotientOf ==
  ASSUME NEW m \in Nat \ {0}, NEW q \in Nat, NEW r \in 0..(m - 1)
  PROVE  ((m * q) + r) \div m = q /\ ((m * q) + r) % m = r
OBVIOUS

LEMMA Divides ==
  ASSUME NEW x \in Nat, NEW m \in Nat \ {0}
  PROVE  /\ x \div m \in Nat /\ x % m \in 0..(m - 1)
         /\ x = (m * (x \div m)) + (x % m)
OBVIOUS

\* Dividing by a and then by b is dividing by their product.
DividesTwice(x, a, b) == a * b \in Nat \ {0} /\ (x \div a) \div b = x \div (a * b)

LEMMA QuotientOfQuotient ==
  ASSUME NEW x \in Nat, NEW a \in Nat \ {0}, NEW b \in Nat \ {0}
  PROVE  DividesTwice(x, a, b)
<1> DEFINE y == x \div a
           r == x % a
           z == y \div b
           s == y % b
<1>1. y \in Nat /\ r \in 0..(a - 1) /\ x = (a * y) + r
  BY Divides
<1>2. z \in Nat /\ s \in 0..(b - 1) /\ y = (b * z) + s
  BY <1>1, Divides
<1> HIDE DEF y, r, z, s
<1>3. a * b \in Nat \ {0}
  OBVIOUS
<1> DEFINE c == a * b
           t == (a * s) + r
<1>4. t \in Nat /\ t <= c - 1
  <2>1. a * s <= a * (b - 1)
    BY <1>2
  <2>2. a * (b - 1) = c - a
    OBVIOUS
  <2>3. a * s \in Nat
    BY <1>2
  <2> QED  BY <1>1, <2>1, <2>2, <2>3
<1>5. x = (c * z) + t
  <2>1. a * y = (a * (b * z)) + (a * s)
    BY <1>2
  <2>2. a * (b * z) = c * z
    BY <1>2
  <2>3. c * z \in Nat /\ a * s \in Nat /\ r \in Nat
    BY <1>1, <1>2, <1>3
  <2>4. x = ((c * z) + (a * s)) + r
    BY <1>1, <2>1, <2>2, Zenon
  <2> DEFINE u == c * z
             v == a * s
  <2> HIDE DEF c
  <2>5. x = (u + v) + r /\ u \in Nat /\ v \in Nat
    BY <2>3, <2>4
  <2> HIDE DEF u, v
  <2>6. x = u + (v + r)
    BY <2>3, <2>5
  <2> QED  BY <2>6 DEF u, v
<1>6. x \div c = z
  <2> HIDE DEF c, t
  <2>1. t \in 0..(c - 1)
    BY <1>3, <1>4 DEF c
  <2> QED  BY <1>2, <1>3, <1>5, <2>1, QuotientOf DEF c
<1> QED  BY <1>3, <1>6 DEF y, z, c, DividesTwice

(* Powers.                                                                 *)
PowerTable(g, b, n) == g = [k \in 0..n |-> IF k = 0 THEN 1 ELSE b * g[k - 1]]

LEMMA PowerTableIs ==
  ASSUME NEW b \in Nat, NEW n \in Nat, NEW g, PowerTable(g, b, n)
  PROVE  g[0] = 1 /\ \A k \in 0..n : g[k] \in Nat /\ (k # 0 => g[k] = b * g[k - 1])
<1>1. \A k \in 0..n : g[k] = IF k = 0 THEN 1 ELSE b * g[k - 1]
  BY DEF PowerTable
<1> DEFINE T == {k \in 0..n : g[k] \in Nat}
<1>2. g[0] = 1 /\ 0 \in T
  BY <1>1
<1>3. ASSUME NEW k \in 1..n, k - 1 \in T PROVE k \in T
  <2>1. g[k - 1] \in Nat /\ g[k] = b * g[k - 1]
    BY <1>1, <1>3
  <2> QED  BY <2>1
<1>4. \A k \in 0..n : k \in T
  <2> HIDE DEF T
  <2> QED  BY <1>2, <1>3, UpTo
<1> QED  BY <1>1, <1>2, <1>4

LEMMA PowerTableExists ==
  ASSUME NEW b \in Nat, NEW n \in Nat
  PROVE  \E g : PowerTable(g, b, n)
<1> DEFINE p == [k \in 1..n |-> k - 1]
           step == [kv \in (1..n) \X Nat |-> b * kv[2]]
<1>1. p \in [1..n -> Nat] /\ \A k \in 1..n : p[k] < k /\ p[k] = k - 1
  OBVIOUS
<1>2. step \in [(1..n) \X Nat -> Nat] /\ \A k \in 1..n, v \in Nat : step[<<k, v>>] = b * v
  OBVIOUS
<1> HIDE DEF p, step
<1>3. PICK f : Recursion(f, n, Nat, 1, p, step)
  BY <1>1, <1>2, RecursionHasSolution
<1>4. /\ f \in [0..n -> Nat] /\ f[0] = 1
      /\ \A k \in 1..n : f[k] = step[<<k, f[p[k]]>>]
  BY <1>3 DEF Recursion
<1>5. ASSUME NEW k \in 1..n PROVE f[k] = b * f[k - 1]
  <2>1. f[k - 1] \in Nat /\ p[k] = k - 1
    BY <1>1, <1>4
  <2> QED  BY <1>2, <1>4, <2>1
<1>6. PowerTable(f, b, n)
  BY <1>4, <1>5 DEF PowerTable
<1> QED  BY <1>6

LEMMA PowerIs ==
  ASSUME NEW b \in Nat, NEW n \in Nat
  PROVE  Power(b, n) \in Nat /\ Power(b, 0) = 1 /\ Power(b, n + 1) = b * Power(b, n)
<1>1. ASSUME NEW m \in Nat PROVE PowerTable(CHOOSE g : PowerTable(g, b, m), b, m)
  BY PowerTableExists
<1> DEFINE G(m) == CHOOSE g : PowerTable(g, b, m)
<1>2. \A m : Power(b, m) = G(m)[m]
  BY DEF Power, PowerTable
<1> HIDE DEF G
<1>3. \A m \in Nat : PowerTable(G(m), b, m)
  BY <1>1 DEF G
<1>4. \A m \in Nat : G(m)[0] = 1 /\ \A k \in 0..m : G(m)[k] \in Nat /\ (k # 0 => G(m)[k] = b * G(m)[k - 1])
  BY <1>3, PowerTableIs
<1> DEFINE g == G(n)
           h == G(n + 1)
           T == {k \in 0..n : g[k] = h[k]}
<1>5. /\ g[0] = 1 /\ \A k \in 0..n : g[k] \in Nat /\ (k # 0 => g[k] = b * g[k - 1])
      /\ h[0] = 1 /\ \A k \in 0..(n + 1) : h[k] \in Nat /\ (k # 0 => h[k] = b * h[k - 1])
  BY <1>4
<1>6. h[n] = g[n]
  <2> HIDE DEF g, h
  <2>1. 0 \in T
    BY <1>5
  <2>2. \A k \in 1..n : k - 1 \in T => k \in T
    BY <1>5
  <2> HIDE DEF T
  <2>3. n \in T
    BY <2>1, <2>2, UpTo
  <2> QED  BY <2>3 DEF T
<1>7. h[n + 1] = b * h[n]
  <2> HIDE DEF h, g
  <2>1. n + 1 \in 0..(n + 1) /\ n + 1 # 0 /\ (n + 1) - 1 = n
    OBVIOUS
  <2> QED  BY <1>5, <2>1
<1>8. g[n] \in Nat
  BY <1>5
<1> QED  BY <1>2, <1>4, <1>6, <1>7, <1>8

LEMMA PowerGrows ==
  ASSUME NEW b \in Nat, b >= 2, NEW n \in Nat
  PROVE  \A k \in 0..n : k < Power(b, k) /\ Power(b, k) \in Nat \ {0} /\ Power(b, k) <= Power(b, n)
<1> DEFINE T == {k \in 0..n : k < Power(b, k) /\ Power(b, k) \in Nat}
           U == {k \in 0..n : Power(b, n - k) <= Power(b, n)}
<1>1. 0 \in T
  BY PowerIs
<1>2. ASSUME NEW k \in 1..n, k - 1 \in T PROVE k \in T
  <2>1. Power(b, (k - 1) + 1) = b * Power(b, k - 1) /\ (k - 1) + 1 = k /\ k - 1 \in Nat
    BY PowerIs
  <2> DEFINE x == Power(b, k - 1)
  <2>2. k - 1 < x /\ x \in Nat /\ Power(b, k) = b * x
    BY <1>2, <2>1
  <2> HIDE DEF x
  <2>3. b * x >= 2 * x /\ b * x \in Nat
    BY <2>2
  <2> QED  BY <2>2, <2>3
<1>3. \A k \in 0..n : k \in T
  <2> HIDE DEF T
  <2> QED  BY <1>1, <1>2, UpTo
<1>4. 0 \in U
  BY PowerIs
<1>5. ASSUME NEW k \in 1..n, k - 1 \in U PROVE k \in U
  <2> DEFINE x == Power(b, n - k)
             y == Power(b, n - (k - 1))
  <2>1. (n - k) + 1 = n - (k - 1) /\ n - k \in Nat /\ n - k \in 0..n
    OBVIOUS
  <2>2. y = b * x /\ x \in Nat
    BY <2>1, PowerIs
  <2>3. y <= Power(b, n) /\ Power(b, n) \in Nat
    BY <1>5, PowerIs
  <2> HIDE DEF x, y
  <2>4. x <= b * x /\ b * x \in Nat
    BY <2>2
  <2>5. x <= Power(b, n)
    BY <2>2, <2>3, <2>4
  <2> QED  BY <2>5 DEF x
<1>6. \A k \in 0..n : k \in U
  <2> HIDE DEF U
  <2> QED  BY <1>4, <1>5, UpTo
<1>7. ASSUME NEW k \in 0..n PROVE Power(b, k) <= Power(b, n)
  <2>1. n - k \in 0..n /\ n - (n - k) = k
    OBVIOUS
  <2>2. n - k \in U
    BY <1>6, <2>1
  <2> QED  BY <2>1, <2>2
<1> QED  BY <1>3, <1>7

-----------------------------------------------------------------------------
(***************************************************************************)
(* The formatted output stays within its buffer.  The recursive functions  *)
(* of Format are known by their equations only: that each has a solution,  *)
(* and that every solution is of its type, are the lemmas of Induction.    *)
(***************************************************************************)
Buffers(last) == {b \in Seq(Nat) : Len(b) <= last}

LEMMA PowerOfTwo ==
  ASSUME NEW n \in Nat
  PROVE  2^n \in Nat \ {0}
<1>1. IsFiniteSet(1..n) /\ Cardinality(1..n) = n
  BY FS_Interval
<1>2. IsFiniteSet(SUBSET (1..n)) /\ Cardinality(SUBSET (1..n)) = 2^n
  BY <1>1, FS_SUBSET
<1>3. Cardinality(SUBSET (1..n)) \in Nat
  BY <1>2, FS_CardinalityType
<1>4. Cardinality(SUBSET (1..n)) # 0
  BY <1>2, FS_EmptySet
<1> QED  BY <1>2, <1>3, <1>4

LEMMA Widths ==
  2^Bits \in Nat \ {0} /\ 2^HalfBits \in Nat \ {0} /\ Unit \in Nat \ {0}
BY PowerOfTwo, FormatAssumption DEF FormatAssumption

LEMMA Remainder ==
  ASSUME NEW x \in Int, NEW m \in Nat \ {0}
  PROVE  x % m \in Nat
OBVIOUS

LEMMA Quotient ==
  ASSUME NEW x \in Nat, NEW m \in Nat \ {0}
  PROVE  x \div m \in Nat
OBVIOUS

(* The recursive functions of the formatting.                              *)
ScaleTable(g, w) == g = [n \in 0..w |-> IF n = 0 THEN 1 ELSE (10 * g[n - 1]) % 2^Bits]

LEMMA ScaleTableExists ==
  ASSUME NEW w \in Nat
  PROVE  \E g : ScaleTable(g, w) /\ Scale(w) = g[w]
<1> DEFINE M == 2^Bits
           p == [k \in 1..w |-> k - 1]
           step == [kv \in (1..w) \X Nat |-> (10 * kv[2]) % M]
<1>1. M \in Nat \ {0}
  BY Widths
<1> HIDE DEF M
<1>2. p \in [1..w -> Nat] /\ \A k \in 1..w : p[k] < k /\ p[k] = k - 1
  OBVIOUS
<1>3. step \in [(1..w) \X Nat -> Nat]
  BY <1>1, Remainder
<1>4. \A k \in 1..w, v \in Nat : step[<<k, v>>] = (10 * v) % M
  OBVIOUS
<1> HIDE DEF p, step
<1>5. PICK f : Recursion(f, w, Nat, 1, p, step)
  BY <1>2, <1>3, RecursionHasSolution
<1>6. f = [n \in 0..w |-> IF n = 0 THEN 1 ELSE (10 * f[n - 1]) % M]
  <2>1. /\ f \in [0..w -> Nat] /\ f[0] = 1
        /\ \A k \in 1..w : f[k] = step[<<k, f[p[k]]>>]
    BY <1>5 DEF Recursion
  <2>2. ASSUME NEW k \in 1..w PROVE f[k] = (10 * f[k - 1]) % M
    <3>1. f[k - 1] \in Nat /\ p[k] = k - 1
      BY <1>2, <2>1
    <3> QED  BY <1>4, <2>1, <3>1
  <2> QED  BY <2>1, <2>2
<1> DEFINE G == CHOOSE g : ScaleTable(g, w)
<1>7. ScaleTable(G, w)
  BY <1>6 DEF ScaleTable, M
<1>8. Scale(w) = G[w]
  BY DEF Scale, ScaleTable
<1> QED  BY <1>7, <1>8

LEMMA ScaleTableIs ==
  ASSUME NEW w \in Nat, NEW g, ScaleTable(g, w)
  PROVE  g[0] = 1 /\ \A k \in 0..w : g[k] \in Nat /\ (k # 0 => g[k] = (10 * g[k - 1]) % 2^Bits)
<1> DEFINE M == 2^Bits
           T == {k \in 0..w : g[k] \in Nat}
<1>1. M \in Nat \ {0}
  BY Widths
<1>2. \A k \in 0..w : g[k] = IF k = 0 THEN 1 ELSE (10 * g[k - 1]) % M
  BY DEF ScaleTable
<1> HIDE DEF M
<1>3. g[0] = 1 /\ 0 \in T
  BY <1>2
<1>4. ASSUME NEW k \in 1..w, k - 1 \in T PROVE k \in T
  <2>1. (10 * g[k - 1]) % M \in Nat
    BY <1>1, <1>4, Remainder
  <2> QED  BY <1>2, <2>1
<1>5. \A k \in 0..w : k \in T
  <2> HIDE DEF T
  <2> QED  BY <1>3, <1>4, UpTo
<1> QED  BY <1>2, <1>3, <1>5 DEF M

LEMMA ScaleType ==
  ASSUME NEW w \in Nat
  PROVE  Scale(w) \in Nat
<1>1. PICK g : ScaleTable(g, w) /\ Scale(w) = g[w]
  BY ScaleTableExists
<1>2. w \in 0..w /\ \A k \in 0..w : g[k] \in Nat
  BY <1>1, ScaleTableIs
<1> QED  BY <1>1, <1>2

(* The digits of a number, the first one first and none in vain.           *)
Expansion(ds, n, base) ==
  /\ ds \in Seq(Nat) /\ Len(ds) # 0
  /\ n < Power(base, Len(ds)) /\ (Len(ds) = 1 \/ n >= Power(base, Len(ds) - 1))
  /\ \A k \in 1..Len(ds) : ds[k] = (n \div Power(base, Len(ds) - k)) % base

LEMMA OneDigit ==
  ASSUME NEW base \in {10, 16}, NEW n \in Nat, n < base
  PROVE  Expansion(<<n>>, n, base)
<1>1. base \in Nat \ {0}
  OBVIOUS
<1>2. Power(base, 0) = 1 /\ Power(base, 0 + 1) = base * Power(base, 0)
  BY <1>1, PowerIs
<1>3. Power(base, 0) = 1 /\ Power(base, 1) = base
  BY <1>1, <1>2
<1>4. <<n>> \in Seq(Nat) /\ Len(<<n>>) = 1 /\ <<n>>[1] = n
  OBVIOUS
<1>5. n \div 1 = n /\ n % base = n
  <2>1. ((1 * n) + 0) \div 1 = n
    BY QuotientOf
  <2>2. ((base * 0) + n) % base = n
    <3>1. n \in 0..(base - 1)
      BY <1>1
    <3> QED  BY <1>1, <3>1, QuotientOf
  <2> QED  BY <1>1, <2>1, <2>2
<1>6. ASSUME NEW k \in 1..1 PROVE <<n>>[k] = (n \div Power(base, 1 - k)) % base
  <2>1. k = 1 /\ 1 - k = 0
    OBVIOUS
  <2> QED  BY <1>3, <1>4, <1>5, <2>1
<1> QED  BY <1>3, <1>4, <1>6 DEF Expansion

LEMMA DigitMore ==
  ASSUME NEW base \in {10, 16}, NEW n \in Nat, n >= base, NEW ds,
         Expansion(ds, n \div base, base)
  PROVE  Expansion(Append(ds, n % base), n, base)
<1> DEFINE m == n \div base
           r == n % base
           s == Len(ds)
           new == Append(ds, r)
<1>1. base \in Nat \ {0} /\ base >= 2
  OBVIOUS
<1>2. m \in Nat /\ r \in 0..(base - 1) /\ n = (base * m) + r
  BY <1>1, Divides
<1>3. /\ ds \in Seq(Nat) /\ s \in Nat \ {0}
      /\ m < Power(base, s) /\ (s = 1 \/ m >= Power(base, s - 1))
      /\ \A k \in 1..s : ds[k] = (m \div Power(base, s - k)) % base
  BY LenProperties DEF Expansion
<1>4. /\ new \in Seq(Nat) /\ Len(new) = s + 1 /\ new[s + 1] = r
      /\ \A k \in 1..s : new[k] = ds[k]
  BY <1>2, <1>3, AppendProperties
<1> HIDE DEF new, s
<1>5. n < Power(base, s + 1)
  <2> DEFINE x == Power(base, s)
  <2>1. x \in Nat /\ Power(base, s + 1) = base * x
    BY <1>1, <1>3, PowerIs
  <2> HIDE DEF x, m, r
  <2>2. m + 1 <= x
    BY <1>2, <1>3, <2>1 DEF x
  <2>3. base * (m + 1) <= base * x
    BY <1>1, <1>2, <2>1, <2>2
  <2> QED  BY <1>1, <1>2, <2>1, <2>3
<1>6. n >= Power(base, s)
  <2>1. CASE s = 1
    <3>1. Power(base, 0) = 1 /\ Power(base, 0 + 1) = base * Power(base, 0)
      BY <1>1, PowerIs
    <3> QED  BY <1>1, <2>1, <3>1
  <2>2. CASE s # 1
    <3> DEFINE y == Power(base, s - 1)
    <3>1. s - 1 \in Nat /\ (s - 1) + 1 = s
      BY <1>3
    <3>2. y \in Nat /\ Power(base, s) = base * y /\ m >= y
      BY <1>1, <1>3, <2>2, <3>1, PowerIs
    <3> HIDE DEF y, m, r
    <3>3. base * m >= base * y
      BY <1>1, <1>2, <3>2
    <3> QED  BY <1>1, <1>2, <3>2, <3>3
  <2> QED  BY <2>1, <2>2
<1>7. ASSUME NEW k \in 1..(s + 1)
      PROVE  new[k] = (n \div Power(base, (s + 1) - k)) % base
  <2>1. CASE k = s + 1
    <3>1. (s + 1) - k = 0 /\ Power(base, 0) = 1
      BY <1>1, <1>3, <2>1, PowerIs
    <3>2. n \div 1 = n
      <4>1. ((1 * n) + 0) \div 1 = n
        BY QuotientOf
      <4> QED  BY <4>1
    <3> QED  BY <1>4, <2>1, <3>1, <3>2
  <2>2. CASE k # s + 1
    <3> DEFINE j == s - k
               x == Power(base, j)
    <3>1. k \in 1..s /\ j \in Nat /\ (s + 1) - k = j + 1
      BY <1>3, <2>2
    <3>2. x \in Nat \ {0} /\ Power(base, j + 1) = base * x
      <4> HIDE DEF j
      <4>1. j \in 0..j
        BY <3>1
      <4> QED  BY <1>1, <3>1, <4>1, PowerIs, PowerGrows
    <3>3. m \div x = n \div (base * x)
      <4> HIDE DEF x
      <4>1. base \in Nat \ {0} /\ x \in Nat \ {0}
        BY <1>1, <3>2
      <4>2. base * x \in Nat \ {0} /\ (n \div base) \div x = n \div (base * x)
        <5> DEFINE c == base
        <5> HIDE DEF c
        <5>1. c \in Nat \ {0}
          BY <4>1 DEF c
        <5>2. DividesTwice(n, c, x)
          BY <1>1, <4>1, <5>1, QuotientOfQuotient
        <5> QED  BY <5>2 DEF c, DividesTwice
      <4> QED  BY <4>2
    <3>4. new[k] = (m \div x) % base
      BY <1>3, <1>4, <3>1
    <3> QED  BY <3>1, <3>2, <3>3, <3>4
  <2> QED  BY <2>1, <2>2
<1>8. Len(new) # 0 /\ Len(new) - 1 = s
  BY <1>3, <1>4
<1>9. Expansion(new, n, base)
  BY <1>4, <1>5, <1>6, <1>7, <1>8 DEF Expansion
<1> QED  BY <1>9 DEF new

LEMMA DividedIs ==
  ASSUME NEW ui \in Nat, NEW base \in {10, 16}
  PROVE  Expansion(Divided(ui, base), ui, base)
<1> DEFINE p == [k \in 1..ui |-> k \div base]
           step == [kv \in (1..ui) \X Seq(Nat) |->
                      IF kv[1] < base THEN <<kv[1]>> ELSE Append(kv[2], kv[1] % base)]
<1>1. \A k \in Nat : /\ k \div base \in Nat /\ k % base \in Nat /\ <<k>> \in Seq(Nat)
                     /\ k # 0 => k \div base < k
  <2>1. CASE base = 10
    BY <2>1
  <2>2. CASE base = 16
    BY <2>2
  <2> QED  BY <2>1, <2>2
<1>2. p \in [1..ui -> Nat] /\ \A k \in 1..ui : p[k] < k /\ p[k] = k \div base
  BY <1>1
<1>3. \A k \in 1..ui, s \in Seq(Nat) : Append(s, k % base) \in Seq(Nat) /\ <<k>> \in Seq(Nat)
  BY <1>1, AppendProperties
<1>4. step \in [(1..ui) \X Seq(Nat) -> Seq(Nat)]
  BY <1>3
<1>5. \A k \in 1..ui, s \in Seq(Nat) :
        step[<<k, s>>] = IF k < base THEN <<k>> ELSE Append(s, k % base)
  OBVIOUS
<1>6. <<0>> \in Seq(Nat) /\ 0 < base /\ base \in Nat
  OBVIOUS
<1> HIDE DEF p, step
<1>7. PICK f : Recursion(f, ui, Seq(Nat), <<0>>, p, step)
  BY <1>2, <1>4, <1>6, RecursionHasSolution
<1>8. f = [n \in 0..ui |-> IF n < base THEN <<n>> ELSE Append(f[n \div base], n % base)]
  <2>1. /\ f \in [0..ui -> Seq(Nat)] /\ f[0] = <<0>>
        /\ \A k \in 1..ui : f[k] = step[<<k, f[p[k]]>>]
    BY <1>7 DEF Recursion
  <2>2. ASSUME NEW k \in 1..ui
        PROVE  f[k] = IF k < base THEN <<k>> ELSE Append(f[k \div base], k % base)
    <3>1. p[k] \in 0..ui /\ p[k] = k \div base
      BY <1>2
    <3>2. f[p[k]] \in Seq(Nat)
      BY <2>1, <3>1
    <3>3. f[k] = step[<<k, f[p[k]]>>]
      BY <2>1
    <3> QED  BY <1>5, <3>1, <3>2, <3>3
  <2>3. f[0] = IF 0 < base THEN <<0>> ELSE Append(f[0 \div base], 0 % base)
    BY <1>6, <2>1
  <2>4. f = [n \in 0..ui |-> f[n]]
    BY <2>1
  <2>5. \A n \in 0..ui : f[n] = IF n < base THEN <<n>> ELSE Append(f[n \div base], n % base)
    <3> SUFFICES ASSUME NEW n \in 0..ui
                 PROVE  f[n] = IF n < base THEN <<n>> ELSE Append(f[n \div base], n % base)
      OBVIOUS
    <3>1. n = 0 \/ n \in 1..ui
      OBVIOUS
    <3> QED  BY <2>2, <2>3, <3>1
  <2> QED  BY <2>4, <2>5
<1>9. ASSUME NEW g, g = [n \in 0..ui |-> IF n < base THEN <<n>> ELSE Append(g[n \div base], n % base)]
      PROVE  Expansion(g[ui], ui, base)
  <2> DEFINE T == {k \in 0..ui : Expansion(g[k], k, base)}
  <2>1. ASSUME NEW k \in 0..ui, \A m \in 0..(k - 1) : m \in T PROVE k \in T
    <3>1. g[k] = IF k < base THEN <<k>> ELSE Append(g[k \div base], k % base)
      BY <1>9
    <3>2. CASE k < base
      BY <3>1, <3>2, OneDigit
    <3>3. CASE ~(k < base)
      <4>1. k # 0 /\ k >= base /\ k \in Nat
        BY <1>6, <3>3
      <4>2. k \div base \in 0..(k - 1)
        BY <1>1, <4>1
      <4>3. Expansion(g[k \div base], k \div base, base)
        BY <2>1, <4>2
      <4>4. Expansion(Append(g[k \div base], k % base), k, base)
        BY <4>1, <4>3, DigitMore
      <4> QED  BY <3>1, <3>3, <4>4
    <3> QED  BY <3>2, <3>3
  <2>2. \A k \in 0..ui : k \in T
    <3> HIDE DEF T
    <3> QED  BY <2>1, UpToStrong
  <2> QED  BY <2>2
<1> QED  BY <1>8, <1>9 DEF Divided

LEMMA DividedType ==
  ASSUME NEW ui \in Nat, NEW base \in {10, 16}
  PROVE  Divided(ui, base) \in Seq(Nat)
BY DividedIs DEF Expansion

LEMMA CharacterType ==
  ASSUME NEW d \in Nat, NEW hex
  PROVE  Character(d, hex) \in Nat
BY DEF Character, Zero

LEMMA DigitsType ==
  ASSUME NEW n \in Nat, NEW hex
  PROVE  Digits(n, hex) \in Seq(Nat)
<1>1. n % 2^HalfBits \in Nat
  BY Widths, Remainder
<1>2. \A u \in {n, n % 2^HalfBits}, base \in {10, 16} : Divided(u, base) \in Seq(Nat)
  BY <1>1, DividedType
<1>3. PICK ds \in Seq(Nat) : Digits(n, hex) = [k \in DOMAIN ds |-> Character(ds[k], hex)]
  BY <1>2 DEF Digits
<1>4. DOMAIN ds = 1..Len(ds) /\ Len(ds) \in Nat /\ \A k \in 1..Len(ds) : ds[k] \in Nat
  BY LenProperties, ElementOfSeq
<1>5. \A k \in 1..Len(ds) : Character(ds[k], hex) \in Nat
  BY <1>4, CharacterType
<1> QED  BY <1>3, <1>4, <1>5

\* A copy that is cut at the end of the buffer.
LEMMA CopyFits ==
  ASSUME NEW last \in Nat, NEW buf \in Buffers(last), NEW s \in Seq(Nat), NEW n \in Int, n <= Len(s),
         n <= Room(buf, last)
  PROVE  buf \o SubSeq(s, 1, n) \in Buffers(last)
<1>1. buf \in Seq(Nat) /\ Len(buf) \in Nat /\ Len(buf) <= last /\ Len(s) \in Nat
      /\ Room(buf, last) = last - Len(buf)
  BY DEF Buffers, Room
<1>2. \A i \in 1..n : s[i] \in Nat
  BY <1>1, ElementOfSeq
<1>3. /\ SubSeq(s, 1, n) \in Seq(Nat)
      /\ Len(SubSeq(s, 1, n)) = IF 1 <= n THEN (n - 1) + 1 ELSE 0
  BY <1>2, SubSeqProperties
<1>4. /\ buf \o SubSeq(s, 1, n) \in Seq(Nat)
      /\ Len(buf \o SubSeq(s, 1, n)) = Len(buf) + Len(SubSeq(s, 1, n))
  BY <1>1, <1>3, ConcatProperties
<1> QED  BY <1>1, <1>3, <1>4 DEF Buffers

LEMMA PaddingFits ==
  ASSUME NEW last \in Nat, NEW buf \in Buffers(last), NEW c \in Nat, NEW n \in Int, n <= Room(buf, last)
  PROVE  buf \o Repeat(c, n) \in Buffers(last)
<1>1. buf \in Seq(Nat) /\ Len(buf) \in Nat /\ Len(buf) <= last /\ Room(buf, last) = last - Len(buf)
  BY DEF Buffers, Room
<1>2. PICK m \in Nat : 1..n = 1..m /\ (m = 0 \/ m = n)
  <2>1. CASE n \in Nat
    BY <2>1
  <2>2. CASE n \notin Nat
    <3>1. 1..n = 1..0
      BY <2>2
    <3> QED  BY <3>1
  <2> QED  BY <2>1, <2>2
<1>3. Repeat(c, n) = [k \in 1..m |-> c]
  BY <1>2 DEF Repeat
<1>4. Repeat(c, n) \in Seq(Nat) /\ Len(Repeat(c, n)) = m
  BY <1>3
<1>5. /\ buf \o Repeat(c, n) \in Seq(Nat)
      /\ Len(buf \o Repeat(c, n)) = Len(buf) + m
  BY <1>1, <1>4, ConcatProperties
<1> QED  BY <1>1, <1>2, <1>5 DEF Buffers

LEMMA NumberFits ==
  ASSUME NEW last \in Nat, NEW buf \in Buffers(last), NEW n \in Nat, NEW zero \in Nat, NEW hex,
         NEW width \in Nat
  PROVE  ngx_sprintf_num(buf, last, n, zero, hex, width) \in Buffers(last)
<1> DEFINE temp == Digits(n, hex)
           padded == buf \o Repeat(zero, Least(width - Len(temp), Room(buf, last)))
<1>1. temp \in Seq(Nat) /\ Len(temp) \in Nat
  BY DigitsType
<1>2. Len(buf) \in Nat /\ Room(buf, last) \in Int
  BY DEF Buffers, Room
<1> HIDE DEF temp
<1>3. padded \in Buffers(last)
  <2>1. Least(width - Len(temp), Room(buf, last)) \in Int
        /\ Least(width - Len(temp), Room(buf, last)) <= Room(buf, last)
    BY <1>1, <1>2 DEF Least
  <2> QED  BY <2>1, PaddingFits
<1> HIDE DEF padded
<1>4. Room(padded, last) \in Int
  BY <1>3 DEF Buffers, Room
<1>5. /\ Least(Len(temp), Room(padded, last)) \in Int
      /\ Least(Len(temp), Room(padded, last)) <= Len(temp)
      /\ Least(Len(temp), Room(padded, last)) <= Room(padded, last)
  BY <1>1, <1>4 DEF Least
<1>6. padded \o SubSeq(temp, 1, Least(Len(temp), Room(padded, last))) \in Buffers(last)
  BY <1>1, <1>3, <1>5, CopyFits
<1> QED  BY <1>6 DEF ngx_sprintf_num, padded, temp

LEMMA PrefixType ==
  ASSUME NEW s \in Seq(Nat), NEW n \in Int, n <= Len(s)
  PROVE  /\ SubSeq(s, 1, n) \in Seq(Nat)
         /\ Len(SubSeq(s, 1, n)) = IF 1 <= n THEN n ELSE 0
<1>1. Len(s) \in Nat /\ \A i \in 1..n : s[i] \in Nat
  BY LenProperties, ElementOfSeq
<1>2. /\ SubSeq(s, 1, n) \in Seq(Nat)
      /\ Len(SubSeq(s, 1, n)) = IF 1 <= n THEN (n - 1) + 1 ELSE 0
  BY <1>1, SubSeqProperties
<1> QED  BY <1>2

\* A NUL is inside the string in which it was found.
LEMMA BytesType ==
  ASSUME NEW src \in Seq(Nat), NEW len \in Nat \cup {NoLength}, len = NoLength \/ len <= Len(src)
  PROVE  Bytes(src, len) \in Seq(Nat)
<1>1. Len(src) \in Nat /\ NoLength = -1
  BY LenProperties DEF NoLength
<1>2. CASE len # NoLength
  <2>1. SubSeq(src, 1, len) \in Seq(Nat)
    BY <1>1, <1>2, PrefixType
  <2> QED  BY <1>2, <2>1 DEF Bytes
<1>3. CASE len = NoLength
  <2> DEFINE I == {i \in 1..Len(src) : src[i] = Nul}
  <2>1. SelectInSeq(src, LAMBDA c : c = Nul) = IF I # {} THEN Min(I) ELSE 0
    BY DEF SelectInSeq
  <2>2. CASE I = {}
    BY <1>3, <2>1, <2>2 DEF Bytes
  <2>3. CASE I # {}
    <3>1. I \in SUBSET Nat
      OBVIOUS
    <3>2. PICK n \in I : \A m \in I : n <= m
      BY <2>3, <3>1, LeastNumber
    <3>3. Min(I) = n
      <4> HIDE DEF I
      <4> QED  BY <3>1, <3>2, LeastIsMin
    <3>4. n \in 1..Len(src)
      OBVIOUS
    <3>5. SubSeq(src, 1, n - 1) \in Seq(Nat)
      BY <1>1, <3>4, PrefixType
    <3> HIDE DEF I
    <3>6. Bytes(src, len) = SubSeq(src, 1, n - 1)
      <4>1. n # 0 /\ SelectInSeq(src, LAMBDA c : c = Nul) = n
        BY <2>1, <2>3, <3>3, <3>4
      <4> QED  BY <1>3, <4>1 DEF Bytes
    <3> QED  BY <3>5, <3>6
  <2> QED  BY <2>2, <2>3
<1> QED  BY <1>2, <1>3

LEMMA HexPairsType ==
  ASSUME NEW s \in Seq(Nat), NEW hex
  PROVE  HexPairs(s, hex) \in Seq(Nat) /\ Len(HexPairs(s, hex)) = 2 * Len(s)
<1> DEFINE n == Len(s)
           e(k) == LET byte == s[(k + 1) \div 2]
                   IN  Character(IF k % 2 = 1 THEN byte \div 16 ELSE byte % 16, hex)
<1>1. n \in Nat
  BY LenProperties
<1>2. ASSUME NEW k \in 1..(2 * n) PROVE e(k) \in Nat
  <2> DEFINE byte == s[(k + 1) \div 2]
  <2>1. (k + 1) \div 2 \in 1..n
    BY <1>1
  <2>2. byte \in Nat
    <3> DEFINE i == (k + 1) \div 2
    <3> HIDE DEF i
    <3>1. \A j \in 1..n : s[j] \in Nat
      BY ElementOfSeq
    <3> QED  BY <2>1, <3>1 DEF i
  <2> HIDE DEF byte
  <2>3. byte \div 16 \in Nat /\ byte % 16 \in Nat
    BY <2>2
  <2>4. (IF k % 2 = 1 THEN byte \div 16 ELSE byte % 16) \in Nat
    BY <2>3
  <2>5. Character(IF k % 2 = 1 THEN byte \div 16 ELSE byte % 16, hex) \in Nat
    BY <2>4, CharacterType
  <2> QED  BY <2>5 DEF byte
<1> DEFINE h == [k \in 1..(2 * n) |-> e(k)]
<1>3. h \in Seq(Nat) /\ Len(h) = 2 * n
  <2> HIDE DEF e
  <2>1. 2 * n \in Nat
    BY <1>1
  <2> QED  BY <1>2, <2>1
<1>4. HexPairs(s, hex) = h
  BY DEF HexPairs
<1> QED  BY <1>3, <1>4

LEMMA StringFits ==
  ASSUME NEW last \in Nat, NEW buf \in Buffers(last), NEW src \in Seq(Nat),
         NEW len \in Nat \cup {NoLength}, len = NoLength \/ len <= Len(src), NEW hex
  PROVE  ngx_sprintf_str(buf, last, src, len, hex) \in Buffers(last)
<1> DEFINE bytes == Bytes(src, len)
           room == Room(buf, last)
<1>1. bytes \in Seq(Nat) /\ Len(bytes) \in Nat
  BY BytesType, LenProperties
<1>2. buf \in Seq(Nat) /\ Len(buf) \in Nat /\ room \in Nat /\ Len(buf) + room = last
  BY DEF Buffers, Room
<1> HIDE DEF bytes
<1>3. CASE hex = 0
  <2>1. /\ Least(room, Len(bytes)) \in Int /\ Least(room, Len(bytes)) <= room
        /\ Least(room, Len(bytes)) <= Len(bytes)
    BY <1>1, <1>2 DEF Least
  <2>2. buf \o SubSeq(bytes, 1, Least(room, Len(bytes))) \in Buffers(last)
    BY <1>1, <2>1, CopyFits
  <2> QED  BY <1>3, <2>2 DEF ngx_sprintf_str, bytes
<1>4. CASE hex # 0
  <2> DEFINE n == Least(room \div 2, Len(bytes))
             cut == SubSeq(bytes, 1, n)
  <2> HIDE DEF room
  <2>1. n \in Nat /\ 2 * n <= room /\ n <= Len(bytes)
    BY <1>1, <1>2 DEF Least
  <2> HIDE DEF n
  <2>2. cut \in Seq(Nat) /\ Len(cut) = n
    BY <1>1, <2>1, PrefixType
  <2> HIDE DEF cut
  <2>3. HexPairs(cut, hex) \in Seq(Nat) /\ Len(HexPairs(cut, hex)) = 2 * n
    BY <2>2, HexPairsType
  <2>4. /\ buf \o HexPairs(cut, hex) \in Seq(Nat)
        /\ Len(buf \o HexPairs(cut, hex)) = Len(buf) + 2 * n
    BY <1>2, <2>3, ConcatProperties
  <2>5. buf \o HexPairs(cut, hex) \in Buffers(last)
    BY <1>2, <2>1, <2>4 DEF Buffers
  <2> QED  BY <1>4, <2>5 DEF ngx_sprintf_str, bytes, room, n, cut
<1> QED  BY <1>3, <1>4

\* The stores without a check of their own: one byte, when there is room.
LEMMA StoreFits ==
  ASSUME NEW last \in Nat, NEW buf \in Buffers(last), Len(buf) < last, NEW c \in Nat
  PROVE  Append(buf, c) \in Buffers(last)
<1>1. buf \in Seq(Nat) /\ Len(buf) \in Nat
  BY DEF Buffers
<1>2. Append(buf, c) \in Seq(Nat) /\ Len(Append(buf, c)) = Len(buf) + 1
  BY <1>1, AppendProperties
<1> QED  BY <1>1, <1>2 DEF Buffers

LEMMA DoubleFits ==
  ASSUME NEW last \in Nat, NEW buf \in Buffers(last), Len(buf) < last,
         NEW d \in [type : {"double"}, k : Int, zero : Nat, width : Nat, fracWidth : Nat]
  PROVE  PrintDouble(buf, last, d) \in Buffers(last)
<1> DEFINE signed == IF d.k < 0 THEN Append(buf, Minus) ELSE buf
           k      == IF d.k < 0 THEN -d.k ELSE d.k
           scale  == Scale(d.fracWidth)
           frac   == (2 * (k % Unit) * scale + Unit) \div (2 * Unit)
           carry  == d.fracWidth > 0 /\ frac = scale
           whole  == ngx_sprintf_num(signed, last, k \div Unit + (IF carry THEN 1 ELSE 0),
                                     d.zero, 0, d.width)
           dotted == IF Len(whole) < last THEN Append(whole, Dot) ELSE whole
           result == IF d.fracWidth = 0 THEN whole
                     ELSE ngx_sprintf_num(dotted, last, IF carry THEN 0 ELSE frac, Zero, 0, d.fracWidth)
<1>1. d.k \in Int /\ d.zero \in Nat /\ d.width \in Nat /\ d.fracWidth \in Nat
      /\ Minus \in Nat /\ Dot \in Nat /\ Zero \in Nat
  BY DEF Minus, Dot, Zero
<1>2. signed \in Buffers(last)
  BY <1>1, StoreFits
<1>3. k \in Nat /\ Unit \in Nat \ {0}
  BY <1>1, Widths
<1>4. scale \in Nat
  BY <1>1, ScaleType
<1> HIDE DEF signed, k, scale
<1>5. frac \in Nat
  <2>1. k % Unit \in Nat
    BY <1>3, Remainder
  <2>2. 2 * (k % Unit) * scale \in Nat
    <3> DEFINE r == k % Unit
    <3> HIDE DEF r
    <3>1. 2 * r * scale \in Nat
      BY <1>4, <2>1 DEF r
    <3> QED  BY <3>1 DEF r
  <2>3. 2 * (k % Unit) * scale + Unit \in Nat /\ 2 * Unit \in Nat \ {0}
    BY <1>3, <2>2
  <2> QED  BY <2>3, Quotient
<1> HIDE DEF frac
<1>6. k \div Unit + (IF carry THEN 1 ELSE 0) \in Nat /\ (IF carry THEN 0 ELSE frac) \in Nat
  <2>1. k \div Unit \in Nat
    BY <1>3, Quotient
  <2> HIDE DEF carry
  <2> QED  BY <1>5, <2>1
<1> HIDE DEF carry
<1>7. whole \in Buffers(last)
  BY <1>1, <1>2, <1>6, NumberFits
<1> HIDE DEF whole
<1>8. dotted \in Buffers(last)
  BY <1>1, <1>7, StoreFits
<1> HIDE DEF dotted
<1>9. ngx_sprintf_num(dotted, last, IF carry THEN 0 ELSE frac, Zero, 0, d.fracWidth) \in Buffers(last)
  BY <1>1, <1>6, <1>8, NumberFits
<1>10. result \in Buffers(last)
  BY <1>7, <1>9
<1> QED  BY <1>10 DEF PrintDouble, dotted, whole, carry, frac, scale, k, signed

LEMMA ConvertFits ==
  ASSUME NEW last \in Nat, NEW buf \in Buffers(last), Len(buf) < last, NEW d \in AllDirectives
  PROVE  Convert(buf, last, d) \in Buffers(last)
<1>1. CASE d \in [type : {"char"}, c : Nat]
  <2>1. d.type = "char" /\ d.c \in Nat
    BY <1>1
  <2> QED  BY <2>1, StoreFits DEF Convert
<1>2. CASE d \in [type : {"num"}, i : Int, sign : BOOLEAN, zero : Nat, hex : 0..2, width : Nat]
  <2>1. d.type = "num" /\ d.i \in Int /\ d.zero \in Nat /\ d.width \in Nat /\ Minus \in Nat
    BY <1>2 DEF Minus
  <2>2. (-d.i) % 2^Bits \in Nat /\ d.i % 2^Bits \in Nat
    <3>1. -d.i \in Int /\ d.i \in Int
      BY <2>1
    <3> QED  BY <3>1, Widths, Remainder, Zenon
  <2>3. Append(buf, Minus) \in Buffers(last)
    BY <2>1, StoreFits
  <2>4. /\ ngx_sprintf_num(Append(buf, Minus), last, (-d.i) % 2^Bits, d.zero, d.hex, d.width) \in Buffers(last)
        /\ ngx_sprintf_num(buf, last, d.i % 2^Bits, d.zero, d.hex, d.width) \in Buffers(last)
    BY <2>1, <2>2, <2>3, NumberFits
  <2>5. PrintNumber(buf, last, d) \in Buffers(last)
    BY <2>4 DEF PrintNumber
  <2> QED  BY <2>1, <2>5 DEF Convert
<1>3. CASE d \in [type : {"double"}, k : Int, zero : Nat, width : Nat, fracWidth : Nat]
  <2>1. d.type = "double"
    BY <1>3
  <2> QED  BY <1>3, <2>1, DoubleFits DEF Convert
<1>4. CASE d \in {x \in [type : {"str"}, src : Seq(Nat), len : Nat \cup {NoLength}, hex : 0..2] :
                    x.len = NoLength \/ x.len <= Len(x.src)}
  <2>1. /\ d.type = "str" /\ d.src \in Seq(Nat) /\ d.len \in Nat \cup {NoLength}
        /\ d.len = NoLength \/ d.len <= Len(d.src)
    BY <1>4
  <2> QED  BY <2>1, StringFits DEF Convert
<1> QED  BY <1>1, <1>2, <1>3, <1>4 DEF AllDirectives

(* The loop over the format.                                              *)
WrittenTable(g, buf, last, fmt) ==
  g = [k \in 0..Len(fmt) |->
         IF k = 0 THEN buf
         ELSE LET b == g[k - 1] IN IF Len(b) < last THEN Convert(b, last, fmt[k]) ELSE b]

LEMMA WrittenTableExists ==
  ASSUME NEW last \in Nat, NEW buf \in Buffers(last), NEW fmt \in Seq(AllDirectives)
  PROVE  \E g : WrittenTable(g, buf, last, fmt) /\ ngx_vslprintf(buf, last, fmt) = g[Len(fmt)]
<1> DEFINE n == Len(fmt)
           S == Buffers(last)
           p == [k \in 1..n |-> k - 1]
           step == [kb \in (1..n) \X S |->
                      IF Len(kb[2]) < last THEN Convert(kb[2], last, fmt[kb[1]]) ELSE kb[2]]
<1>1. n \in Nat /\ \A k \in 1..n : fmt[k] \in AllDirectives
  BY LenProperties, ElementOfSeq
<1>2. \A k \in 1..n, b \in S : (IF Len(b) < last THEN Convert(b, last, fmt[k]) ELSE b) \in S
  BY <1>1, ConvertFits
<1> HIDE DEF n, S
<1>3. p \in [1..n -> Nat] /\ \A k \in 1..n : p[k] < k /\ p[k] = k - 1
  BY <1>1
<1>4. step \in [(1..n) \X S -> S]
  BY <1>2
<1>5. \A k \in 1..n, b \in S :
        step[<<k, b>>] = IF Len(b) < last THEN Convert(b, last, fmt[k]) ELSE b
  OBVIOUS
<1> HIDE DEF p, step
<1>6. buf \in S
  BY DEF S
<1>7. PICK f : Recursion(f, n, S, buf, p, step)
  BY <1>1, <1>3, <1>4, <1>6, RecursionHasSolution
<1>8. f = [k \in 0..n |-> IF k = 0 THEN buf
                          ELSE LET b == f[k - 1]
                               IN  IF Len(b) < last THEN Convert(b, last, fmt[k]) ELSE b]
  <2>1. /\ f \in [0..n -> S] /\ f[0] = buf
        /\ \A k \in 1..n : f[k] = step[<<k, f[p[k]]>>]
    BY <1>7 DEF Recursion
  <2>2. ASSUME NEW k \in 1..n
        PROVE  f[k] = IF Len(f[k - 1]) < last THEN Convert(f[k - 1], last, fmt[k]) ELSE f[k - 1]
    <3>1. p[k] \in 0..n /\ p[k] = k - 1
      BY <1>1, <1>3
    <3>2. f[p[k]] \in S
      BY <2>1, <3>1
    <3> QED  BY <1>5, <2>1, <3>1, <3>2
  <2>3. \A k \in 0..n : f[k] = IF k = 0 THEN buf
                               ELSE IF Len(f[k - 1]) < last THEN Convert(f[k - 1], last, fmt[k]) ELSE f[k - 1]
    <3>1. \A k \in 0..n : k = 0 \/ k \in 1..n
      BY <1>1
    <3> QED  BY <2>1, <2>2, <3>1
  <2>4. f = [k \in 0..n |-> f[k]]
    BY <2>1
  <2> QED  BY <2>3, <2>4
<1> DEFINE G == CHOOSE g : WrittenTable(g, buf, last, fmt)
<1>9. WrittenTable(G, buf, last, fmt)
  BY <1>8 DEF WrittenTable, n
<1>10. ngx_vslprintf(buf, last, fmt) = G[Len(fmt)]
  BY DEF ngx_vslprintf, WrittenTable
<1> QED  BY <1>9, <1>10

LEMMA WrittenTableIs ==
  ASSUME NEW last, NEW buf, NEW fmt, Len(fmt) \in Nat, NEW g, WrittenTable(g, buf, last, fmt)
  PROVE  /\ g[0] = buf
         /\ \A k \in 1..Len(fmt) :
              g[k] = IF Len(g[k - 1]) < last THEN Convert(g[k - 1], last, fmt[k]) ELSE g[k - 1]
<1>1. \A k \in 0..Len(fmt) :
        g[k] = IF k = 0 THEN buf
               ELSE IF Len(g[k - 1]) < last THEN Convert(g[k - 1], last, fmt[k]) ELSE g[k - 1]
  BY DEF WrittenTable
<1>2. 0 \in 0..Len(fmt) /\ \A k \in 1..Len(fmt) : k \in 0..Len(fmt) /\ k # 0
  OBVIOUS
<1> QED  BY <1>1, <1>2

LEMMA OutputFits ==
  ASSUME NEW last \in Nat, NEW buf \in Buffers(last), NEW fmt \in Seq(AllDirectives)
  PROVE  ngx_vslprintf(buf, last, fmt) \in Buffers(last)
<1> DEFINE n == Len(fmt)
           S == Buffers(last)
<1>1. n \in Nat /\ \A k \in 1..n : fmt[k] \in AllDirectives
  BY LenProperties, ElementOfSeq
<1>2. PICK w : WrittenTable(w, buf, last, fmt) /\ ngx_vslprintf(buf, last, fmt) = w[n]
  BY WrittenTableExists
<1>3. /\ w[0] = buf
      /\ \A k \in 1..n : w[k] = IF Len(w[k - 1]) < last THEN Convert(w[k - 1], last, fmt[k]) ELSE w[k - 1]
  BY <1>1, <1>2, WrittenTableIs
<1> HIDE DEF n
<1> DEFINE T == {k \in 0..n : w[k] \in S}
<1>4. 0 \in T
  BY <1>1, <1>3
<1>5. ASSUME NEW k \in 1..n, k - 1 \in T PROVE k \in T
  <2>1. w[k - 1] \in S /\ fmt[k] \in AllDirectives /\ k \in 0..n
    BY <1>1, <1>5
  <2>2. w[k] \in S
    BY <1>3, <2>1, ConvertFits
  <2> QED  BY <2>1, <2>2
<1>6. \A k \in 0..n : k \in T
  <2> HIDE DEF T
  <2> QED  BY <1>1, <1>4, <1>5, UpTo
<1> QED  BY <1>1, <1>2, <1>6 DEF n

-----------------------------------------------------------------------------
(* The line of ngx_log_stderr.                                             *)
LEMMA CStringBytes ==
  ASSUME NEW s \in CStrings
  PROVE  s \in Seq(Nat)
<1>1. (1..255) \subseteq Nat
  OBVIOUS
<1> QED  BY <1>1, SeqMonotonic, Zenon DEF CStrings

LEMMA Sizes ==
  /\ NGX_MAX_ERROR_STR \in Nat /\ NGX_MAX_ERROR_STR >= 50
  /\ Banner \in Buffers(NGX_MAX_ERROR_STR)
<1>1. Banner \in CStrings /\ NGX_MAX_ERROR_STR \in Nat /\ NGX_MAX_ERROR_STR >= Len(Banner) + 50
  BY LogAssumption DEF LogAssumption
<1>2. Banner \in Seq(Nat) /\ Len(Banner) \in Nat
  BY <1>1, CStringBytes, LenProperties
<1> QED  BY <1>1, <1>2 DEF Buffers

LEMMA PlainType ==
  ASSUME NEW c \in Nat
  PROVE  Plain(c) \in AllDirectives
<1>1. [type |-> "char", c |-> c] \in [type : {"char"}, c : Nat]
  OBVIOUS
<1> QED  BY <1>1, Zenon DEF Plain, AllDirectives

LEMMA NumberType ==
  ASSUME NEW n \in Int, NEW uns \in BOOLEAN
  PROVE  Number(n, uns, FALSE, Space, 0, 0) \in AllDirectives
<1> DEFINE d == [type |-> "num", i |-> n, sign |-> FALSE \/ ~(uns \/ 0 # 0),
                 zero |-> Space, hex |-> 0, width |-> 0]
<1>1. d \in [type : {"num"}, i : Int, sign : BOOLEAN, zero : Nat, hex : 0..2, width : Nat]
  BY DEF Space
<1>2. d \in AllDirectives
  BY <1>1, Zenon DEF AllDirectives
<1>3. Number(n, uns, FALSE, Space, 0, 0) = d
  BY Zenon DEF Number
<1> QED  BY <1>2, <1>3, Zenon

LEMMA StrType ==
  ASSUME NEW s \in Seq(Nat)
  PROVE  Str(s, NoLength, 0) \in AllDirectives
<1> DEFINE d == [type |-> "str", src |-> s, len |-> NoLength, hex |-> 0]
<1>1. d \in [type : {"str"}, src : Seq(Nat), len : Nat \cup {NoLength}, hex : 0..2]
      /\ d.len = NoLength
  OBVIOUS
<1>2. d \in {x \in [type : {"str"}, src : Seq(Nat), len : Nat \cup {NoLength}, hex : 0..2] :
               x.len = NoLength \/ x.len <= Len(x.src)}
  BY <1>1
<1>3. d \in AllDirectives
  BY <1>2, Zenon DEF AllDirectives
<1> QED  BY <1>3 DEF Str

\* The formats ngx_log.c and ngx_errno.c make themselves.
LEMMA OwnFormats ==
  ASSUME NEW S, NEW I,
         \A c \in Nat : Plain(c) \in S, \A s \in Seq(Nat) : Str(s, NoLength, 0) \in S,
         \A n \in I, uns \in BOOLEAN : Number(n, uns, FALSE, Space, 0, 0) \in S
  PROVE  /\ \A err \in I : Errno(err) \in Seq(S)
         /\ wanted \in I /\ ENOMEM \in I => MallocFailed(0).fmt \in Seq(S)
         /\ \A err : name \in Seq(Nat) => OpenFailed(err).fmt \in Seq(S)
<1> DEFINE D == Seq(S)
<1>1. \A s, t : s \in D /\ t \in D => s \o t \in D
  BY ConcatProperties
<1>2. \A d \in S : <<d>> \in D
  OBVIOUS
<1>3. ASSUME NEW s \in Seq(Nat) PROVE Literal(s) \in D
  <2>1. DOMAIN s = 1..Len(s) /\ Len(s) \in Nat /\ \A k \in 1..Len(s) : s[k] \in Nat
    BY LenProperties, ElementOfSeq
  <2>2. \A k \in 1..Len(s) : Plain(s[k]) \in S
    BY <2>1
  <2> QED  BY <2>1, <2>2 DEF Literal
<1> HIDE DEF D
<1>4. \A n \in I, uns \in BOOLEAN : <<Number(n, uns, FALSE, Space, 0, 0)>> \in D
  BY <1>2, Zenon
<1>5. /\ <<Space, 40>> \in Seq(Nat) /\ <<58, Space>> \in Seq(Nat)
  BY DEF Space
<1>6. \A err \in I : Errno(err) \in D
  <2>1. FALSE \in BOOLEAN
    OBVIOUS
  <2> QED  BY <1>1, <1>3, <1>4, <1>5, <2>1, Zenon DEF Errno
<1>7. ASSUME wanted \in I, ENOMEM \in I PROVE MallocFailed(0).fmt \in D
  <2>1. /\ MallocMessage \in Seq(Nat) /\ MallocEnd \in Seq(Nat)
        /\ strerror[ENOMEM].text \in Seq(Nat)
    <3>1. MallocMessage \in CStrings /\ MallocEnd \in CStrings /\ ENOMEM \in Numbers
          /\ strerror[ENOMEM].text # NoText
      BY LogAssumption DEF LogAssumption
    <3>2. strerror[ENOMEM].text \in CStrings
      BY <3>1, TextOfType
    <3> QED  BY <3>1, <3>2, CStringBytes
  <2> DEFINE m == Literal(MallocMessage)
             w == <<Number(wanted, TRUE, FALSE, Space, 0, 0)>>
             e == Literal(MallocEnd)
             n == <<Number(ENOMEM, FALSE, FALSE, Space, 0, 0)>>
             c == Literal(<<58, Space>>)
             s == Str(strerror[ENOMEM].text, NoLength, 0)
             x == <<s, Plain(41)>>
  <2>2. m \in D /\ w \in D /\ e \in D /\ n \in D /\ c \in D
    BY <1>3, <1>4, <1>5, <1>7, <2>1
  <2>3. x \in D
    <3>1. s \in S
      BY <2>1
    <3>2. Plain(41) \in S
      OBVIOUS
    <3> HIDE DEF s
    <3> QED  BY <3>1, <3>2 DEF D
  <2>4. MallocFailed(0).fmt = m \o w \o e \o n \o c \o x
    BY DEF MallocFailed
  <2> HIDE DEF m, w, e, n, c, x
  <2>5. m \o w \in D
    BY <1>1, <2>2, Zenon
  <2>6. m \o w \o e \in D
    BY <1>1, <2>2, <2>5, Zenon
  <2>7. m \o w \o e \o n \in D
    BY <1>1, <2>2, <2>6, Zenon
  <2>8. m \o w \o e \o n \o c \in D
    BY <1>1, <2>2, <2>7, Zenon
  <2>9. m \o w \o e \o n \o c \o x \in D
    BY <1>1, <2>3, <2>8, Zenon
  <2> QED  BY <2>4, <2>9
<1>8. ASSUME NEW err, name \in Seq(Nat) PROVE OpenFailed(err).fmt \in D
  <2>1. OpenMessage \in Seq(Nat) /\ OpenEnd \in Seq(Nat)
    BY LogAssumption, CStringBytes DEF LogAssumption
  <2> DEFINE m == Literal(OpenMessage)
             s == <<Str(name, NoLength, 0)>>
             e == Literal(OpenEnd)
  <2>2. m \in D /\ s \in D /\ e \in D
    BY <1>2, <1>3, <1>8, <2>1, Zenon
  <2>3. OpenFailed(err).fmt = m \o s \o e
    BY DEF OpenFailed
  <2> HIDE DEF m, s, e
  <2>4. m \o s \in D
    BY <1>1, <2>2, Zenon
  <2>5. m \o s \o e \in D
    BY <1>1, <2>2, <2>4, Zenon
  <2> QED  BY <2>3, <2>5
<1> QED  BY <1>6, <1>7, <1>8 DEF D

LEMMA FormatTypes ==
  /\ \A err \in Int : Errno(err) \in Seq(AllDirectives)
  /\ wanted \in Int => MallocFailed(0).fmt \in Seq(AllDirectives)
  /\ \A err : name \in Seq(Nat) => OpenFailed(err).fmt \in Seq(AllDirectives)
<1>1. /\ \A c \in Nat : Plain(c) \in AllDirectives
      /\ \A s \in Seq(Nat) : Str(s, NoLength, 0) \in AllDirectives
      /\ \A n \in Int, uns \in BOOLEAN : Number(n, uns, FALSE, Space, 0, 0) \in AllDirectives
  BY PlainType, StrType, NumberType
<1>2. ENOMEM \in Int
  <2>1. ENOMEM \in Numbers
    BY LogAssumption DEF LogAssumption
  <2>2. Numbers \subseteq Nat
    BY ErrnoAssumption DEF ErrnoAssumption
  <2> QED  BY <2>1, <2>2
<1> QED  BY <1>1, <1>2, OwnFormats

\* The error after the message, when there is a message of any length.
LEMMA ErrnoFits ==
  ASSUME LogInv, setup = "done", NEW err \in Errors, NEW buf \in Buffers(NGX_MAX_ERROR_STR)
  PROVE  ngx_log_errno(buf, NGX_MAX_ERROR_STR, err) \in Buffers(NGX_MAX_ERROR_STR)
<1> DEFINE last == NGX_MAX_ERROR_STR
           short == Shortened(buf, last)
           line == ngx_vslprintf(short, last, Errno(err))
           text == ngx_strerror(err, line, last)
<1>1. last \in Nat /\ last >= 50 /\ err \in Numbers /\ err \in Int
  <2>1. err \in Numbers
    BY LogAssumption DEF LogAssumption
  <2>2. err \in Nat
    BY <2>1, ErrnoAssumption DEF ErrnoAssumption
  <2> QED  BY <2>1, <2>2, Sizes
<1>2. buf \in Seq(Nat) /\ Len(buf) \in Nat /\ Len(buf) <= last
  BY DEF Buffers
<1> HIDE DEF last
<1>3. short \in Buffers(last)
  <2>1. CASE Len(buf) > last - 50
    <3> DEFINE cut == SubSeq(buf, 1, last - 50)
    <3>1. cut \in Seq(Nat) /\ Len(cut) <= last - 50 /\ Len(cut) \in Nat
      BY <1>1, <1>2, <2>1, PrefixType
    <3> HIDE DEF cut
    <3>2. <<Dot, Dot, Dot>> \in Seq(Nat) /\ Len(<<Dot, Dot, Dot>>) = 3
      BY DEF Dot
    <3>3. /\ cut \o <<Dot, Dot, Dot>> \in Seq(Nat)
          /\ Len(cut \o <<Dot, Dot, Dot>>) = Len(cut) + 3
      BY <3>1, <3>2, ConcatProperties
    <3>4. cut \o <<Dot, Dot, Dot>> \in Buffers(last)
      BY <1>1, <3>1, <3>3 DEF Buffers
    <3> QED  BY <2>1, <3>4 DEF Shortened, cut
  <2>2. CASE ~(Len(buf) > last - 50)
    BY <1>2, <2>2 DEF Shortened, Buffers
  <2> QED  BY <2>1, <2>2
<1> HIDE DEF short
<1>4. line \in Buffers(last)
  BY <1>1, <1>3, FormatTypes, OutputFits
<1> HIDE DEF line
<1>5. text \in Buffers(last)
  <2> DEFINE s == Looked(err)
             n == Least(Room(line, last), Len(s))
  <2>1. s \in Seq(Nat) /\ Len(s) \in Nat
    BY <1>1, TableSays, CStringBytes, LenProperties DEF LogInv
  <2>2. Room(line, last) \in Int
    BY <1>1, <1>4 DEF Buffers, Room
  <2> HIDE DEF s
  <2>3. n \in Int /\ n <= Room(line, last) /\ n <= Len(s)
    BY <2>1, <2>2 DEF Least
  <2> HIDE DEF n
  <2>4. line \o SubSeq(s, 1, n) \in Buffers(last)
    BY <1>1, <1>4, <2>1, <2>3, CopyFits
  <2> QED  BY <2>4 DEF ngx_strerror, n, s
<1> HIDE DEF text
<1>6. (IF Len(text) < last THEN Append(text, 41) ELSE text) \in Buffers(last)
  BY <1>1, <1>5, StoreFits
<1> QED  BY <1>6 DEF ngx_log_errno, text, line, short, last

LEMMA FedFits ==
  ASSUME NEW last \in Nat \ {0}, NEW buf \in Buffers(last)
  PROVE  Fed(buf, last) \in Buffers(last)
<1> DEFINE n == Least(Len(buf), last - 1)
           cut == SubSeq(buf, 1, n)
<1>1. buf \in Seq(Nat) /\ Len(buf) \in Nat
  BY DEF Buffers
<1>2. n \in Nat /\ n <= Len(buf) /\ n < last
  BY <1>1 DEF Least
<1> HIDE DEF n
<1>3. cut \in Seq(Nat) /\ Len(cut) = n
  BY <1>1, <1>2, PrefixType
<1> HIDE DEF cut
<1>4. cut \in Buffers(last) /\ Len(cut) < last /\ LF \in Nat
  BY <1>2, <1>3 DEF Buffers, LF
<1>5. Append(cut, LF) \in Buffers(last)
  BY <1>4, StoreFits
<1> QED  BY <1>5 DEF Fed, cut, n

BufferInv ==
  /\ LogInv
  /\ errstr \in Buffers(NGX_MAX_ERROR_STR)
  /\ pc = "print" => args.fmt \in Seq(AllDirectives)
  /\ pc = "open" => name \in Seq(Nat)

LEMMA EmptyBuffer == <<>> \in Buffers(NGX_MAX_ERROR_STR)
<1>1. <<>> \in Seq(Nat) /\ Len(<<>>) = 0
  OBVIOUS
<1> QED  BY <1>1, Sizes DEF Buffers

LEMMA BufferInit == Init => BufferInv
<1> SUFFICES ASSUME Init PROVE BufferInv
  OBVIOUS
<1>1. LogInv
  BY LogInit
<1>2. errstr = <<>> /\ pc = "idle"
  BY DEF Init
<1> QED  BY <1>1, <1>2, EmptyBuffer DEF BufferInv

LEMMA BufferStep == BufferInv /\ [Next]_vars => BufferInv'
<1> SUFFICES ASSUME BufferInv, [Next]_vars PROVE BufferInv'
  OBVIOUS
<1> DEFINE B == Buffers(NGX_MAX_ERROR_STR)
<1>1. LogInv' /\ LogInv /\ errstr \in B
  BY LogStep DEF BufferInv
<1>2. CASE UNCHANGED vars
  BY <1>1, <1>2 DEF vars, BufferInv
<1>3. CASE Setup
  BY <1>1, <1>3 DEF Setup, BufferInv
<1>4. CASE SetupFailed
  <2>1. args' = MallocFailed(0) /\ pc' = "print" /\ errstr' = errstr
    BY <1>4 DEF SetupFailed
  <2>2. wanted \in Int
    BY <1>1 DEF LogInv, TableInv
  <2>3. args'.fmt \in Seq(AllDirectives)
    BY <2>1, <2>2, FormatTypes
  <2> QED  BY <1>1, <2>1, <2>3 DEF BufferInv
<1>5. CASE Stopped
  BY <1>2, <1>5 DEF Stopped
<1>6. CASE CallStderr
  <2>1. args' \in Lines /\ pc' = "print" /\ errstr' = errstr
    BY <1>6 DEF CallStderr
  <2>2. args'.fmt \in Seq(AllDirectives)
    BY <2>1, LogAssumption DEF Lines, LogAssumption
  <2> QED  BY <1>1, <2>1, <2>2 DEF BufferInv
<1>7. CASE PrintMessage
  <2>1. errstr' = ngx_vslprintf(Banner, NGX_MAX_ERROR_STR, args.fmt) /\ pc' \in {"errno", "linefeed"}
        /\ pc = "print"
    BY <1>7 DEF PrintMessage
  <2>2. errstr' \in B
    BY <2>1, Sizes, OutputFits DEF BufferInv
  <2> QED  BY <1>1, <2>1, <2>2 DEF BufferInv
<1>8. CASE AddErrno
  <2>1. errstr' = ngx_log_errno(errstr, NGX_MAX_ERROR_STR, args.err) /\ pc' = "linefeed" /\ pc = "errno"
    BY <1>8 DEF AddErrno
  <2>2. setup = "done" /\ args.err \in Errors
    BY <1>1, <2>1 DEF LogInv, ControlInv
  <2>3. errstr' \in B
    BY <1>1, <2>1, <2>2, ErrnoFits
  <2> QED  BY <1>1, <2>1, <2>3 DEF BufferInv
<1>9. CASE Write
  <2>1. errstr' = Fed(errstr, NGX_MAX_ERROR_STR) /\ pc' = "written"
    BY <1>9 DEF Write
  <2>2. NGX_MAX_ERROR_STR \in Nat \ {0}
    BY Sizes
  <2>3. errstr' \in B
    BY <1>1, <2>1, <2>2, FedFits
  <2> QED  BY <1>1, <2>1, <2>3 DEF BufferInv
<1>10. CASE ReturnStderr
  <2>1. errstr' = <<>> /\ pc' \in {"failed", "idle"}
    BY <1>10 DEF ReturnStderr
  <2> QED  BY <1>1, <2>1, EmptyBuffer DEF BufferInv
<1>11. ASSUME NEW prefix \in PrefixArgs, NEW errorLog \in LogArgs, InitLog(prefix, errorLog)
       PROVE  BufferInv'
  <2> DEFINE log == GivenOr(errorLog, NGX_ERROR_LOG_PATH)
             dir == GivenOr(prefix, NGX_PREFIX)
  <2>1. log \in CStrings /\ dir \in CStrings
    BY PathTexts
  <2>2. errstr' = errstr /\ pc = "idle" /\ pc' # "print"
    BY <1>11 DEF InitLog
  <2>3. pc' = "open" => \/ name' = log
                        \/ dir # <<>> /\ name' = FullName(dir, log)
    BY <1>11, <2>2 DEF InitLog
  <2> HIDE DEF log, dir
  <2>4. pc' = "open" => name' \in Seq(Nat)
    <3>1. log \in Seq(Nat)
      BY <2>1, CStringBytes
    <3>2. ASSUME dir # <<>> PROVE FullName(dir, log) \in Seq(Nat)
      <4>1. WithSeparator(dir) \in CStrings /\ FullName(dir, log) = WithSeparator(dir) \o log
        BY <2>1, <3>2, FullNameIs
      <4>2. WithSeparator(dir) \in Seq(Nat)
        BY <4>1, CStringBytes
      <4> QED  BY <3>1, <4>1, <4>2, ConcatProperties
    <3> QED  BY <2>3, <3>1, <3>2
  <2> QED  BY <1>1, <2>2, <2>4 DEF BufferInv
<1>12. CASE OpenFile
  <2>1. errstr' = errstr /\ pc = "open" /\ name \in Seq(Nat)
    BY <1>12 DEF OpenFile, BufferInv
  <2>2. \/ pc' = "opened"
        \/ pc' = "print" /\ \E err \in Errors : args' = OpenFailed(err)
    BY <1>12 DEF OpenFile
  <2>3. pc' = "print" => args'.fmt \in Seq(AllDirectives)
    BY <2>1, <2>2, FormatTypes
  <2> QED  BY <1>1, <2>1, <2>2, <2>3 DEF BufferInv
<1>13. CASE Fallback
  BY <1>1, <1>13 DEF Fallback, BufferInv
<1>14. CASE FreeName
  BY <1>1, <1>14 DEF FreeName, BufferInv
<1> QED  BY <1>2, <1>3, <1>4, <1>5, <1>6, <1>7, <1>8, <1>9, <1>10, <1>11, <1>12, <1>13, <1>14 DEF Next

LEMMA BufferAlways == Spec => []BufferInv
BY BufferInit, BufferStep, PTL DEF Spec

(***************************************************************************)
(* ngx_log_stderr never writes beyond its buffer, however large that is,   *)
(* whatever formats it is given, in any width of integers: the one check   *)
(* before a directive covers the sign, the point, the character or the     *)
(* pair of digits it stores unchecked.  Likewise for the three dots, the   *)
(* closing bracket and the line feed.                                      *)
(***************************************************************************)
THEOREM LineStaysInBuffer == Spec => []InBuffer
<1>1. BufferInv => InBuffer
  BY DEF BufferInv, Buffers, InBuffer
<1> QED  BY <1>1, BufferAlways, PTL

-----------------------------------------------------------------------------
(* There is one expansion of a number: the one the reference names.        *)
LEMMA SizeOfExpansion ==
  ASSUME NEW base \in {10, 16}, NEW n \in Nat, NEW s \in Nat \ {0}, NEW t \in Nat \ {0},
         n < Power(base, s), n < Power(base, t),
         s = 1 \/ n >= Power(base, s - 1), t = 1 \/ n >= Power(base, t - 1)
  PROVE  s = t
<1>1. base \in Nat /\ base >= 2
  OBVIOUS
<1>2. ASSUME NEW u \in Nat \ {0}, NEW v \in Nat \ {0}, u < v, n < Power(base, u),
             v = 1 \/ n >= Power(base, v - 1)
      PROVE  FALSE
  <2>1. v # 1 /\ v - 1 \in Nat /\ u \in 0..(v - 1)
    BY <1>2
  <2>2. Power(base, u) <= Power(base, v - 1) /\ Power(base, u) \in Nat /\ Power(base, v - 1) \in Nat
    BY <1>1, <2>1, PowerGrows, PowerIs
  <2> QED  BY <1>2, <2>1, <2>2
<1>3. s < t \/ s = t \/ t < s
  OBVIOUS
<1> QED  BY <1>2, <1>3

LEMMA NumeralIs ==
  ASSUME NEW n \in Nat, NEW hex, NEW ds,
         Expansion(ds, n, IF hex = 0 THEN 10 ELSE 16)
  PROVE  Numeral(n, hex) = [k \in DOMAIN ds |-> Character(ds[k], hex)]
<1> DEFINE base == IF hex = 0 THEN 10 ELSE 16
           OfSize(s) == n < Power(base, s) /\ (s = 1 \/ n >= Power(base, s - 1))
           size == CHOOSE s \in 1..(n + 1) : OfSize(s)
           l == Len(ds)
<1>1. base \in {10, 16} /\ base \in Nat /\ base >= 2
  OBVIOUS
<1> HIDE DEF base
<1>2. /\ ds \in Seq(Nat) /\ l \in Nat \ {0} /\ OfSize(l) /\ DOMAIN ds = 1..l
      /\ \A k \in 1..l : ds[k] = (n \div Power(base, l - k)) % base
  BY LenProperties DEF Expansion, base
<1>3. l \in 1..(n + 1)
  <2>1. CASE l = 1
    BY <2>1
  <2>2. CASE l # 1
    <3> HIDE DEF l
    <3>1. l - 1 \in Nat /\ l - 1 \in 0..(l - 1)
      BY <1>2
    <3>2. l - 1 < Power(base, l - 1) /\ Power(base, l - 1) \in Nat
      BY <1>1, <3>1, PowerGrows
    <3>3. n >= Power(base, l - 1)
      BY <1>2, <2>2
    <3> QED  BY <1>2, <3>2, <3>3
  <2> QED  BY <2>1, <2>2
<1>4. size \in 1..(n + 1) /\ OfSize(size)
  <2> HIDE DEF OfSize
  <2> QED  BY <1>2, <1>3
<1>5. size = l
  <2> HIDE DEF size, l
  <2>1. size \in Nat \ {0}
    BY <1>4
  <2> QED  BY <1>1, <1>2, <1>4, <2>1, SizeOfExpansion
<1>6. Numeral(n, hex) = [k \in 1..size |-> Character((n \div Power(base, size - k)) % base, hex)]
  BY DEF Numeral, base
<1> HIDE DEF size, l, OfSize
<1>7. \A k \in 1..l : Character((n \div Power(base, l - k)) % base, hex) = Character(ds[k], hex)
  BY <1>2
<1> QED  BY <1>2, <1>5, <1>6, <1>7

LEMMA DigitsAreNumeral ==
  ASSUME NEW n \in Nat, NEW hex
  PROVE  Digits(n, hex) = Numeral(n, hex)
<1> DEFINE narrow == hex = 0 /\ n <= 2^HalfBits - 1
           base == IF hex = 0 THEN 10 ELSE 16
           ds == Divided(IF narrow THEN n % 2^HalfBits ELSE n, base)
<1>1. narrow => n % 2^HalfBits = n
  <2> DEFINE m == 2^HalfBits
  <2>1. m \in Nat \ {0}
    BY Widths
  <2> HIDE DEF m
  <2>2. n <= m - 1 => ((m * 0) + n) % m = n
    BY <2>1, QuotientOf
  <2>3. (m * 0) + n = n
    BY <2>1
  <2> QED  BY <2>2, <2>3 DEF m
<1>2. ds = Divided(n, base)
  <2> HIDE DEF narrow
  <2> QED  BY <1>1
<1>3. Expansion(Divided(n, base), n, base)
  BY DividedIs
<1>4. Numeral(n, hex) = [k \in DOMAIN ds |-> Character(ds[k], hex)]
  <2> HIDE DEF ds
  <2> QED  BY <1>2, <1>3, NumeralIs
<1>5. Digits(n, hex) = [k \in DOMAIN ds |-> Character(ds[k], hex)]
  BY DEF Digits
<1> QED  BY <1>4, <1>5

LEMMA NumeralType ==
  ASSUME NEW n \in Nat
  PROVE  Numeral(n, 0) \in Seq(Nat)
BY DigitsType, DigitsAreNumeral

-----------------------------------------------------------------------------
(***************************************************************************)
(* c is as much of the text X as goes into `room' bytes, or one byte less; *)
(* the last byte that goes in need not be X's.  Adds says that of what an  *)
(* output function appended to its buffer.                                 *)
(***************************************************************************)
Clip(c, X, room) ==
  /\ c \in Seq(Nat) /\ X \in Seq(Nat) /\ Len(c) <= room
  /\ \/ c = X
     \/ Len(c) >= room - 1 /\ Len(X) >= room - 1 /\ \A i \in 1..(room - 1) : c[i] = X[i]

Adds(b, r, X, last) == \E c : r = b \o c /\ Clip(c, X, Room(b, last))

LEMMA JoinIs ==
  ASSUME NEW s \in Seq(Nat), NEW t \in Seq(Nat)
  PROVE  /\ s \o t \in Seq(Nat) /\ Len(s \o t) = Len(s) + Len(t) /\ Len(s) \in Nat /\ Len(t) \in Nat
         /\ \A i \in 1..(Len(s) + Len(t)) : (s \o t)[i] = IF i <= Len(s) THEN s[i] ELSE t[i - Len(s)]
<1>1. Len(s) \in Nat /\ Len(t) \in Nat
  BY LenProperties
<1> QED  BY <1>1, ConcatProperties, SMTT(30)

LEMMA JoinAssociative ==
  ASSUME NEW s \in Seq(Nat), NEW t \in Seq(Nat), NEW u \in Seq(Nat)
  PROVE  (s \o t) \o u = s \o (t \o u)
BY ConcatAssociative, SMTT(30)

LEMMA JoinPair ==
  ASSUME NEW S, NEW a \in S, NEW b \in S
  PROVE  <<a>> \o <<b>> = <<a, b>>
<1> DEFINE s == <<a>>
           t == <<b>>
           u == <<a, b>>
<1>1. s \in Seq(S) /\ t \in Seq(S) /\ u \in Seq(S) /\ Len(s) = 1 /\ Len(t) = 1 /\ Len(u) = 2
      /\ s[1] = a /\ t[1] = b /\ u[1] = a /\ u[2] = b
  OBVIOUS
<1> HIDE DEF s, t, u
<1>2. /\ s \o t \in Seq(S) /\ Len(s \o t) = Len(s) + Len(t)
      /\ \A i \in 1..(Len(s) + Len(t)) : (s \o t)[i] = IF i <= Len(s) THEN s[i] ELSE t[i - Len(s)]
  BY <1>1, ConcatProperties
<1>3. Len(s \o t) = 2 /\ (s \o t)[1] = u[1] /\ (s \o t)[2] = u[2]
  BY <1>1, <1>2
<1>4. \A i \in 1..Len(s \o t) : (s \o t)[i] = u[i]
  <2>1. \A i \in 1..2 : i = 1 \/ i = 2
    OBVIOUS
  <2> QED  BY <1>3, <2>1
<1>5. s \o t = u
  BY <1>1, <1>2, <1>3, <1>4, SeqEqual
<1> QED  BY <1>5 DEF s, t, u

LEMMA ClipJoin ==
  ASSUME NEW room \in Nat, NEW c, NEW X, NEW e, NEW Y,
         Clip(c, X, room), Clip(e, Y, room - Len(c))
  PROVE  Clip(c \o e, X \o Y, room)
<1>1. c \in Seq(Nat) /\ X \in Seq(Nat) /\ e \in Seq(Nat) /\ Y \in Seq(Nat)
  BY DEF Clip
<1> DEFINE r == c \o e
           R == X \o Y
<1>2. /\ r \in Seq(Nat) /\ Len(r) = Len(c) + Len(e) /\ Len(c) \in Nat /\ Len(e) \in Nat
      /\ \A i \in 1..(Len(c) + Len(e)) : r[i] = IF i <= Len(c) THEN c[i] ELSE e[i - Len(c)]
  BY <1>1, JoinIs
<1>3. /\ R \in Seq(Nat) /\ Len(R) = Len(X) + Len(Y) /\ Len(X) \in Nat /\ Len(Y) \in Nat
      /\ \A i \in 1..(Len(X) + Len(Y)) : R[i] = IF i <= Len(X) THEN X[i] ELSE Y[i - Len(X)]
  BY <1>1, JoinIs
<1> SUFFICES Clip(r, R, room)
  OBVIOUS
<1>4. c = X /\ e = Y => r = R
  OBVIOUS
<1> HIDE DEF r, R
<1>5. Len(c) \in Nat /\ Len(e) \in Nat /\ Len(X) \in Nat /\ Len(Y) \in Nat
  BY <1>2, <1>3
<1>6. Len(e) <= room - Len(c) /\ Len(r) <= room
  <2>1. Len(e) <= room - Len(c)
    BY DEF Clip
  <2> QED  BY <1>2, <1>5, <2>1
<1>7. ASSUME Len(r) >= room - 1, Len(R) >= room - 1, \A i \in 1..(room - 1) : r[i] = R[i]
      PROVE  Clip(r, R, room)
  BY <1>2, <1>3, <1>6, <1>7 DEF Clip
<1>8. CASE c = X /\ e = Y
  BY <1>2, <1>3, <1>4, <1>6, <1>8 DEF Clip
<1>9. CASE c = X /\ e # Y
  <2>1. /\ Len(e) >= (room - Len(c)) - 1 /\ Len(Y) >= (room - Len(c)) - 1
        /\ \A i \in 1..((room - Len(c)) - 1) : e[i] = Y[i]
    BY <1>9 DEF Clip
  <2>2. Len(e) >= (room - Len(c)) - 1 /\ Len(Y) >= (room - Len(c)) - 1
    BY <2>1
  <2>3. Len(r) >= room - 1 /\ Len(R) >= room - 1
    BY <1>2, <1>3, <1>5, <1>9, <2>2
  <2>4. ASSUME NEW i \in 1..(room - 1) PROVE r[i] = R[i]
    <3>1. i \in 1..(Len(c) + Len(e)) /\ i \in 1..(Len(c) + Len(Y))
      BY <1>5, <2>2
    <3>2. r[i] = IF i <= Len(c) THEN c[i] ELSE e[i - Len(c)]
      BY <1>2, <3>1
    <3>3. R[i] = IF i <= Len(c) THEN c[i] ELSE Y[i - Len(c)]
      BY <1>3, <1>9, <3>1
    <3>4. ~(i <= Len(c)) => i - Len(c) \in 1..((room - Len(c)) - 1)
      BY <1>5
    <3> QED  BY <2>1, <3>2, <3>3, <3>4
  <2> QED  BY <1>7, <2>3, <2>4
<1>10. CASE c # X
  <2>1. Len(c) >= room - 1 /\ Len(X) >= room - 1 /\ \A i \in 1..(room - 1) : c[i] = X[i]
    BY <1>10 DEF Clip
  <2>2. Len(c) >= room - 1 /\ Len(X) >= room - 1
    BY <2>1
  <2>3. Len(r) >= room - 1 /\ Len(R) >= room - 1
    BY <1>2, <1>3, <1>5, <2>2
  <2>4. ASSUME NEW i \in 1..(room - 1) PROVE r[i] = R[i]
    <3>1. i \in 1..(Len(c) + Len(e)) /\ i <= Len(c) /\ i \in 1..(Len(X) + Len(Y)) /\ i <= Len(X)
      BY <1>5, <2>2
    <3>2. r[i] = c[i]
      BY <1>2, <3>1
    <3>3. R[i] = X[i]
      BY <1>3, <3>1
    <3> QED  BY <2>1, <3>2, <3>3
  <2> QED  BY <1>7, <2>3, <2>4
<1> QED  BY <1>8, <1>9, <1>10

LEMMA ClipAdds ==
  ASSUME NEW last \in Nat, NEW b, NEW T, Clip(b, T, last), NEW r, NEW X, Adds(b, r, X, last)
  PROVE  Clip(r, T \o X, last)
<1>1. PICK c : r = b \o c /\ Clip(c, X, Room(b, last))
  BY DEF Adds
<1>2. Clip(c, X, last - Len(b))
  BY <1>1 DEF Room
<1> QED  BY <1>1, <1>2, ClipJoin

LEMMA ClipWhole ==
  ASSUME NEW last \in Nat, NEW b \in Buffers(last)
  PROVE  Clip(b, b, last)
BY DEF Clip, Buffers

LEMMA AddsInBuffer ==
  ASSUME NEW last \in Nat, NEW b \in Buffers(last), NEW r, NEW X, Adds(b, r, X, last)
  PROVE  r \in Buffers(last) /\ X \in Seq(Nat)
<1>1. PICK c : r = b \o c /\ Clip(c, X, Room(b, last))
  BY DEF Adds
<1>2. b \in Seq(Nat) /\ c \in Seq(Nat) /\ X \in Seq(Nat) /\ Len(c) <= last - Len(b)
  BY <1>1 DEF Clip, Buffers, Room
<1>3. r \in Seq(Nat) /\ Len(r) = Len(b) + Len(c) /\ Len(b) \in Nat /\ Len(c) \in Nat
  BY <1>1, <1>2, JoinIs
<1> QED  BY <1>2, <1>3 DEF Buffers

LEMMA AddsJoin ==
  ASSUME NEW last \in Nat, NEW b \in Buffers(last), NEW r, NEW s, NEW X, NEW Y,
         Adds(b, r, X, last), Adds(r, s, Y, last)
  PROVE  Adds(b, s, X \o Y, last)
<1>1. PICK c : r = b \o c /\ Clip(c, X, Room(b, last))
  BY DEF Adds
<1>2. PICK e : s = r \o e /\ Clip(e, Y, Room(r, last))
  BY DEF Adds
<1>3. b \in Seq(Nat) /\ c \in Seq(Nat) /\ e \in Seq(Nat)
  BY <1>1, <1>2 DEF Clip, Buffers
<1>4. Len(r) = Len(b) + Len(c) /\ Len(b) \in Nat /\ Len(c) \in Nat /\ Len(b) <= last
  BY <1>1, <1>3, JoinIs DEF Buffers
<1>5. Room(r, last) = Room(b, last) - Len(c) /\ Room(b, last) \in Nat
  BY <1>4 DEF Room
<1>6. s = b \o (c \o e)
  <2>1. (b \o c) \o e = b \o (c \o e)
    BY <1>3, JoinAssociative, Zenon
  <2> QED  BY <1>1, <1>2, <2>1, Zenon
<1>7. Clip(c \o e, X \o Y, Room(b, last))
  <2>1. Clip(e, Y, Room(b, last) - Len(c))
    BY <1>2, <1>5
  <2> QED  BY <1>1, <1>5, <2>1, ClipJoin
<1> QED  BY <1>6, <1>7 DEF Adds

LEMMA AddsNothing ==
  ASSUME NEW last \in Nat, NEW b \in Buffers(last)
  PROVE  Adds(b, b, <<>>, last)
<1>1. b \in Seq(Nat) /\ Len(b) \in Nat /\ Len(b) <= last
  BY LenProperties DEF Buffers
<1>2. b = b \o <<>>
  BY <1>1, ConcatEmptySeq
<1>3. Clip(<<>>, <<>>, Room(b, last))
  BY <1>1 DEF Clip, Room
<1> QED  BY <1>2, <1>3 DEF Adds

LEMMA AddsToFull ==
  ASSUME NEW last \in Nat, NEW b \in Buffers(last), ~(Len(b) < last), NEW X \in Seq(Nat)
  PROVE  Adds(b, b, X, last)
<1>1. b \in Seq(Nat) /\ Len(b) \in Nat /\ Len(b) = last /\ Len(X) \in Nat
  BY LenProperties DEF Buffers
<1>2. b = b \o <<>>
  BY <1>1, ConcatEmptySeq
<1>3. Clip(<<>>, X, Room(b, last))
  BY <1>1 DEF Clip, Room
<1> QED  BY <1>2, <1>3 DEF Adds

LEMMA AddsStore ==
  ASSUME NEW last \in Nat, NEW b \in Buffers(last), Len(b) < last, NEW c \in Nat
  PROVE  Adds(b, Append(b, c), <<c>>, last)
<1>1. b \in Seq(Nat) /\ Len(b) \in Nat
  BY LenProperties DEF Buffers
<1>2. Append(b, c) = b \o <<c>>
  BY <1>1, AppendIsConcat
<1>3. Clip(<<c>>, <<c>>, Room(b, last))
  BY <1>1 DEF Clip, Room
<1> QED  BY <1>2, <1>3 DEF Adds

\* A copy up to the end of the buffer.
LEMMA AddsCopy ==
  ASSUME NEW last \in Nat, NEW b \in Buffers(last), NEW s \in Seq(Nat), NEW n \in Int,
         n = Least(Len(s), Room(b, last))
  PROVE  Adds(b, b \o SubSeq(s, 1, n), s, last)
<1> DEFINE room == Room(b, last)
           c == SubSeq(s, 1, n)
<1>1. b \in Seq(Nat) /\ Len(b) \in Nat /\ Len(b) <= last /\ Len(s) \in Nat /\ room \in Nat
  BY LenProperties DEF Buffers, Room
<1> HIDE DEF room
<1>2. n = IF Len(s) <= room THEN Len(s) ELSE room
  BY DEF Least, room
<1>3. n \in Nat /\ n <= room /\ n <= Len(s) /\ \A i \in 1..n : s[i] \in Nat
  <2>1. \A i \in 1..Len(s) : s[i] \in Nat
    BY ElementOfSeq
  <2> QED  BY <1>1, <1>2, <2>1
<1>4. c \in Seq(Nat) /\ Len(c) = n /\ \A i \in 1..n : c[i] = s[i]
  <2>1. /\ c \in Seq(Nat) /\ Len(c) = IF 1 <= n THEN (n - 1) + 1 ELSE 0
        /\ \A i \in 1..((n - 1) + 1) : c[i] = s[(1 + i) - 1]
    BY <1>1, <1>3, SubSeqProperties
  <2> HIDE DEF c
  <2> QED  BY <1>3, <2>1
<1> HIDE DEF c
<1>5. CASE n = Len(s)
  <2>1. c = s
    BY <1>4, <1>5, SeqEqual
  <2> QED  BY <1>3, <1>4, <1>5, <2>1 DEF Adds, Clip, c, room
<1>6. CASE n = room /\ n < Len(s)
  <2>1. Clip(c, s, room)
    BY <1>1, <1>3, <1>4, <1>6 DEF Clip
  <2> QED  BY <2>1 DEF Adds, c, room
<1> QED  BY <1>1, <1>2, <1>5, <1>6

LEMMA RepeatIs ==
  ASSUME NEW c \in Nat, NEW n \in Int
  PROVE  /\ Repeat(c, n) \in Seq(Nat)
         /\ Len(Repeat(c, n)) = IF n < 0 THEN 0 ELSE n
         /\ \A i \in 1..Len(Repeat(c, n)) : Repeat(c, n)[i] = c
<1>1. CASE n \in Nat
  BY <1>1 DEF Repeat
<1>2. CASE n \notin Nat
  <2>1. 1..n = 1..0
    BY <1>2
  <2>2. Repeat(c, n) = [k \in 1..0 |-> c]
    BY <2>1 DEF Repeat
  <2> QED  BY <1>2, <2>2
<1> QED  BY <1>1, <1>2

\* Padding up to the end of the buffer.
LEMMA AddsPadding ==
  ASSUME NEW last \in Nat, NEW b \in Buffers(last), NEW c \in Nat, NEW n \in Int
  PROVE  Adds(b, b \o Repeat(c, Least(n, Room(b, last))), Repeat(c, n), last)
<1> DEFINE room == Room(b, last)
           m == Least(n, room)
           x == Repeat(c, m)
           X == Repeat(c, n)
<1>1. b \in Seq(Nat) /\ Len(b) \in Nat /\ Len(b) <= last /\ room \in Nat
  BY LenProperties DEF Buffers, Room
<1>2. m \in Int /\ m <= room /\ (m = n \/ (m = room /\ room < n))
  BY <1>1 DEF Least
<1> HIDE DEF room, m
<1>3. /\ x \in Seq(Nat) /\ Len(x) = (IF m < 0 THEN 0 ELSE m) /\ \A i \in 1..Len(x) : x[i] = c
      /\ X \in Seq(Nat) /\ Len(X) = (IF n < 0 THEN 0 ELSE n) /\ \A i \in 1..Len(X) : X[i] = c
  BY <1>2, RepeatIs
<1>4. CASE m = n
  <2>1. x = X
    BY <1>4
  <2> HIDE DEF x, X
  <2>2. Len(x) <= room
    BY <1>1, <1>2, <1>3
  <2> QED  BY <1>3, <2>1, <2>2 DEF Adds, Clip, x, X, m, room
<1>5. CASE m = room /\ room < n
  <2> HIDE DEF x, X
  <2>1. Clip(x, X, room)
    BY <1>1, <1>3, <1>5 DEF Clip
  <2> QED  BY <2>1 DEF Adds, x, X, m, room
<1> QED  BY <1>2, <1>4, <1>5

LEMMA AddsNumber ==
  ASSUME NEW last \in Nat, NEW b \in Buffers(last), NEW n \in Nat, NEW zero \in Nat, NEW hex,
         NEW width \in Nat
  PROVE  Adds(b, ngx_sprintf_num(b, last, n, zero, hex, width),
              Padded(zero, width, Numeral(n, hex)), last)
<1> DEFINE temp == Digits(n, hex)
           pad == Repeat(zero, width - Len(temp))
           padded == b \o Repeat(zero, Least(width - Len(temp), Room(b, last)))
           m == Least(Len(temp), Room(padded, last))
           r == padded \o SubSeq(temp, 1, m)
<1>1. temp \in Seq(Nat) /\ Len(temp) \in Nat /\ temp = Numeral(n, hex)
  BY DigitsType, LenProperties, DigitsAreNumeral
<1> HIDE DEF temp
<1>2. Adds(b, padded, pad, last)
  BY <1>1, AddsPadding
<1> HIDE DEF padded
<1>3. padded \in Buffers(last)
  BY <1>2, AddsInBuffer
<1>4. m \in Int
  BY <1>1, <1>3 DEF Least, Room, Buffers
<1>5. Adds(padded, r, temp, last)
  BY <1>1, <1>3, <1>4, AddsCopy
<1> HIDE DEF r, pad
<1>6. Adds(b, r, pad \o temp, last)
  BY <1>2, <1>5, AddsJoin
<1> QED  BY <1>1, <1>6 DEF ngx_sprintf_num, Padded, temp, pad, padded, m, r

-----------------------------------------------------------------------------
HexDigit(s, hex, k) ==
  LET byte == s[(k + 1) \div 2]
  IN  Character(IF k % 2 = 1 THEN byte \div 16 ELSE byte % 16, hex)

\* The pairs of the first bytes are the first pairs.
LEMMA HexPairsOfPrefix ==
  ASSUME NEW s \in Seq(Nat), NEW hex, NEW n \in Nat, n <= Len(s)
  PROVE  \A k \in 1..(2 * n) : HexPairs(SubSeq(s, 1, n), hex)[k] = HexPairs(s, hex)[k]
<1> DEFINE t == SubSeq(s, 1, n)
<1>1. Len(s) \in Nat /\ \A i \in 1..n : s[i] \in Nat
  BY LenProperties, ElementOfSeq
<1>2. Len(t) = n /\ \A i \in 1..n : t[i] = s[i]
  <2>1. /\ Len(t) = IF 1 <= n THEN (n - 1) + 1 ELSE 0
        /\ \A i \in 1..((n - 1) + 1) : t[i] = s[(1 + i) - 1]
    BY <1>1, SubSeqProperties
  <2> HIDE DEF t
  <2> QED  BY <1>1, <2>1
<1>3. /\ HexPairs(s, hex) = [k \in 1..(2 * Len(s)) |-> HexDigit(s, hex, k)]
      /\ HexPairs(t, hex) = [k \in 1..(2 * Len(t)) |-> HexDigit(t, hex, k)]
  BY DEF HexPairs, HexDigit
<1> HIDE DEF t
<1>4. ASSUME NEW k \in 1..(2 * n) PROVE HexPairs(t, hex)[k] = HexPairs(s, hex)[k]
  <2>1. (k + 1) \div 2 \in 1..n /\ k \in 1..(2 * Len(s)) /\ k \in 1..(2 * Len(t))
    BY <1>1, <1>2
  <2>2. t[(k + 1) \div 2] = s[(k + 1) \div 2]
    BY <1>2, <2>1
  <2>3. HexDigit(t, hex, k) = HexDigit(s, hex, k)
    BY <2>2, Zenon DEF HexDigit
  <2> QED  BY <1>3, <2>1, <2>3
<1> QED  BY <1>4 DEF t

LEMMA AddsString ==
  ASSUME NEW last \in Nat, NEW b \in Buffers(last), NEW src \in Seq(Nat),
         NEW len \in Nat \cup {NoLength}, len = NoLength \/ len <= Len(src), NEW hex
  PROVE  Adds(b, ngx_sprintf_str(b, last, src, len, hex),
              IF hex = 0 THEN Bytes(src, len) ELSE HexPairs(Bytes(src, len), hex), last)
<1> DEFINE bytes == Bytes(src, len)
           room == Room(b, last)
<1>1. bytes \in Seq(Nat) /\ Len(bytes) \in Nat
  BY BytesType, LenProperties
<1>2. room \in Nat
  <2>1. Len(b) \in Nat /\ Len(b) <= last
    BY LenProperties DEF Buffers
  <2> QED  BY <2>1 DEF Room
<1> HIDE DEF bytes
<1>3. CASE hex = 0
  <2> DEFINE n == Least(room, Len(bytes))
  <2>1. n \in Int /\ n = Least(Len(bytes), room)
    BY <1>1, <1>2 DEF Least
  <2> HIDE DEF n
  <2>2. Adds(b, b \o SubSeq(bytes, 1, n), bytes, last)
    BY <1>1, <2>1, AddsCopy
  <2> QED  BY <1>3, <2>2 DEF ngx_sprintf_str, bytes, n
<1>4. CASE hex # 0
  <2> DEFINE n == Least(room \div 2, Len(bytes))
             cut == SubSeq(bytes, 1, n)
             c == HexPairs(cut, hex)
             X == HexPairs(bytes, hex)
  <2> HIDE DEF room
  <2>1. n \in Nat /\ 2 * n <= room /\ n <= Len(bytes) /\ (n = Len(bytes) \/ 2 * n >= room - 1)
    BY <1>1, <1>2 DEF Least
  <2> HIDE DEF n
  <2>2. cut \in Seq(Nat) /\ Len(cut) = n
    BY <1>1, <2>1, PrefixType
  <2>3. /\ c \in Seq(Nat) /\ Len(c) = 2 * n /\ X \in Seq(Nat) /\ Len(X) = 2 * Len(bytes)
        /\ \A k \in 1..(2 * n) : c[k] = X[k]
    <3>1. \A k \in 1..(2 * n) : c[k] = X[k]
      BY <1>1, <2>1, HexPairsOfPrefix
    <3> HIDE DEF cut
    <3>2. c \in Seq(Nat) /\ Len(c) = 2 * Len(cut) /\ X \in Seq(Nat) /\ Len(X) = 2 * Len(bytes)
      BY <1>1, <2>2, HexPairsType
    <3> HIDE DEF c, X
    <3> QED  BY <2>2, <3>1, <3>2
  <2> HIDE DEF c, X
  <2>4. CASE n = Len(bytes)
    <3>1. c = X
      <4>1. Len(c) = Len(X)
        BY <2>3, <2>4
      <4>2. \A k \in 1..Len(c) : c[k] = X[k]
        BY <2>3
      <4> QED  BY <2>3, <4>1, <4>2, SeqEqual
    <3>2. Clip(c, X, room)
      BY <2>1, <2>3, <3>1 DEF Clip
    <3> QED  BY <1>4, <3>2 DEF Adds, ngx_sprintf_str, bytes, room, n, cut, c, X
  <2>5. CASE 2 * n >= room - 1
    <3>1. Len(X) >= 2 * n
      BY <1>1, <2>1, <2>3
    <3>2. Len(c) <= room /\ Len(c) >= room - 1 /\ Len(X) >= room - 1
      BY <1>1, <1>2, <2>1, <2>3, <2>5, <3>1
    <3>3. \A k \in 1..(room - 1) : c[k] = X[k]
      BY <1>2, <2>1, <2>3, <2>5
    <3>4. Clip(c, X, room)
      BY <2>3, <3>2, <3>3 DEF Clip
    <3> QED  BY <1>4, <3>4 DEF Adds, ngx_sprintf_str, bytes, room, n, cut, c, X
  <2> QED  BY <2>1, <2>4, <2>5
<1> QED  BY <1>3, <1>4

LEMMA ModuloSmall ==
  ASSUME NEW m \in Nat \ {0}, NEW x \in 0..(m - 1)
  PROVE  x % m = x
<1>1. ((m * 0) + x) % m = x
  BY QuotientOf
<1> QED  BY <1>1

LEMMA RemainderOf ==
  ASSUME NEW m \in Nat \ {0}, NEW q \in Int, NEW r \in 0..(m - 1)
  PROVE  ((m * q) + r) % m = r
OBVIOUS

\* Adding the modulus once leaves the remainder.
SameRemainder(i, m) == (i + m) % m = i % m

LEMMA RemainderShifted ==
  ASSUME NEW i \in Int, NEW m \in Nat \ {0}
  PROVE  SameRemainder(i, m)
<1> DEFINE q == i \div m
           r == i % m
           u == q + 1
<1>1. q \in Int /\ r \in 0..(m - 1) /\ i = (m * q) + r
  BY SMTT(30)
<1> HIDE DEF q, r
<1>2. i + m = (m * u) + r
  <2>1. m * u = (m * q) + m
    BY <1>1
  <2>2. m * q \in Int
    BY <1>1
  <2> QED  BY <1>1, <2>1, <2>2
<1>3. u \in Int
  BY <1>1
<1> HIDE DEF u
<1>4. ((m * u) + r) % m = r
  BY <1>1, <1>3, RemainderOf
<1> QED  BY <1>2, <1>4 DEF SameRemainder, r

LEMMA AddsSigned ==
  ASSUME NEW last \in Nat, NEW b \in Buffers(last), Len(b) < last,
         NEW d \in [type : {"num"}, i : Int, sign : BOOLEAN, zero : Nat, hex : 0..2, width : Nat],
         -(2^Bits) < d.i, d.i < 2^Bits
  PROVE  Adds(b, PrintNumber(b, last, d), RenderedNumber(d), last)
<1> DEFINE M == 2^Bits
<1>1. /\ d.i \in Int /\ d.zero \in Nat /\ d.width \in Nat /\ Minus \in Nat /\ M \in Nat \ {0}
      /\ -M < d.i /\ d.i < M
  BY Widths DEF Minus
<1> HIDE DEF M
<1>2. CASE d.sign /\ d.i < 0
  <2>1. -d.i \in 0..(M - 1) /\ -d.i \in Nat
    BY <1>1, <1>2
  <2>2. (-d.i) % M = -d.i
    BY <1>1, <2>1, ModuloSmall
  <2> DEFINE r == Append(b, Minus)
             s == ngx_sprintf_num(r, last, -d.i, d.zero, d.hex, d.width)
             X == Padded(d.zero, d.width, Numeral(-d.i, d.hex))
  <2>3. Adds(b, r, <<Minus>>, last)
    BY <1>1, AddsStore
  <2>4. r \in Buffers(last)
    BY <2>3, AddsInBuffer
  <2> HIDE DEF r
  <2>5. Adds(r, s, X, last)
    BY <1>1, <2>1, <2>4, AddsNumber
  <2> HIDE DEF s, X
  <2>6. Adds(b, s, <<Minus>> \o X, last)
    BY <2>3, <2>5, AddsJoin
  <2>7. PrintNumber(b, last, d) = s
    BY <1>2, <2>2, Zenon DEF PrintNumber, M, s, r
  <2>8. RenderedNumber(d) = <<Minus>> \o X
    BY <1>2 DEF RenderedNumber, X
  <2> QED  BY <2>6, <2>7, <2>8
<1>3. CASE ~(d.sign /\ d.i < 0)
  <2> DEFINE v == IF d.i < 0 THEN M + d.i ELSE d.i
  <2>1. v \in 0..(M - 1) /\ v \in Nat
    BY <1>1
  <2>2. d.i % M = v
    <3>1. v % M = v
      <4> HIDE DEF v
      <4> QED  BY <1>1, <2>1, ModuloSmall
    <3>2. CASE d.i < 0
      <4>1. (d.i + M) % M = d.i % M
        <5> DEFINE i == d.i
        <5>1. i \in Int /\ M \in Nat \ {0}
          BY <1>1
        <5> HIDE DEF i, M
        <5>2. SameRemainder(i, M)
          BY <5>1, RemainderShifted
        <5> QED  BY <5>2 DEF i, M, SameRemainder
      <4>2. d.i + M = v
        BY <1>1, <3>2
      <4> QED  BY <3>1, <4>1, <4>2
    <3>3. CASE ~(d.i < 0)
      BY <3>1, <3>3
    <3> QED  BY <3>2, <3>3
  <2> HIDE DEF v
  <2>3. Adds(b, ngx_sprintf_num(b, last, v, d.zero, d.hex, d.width),
             Padded(d.zero, d.width, Numeral(v, d.hex)), last)
    BY <1>1, <2>1, AddsNumber
  <2>4. PrintNumber(b, last, d) = ngx_sprintf_num(b, last, v, d.zero, d.hex, d.width)
    BY <1>3, <2>2, Zenon DEF PrintNumber, M
  <2>5. RenderedNumber(d) = Padded(d.zero, d.width, Numeral(v, d.hex))
    BY <1>3 DEF RenderedNumber, v, M
  <2> QED  BY <2>3, <2>4, <2>5
<1> QED  BY <1>2, <1>3

-----------------------------------------------------------------------------
LEMMA ScaleIsPower ==
  ASSUME NEW w \in Nat, Power(10, w) < 2^Bits
  PROVE  Scale(w) = Power(10, w)
<1> DEFINE M == 2^Bits
<1>1. M \in Nat \ {0}
  BY Widths
<1>2. PICK g : ScaleTable(g, w) /\ Scale(w) = g[w]
  BY ScaleTableExists
<1>3. g[0] = 1 /\ \A k \in 0..w : g[k] \in Nat /\ (k # 0 => g[k] = (10 * g[k - 1]) % M)
  BY <1>2, ScaleTableIs
<1> DEFINE T == {k \in 0..w : g[k] = Power(10, k)}
<1>4. Power(10, w) < M
  OBVIOUS
<1> HIDE DEF M
<1>5. 0 \in T
  <2>1. Power(10, 0) = 1
    <3>1. 10 \in Nat /\ 0 \in Nat
      OBVIOUS
    <3> QED  BY <3>1, PowerIs, Zenon
  <2> QED  BY <1>3, <2>1
<1>6. ASSUME NEW k \in 1..w, k - 1 \in T PROVE k \in T
  <2>1. k - 1 \in Nat /\ (k - 1) + 1 = k
    OBVIOUS
  <2>2. Power(10, k) = 10 * Power(10, k - 1)
    BY <2>1, PowerIs
  <2>3. Power(10, k) \in Nat /\ Power(10, k) <= Power(10, w) /\ Power(10, w) \in Nat
    <3>1. 10 \in Nat /\ 10 >= 2 /\ k \in 0..w /\ w \in 0..w
      OBVIOUS
    <3>2. \A j \in 0..w : j < Power(10, j) /\ Power(10, j) \in Nat \ {0} /\ Power(10, j) <= Power(10, w)
      BY <3>1, PowerGrows, Zenon
    <3> QED  BY <3>1, <3>2
  <2>4. Power(10, k) \in 0..(M - 1)
    BY <1>1, <1>4, <2>3
  <2>5. Power(10, k) % M = Power(10, k)
    BY <1>1, <2>4, ModuloSmall
  <2> QED  BY <1>3, <1>6, <2>2, <2>5
<1>7. \A k \in 0..w : k \in T
  <2> HIDE DEF T
  <2> QED  BY <1>5, <1>6, UpTo
<1> QED  BY <1>2, <1>7

\* Rounding the fraction by itself is rounding the number.
FractionCarries(k, u, s) ==
  LET q    == k \div u
      frac == (((2 * (k % u)) * s) + u) \div (2 * u)
      all  == (((2 * k) * s) + u) \div (2 * u)
  IN  /\ q \in Nat /\ frac \in 0..s
      /\ frac < s => all \div s = q /\ all % s = frac
      /\ frac = s => all \div s = q + 1 /\ all % s = 0

LEMMA RoundedFraction ==
  ASSUME NEW k \in Nat, NEW u \in Nat \ {0}, NEW s \in Nat \ {0}
  PROVE  FractionCarries(k, u, s)
<1> DEFINE q == k \div u
           r == k % u
           a == ((2 * r) * s) + u
           frac == a \div (2 * u)
           rest == a % (2 * u)
           all == (((2 * k) * s) + u) \div (2 * u)
<1>1. q \in Nat /\ r \in 0..(u - 1) /\ k = (u * q) + r
  BY Divides
<1> HIDE DEF q, r
<1>2. a \in Nat /\ 2 * u \in Nat \ {0}
  <2>1. (2 * r) * s \in Nat
    BY <1>1
  <2> QED  BY <2>1
<1>3. a < (2 * u) * (s + 1)
  <2>1. r * s <= (u - 1) * s
    BY <1>1
  <2>2. (u - 1) * s = (u * s) - s
    OBVIOUS
  <2>3. (2 * r) * s = 2 * (r * s) /\ r * s \in Nat /\ u * s \in Nat
    BY <1>1
  <2>4. (2 * u) * (s + 1) = (2 * (u * s)) + (2 * u)
    OBVIOUS
  <2> QED  BY <2>1, <2>2, <2>3, <2>4
<1> HIDE DEF a
<1>4. frac \in Nat /\ rest \in 0..((2 * u) - 1) /\ a = ((2 * u) * frac) + rest
  <2> DEFINE m == 2 * u
  <2>1. m \in Nat \ {0}
    BY <1>2
  <2> HIDE DEF m
  <2>2. a \div m \in Nat /\ a % m \in 0..(m - 1) /\ a = (m * (a \div m)) + (a % m)
    BY <1>2, <2>1, Divides
  <2> QED  BY <2>2 DEF m
<1> HIDE DEF frac, rest
<1>5. frac <= s
  <2>1. (2 * u) * frac <= a /\ (2 * u) * frac \in Nat
    BY <1>2, <1>4
  <2> DEFINE m == 2 * u
  <2>2. m \in Nat \ {0} /\ m * frac < m * (s + 1)
    BY <1>2, <1>3, <2>1
  <2> HIDE DEF m
  <2>3. frac >= s + 1 => m * frac >= m * (s + 1)
    BY <1>4, <2>2
  <2>4. m * frac \in Nat /\ m * (s + 1) \in Nat
    BY <1>4, <2>2
  <2> QED  BY <1>4, <2>2, <2>3, <2>4
<1>6. all = (q * s) + frac
  <2> DEFINE m == 2 * u
             n == (q * s) + frac
  <2>1. (2 * k) * s = (m * (q * s)) + ((2 * r) * s)
    BY <1>1
  <2>2. ((2 * k) * s) + u = (m * (q * s)) + a
    <3>1. m * (q * s) \in Nat /\ (2 * r) * s \in Nat
      BY <1>1
    <3> DEFINE x == m * (q * s)
               y == (2 * r) * s
               z == (2 * k) * s
    <3>2. z = x + y /\ x \in Nat /\ y \in Nat /\ a = y + u
      BY <2>1, <3>1 DEF a
    <3> HIDE DEF x, y, z
    <3>3. z + u = x + a
      BY <3>2
    <3> QED  BY <3>3 DEF x, z
  <2>3. m * n = (m * (q * s)) + (m * frac)
    BY <1>1, <1>4
  <2>4. ((2 * k) * s) + u = (m * n) + rest
    <3>1. m * (q * s) \in Nat /\ m * frac \in Nat
      BY <1>1, <1>4
    <3> QED  BY <1>4, <2>2, <2>3, <3>1
  <2>5. n \in Nat /\ m \in Nat \ {0}
    BY <1>1, <1>2, <1>4
  <2>6. ((m * n) + rest) \div m = n
    <3> HIDE DEF m, n
    <3>1. rest \in 0..(m - 1)
      BY <1>4 DEF m
    <3> QED  BY <2>5, <3>1, QuotientOf
  <2> QED  BY <2>4, <2>6
<1> HIDE DEF all
<1>7. CASE frac < s
  <2>1. ((s * q) + frac) \div s = q /\ ((s * q) + frac) % s = frac
    <3>1. frac \in 0..(s - 1)
      BY <1>4, <1>7
    <3> QED  BY <1>1, <3>1, QuotientOf
  <2>2. s * q = q * s
    BY <1>1
  <2>3. all \div s = q /\ all % s = frac
    BY <1>6, <2>1, <2>2
  <2>4. frac \in 0..s
    BY <1>4, <1>7
  <2> QED  BY <1>1, <1>7, <2>3, <2>4 DEF FractionCarries, q, r, a, frac, all
<1>8. CASE frac = s
  <2>1. ((s * (q + 1)) + 0) \div s = q + 1 /\ ((s * (q + 1)) + 0) % s = 0
    BY <1>1, QuotientOf
  <2>2. (s * (q + 1)) + 0 = (q * s) + frac
    BY <1>1, <1>8
  <2>3. all \div s = q + 1 /\ all % s = 0
    BY <1>6, <2>1, <2>2
  <2>4. frac \in 0..s
    BY <1>8
  <2> QED  BY <1>1, <1>8, <2>3, <2>4 DEF FractionCarries, q, r, a, frac, all
<1>9. frac < s \/ frac = s
  BY <1>4, <1>5
<1> QED  BY <1>7, <1>8, <1>9

\* The whole part, the carry included, and what is left for the fraction.
LEMMA AddsParts ==
  ASSUME NEW last \in Nat, NEW b \in Buffers(last), NEW n \in Nat, NEW frac \in Nat,
         NEW zero \in Nat, NEW width \in Nat, NEW fracWidth \in Nat
  PROVE  LET whole  == ngx_sprintf_num(b, last, n, zero, 0, width)
             dotted == IF Len(whole) < last THEN Append(whole, Dot) ELSE whole
         IN  /\ Adds(b, whole, Padded(zero, width, Numeral(n, 0)), last)
             /\ Adds(b, ngx_sprintf_num(dotted, last, frac, Zero, 0, fracWidth),
                     Padded(zero, width, Numeral(n, 0))
                       \o (<<Dot>> \o Padded(Zero, fracWidth, Numeral(frac, 0))), last)
<1> DEFINE whole  == ngx_sprintf_num(b, last, n, zero, 0, width)
           dotted == IF Len(whole) < last THEN Append(whole, Dot) ELSE whole
           result == ngx_sprintf_num(dotted, last, frac, Zero, 0, fracWidth)
           X      == Padded(zero, width, Numeral(n, 0))
           Y      == Padded(Zero, fracWidth, Numeral(frac, 0))
<1>1. Zero \in Nat /\ Dot \in Nat /\ <<Dot>> \in Seq(Nat)
  BY DEF Zero, Dot
<1>2. Adds(b, whole, X, last)
  BY AddsNumber
<1> HIDE DEF whole, X
<1>3. whole \in Buffers(last)
  BY <1>2, AddsInBuffer
<1>4. Adds(whole, dotted, <<Dot>>, last)
  <2>1. CASE Len(whole) < last
    BY <1>1, <1>3, <2>1, AddsStore
  <2>2. CASE ~(Len(whole) < last)
    BY <1>1, <1>3, <2>2, AddsToFull
  <2> QED  BY <2>1, <2>2
<1> HIDE DEF dotted
<1>5. dotted \in Buffers(last)
  BY <1>3, <1>4, AddsInBuffer
<1>6. Adds(dotted, result, Y, last)
  BY <1>1, <1>5, AddsNumber
<1> HIDE DEF result, Y
<1>7. Adds(whole, result, <<Dot>> \o Y, last)
  BY <1>3, <1>4, <1>6, AddsJoin
<1>8. Adds(b, result, X \o (<<Dot>> \o Y), last)
  BY <1>2, <1>7, AddsJoin
<1> QED  BY <1>2, <1>8 DEF result, dotted, whole, X, Y

LEMMA AddsDouble ==
  ASSUME NEW last \in Nat, NEW b \in Buffers(last), Len(b) < last,
         NEW d \in [type : {"double"}, k : Int, zero : Nat, width : Nat, fracWidth : Nat],
         Power(10, d.fracWidth) < 2^Bits
  PROVE  Adds(b, PrintDouble(b, last, d), RenderedDouble(d), last)
<1> DEFINE signed == IF d.k < 0 THEN Append(b, Minus) ELSE b
           k      == IF d.k < 0 THEN -d.k ELSE d.k
           w      == d.fracWidth
           scale  == Power(10, w)
           frac   == (((2 * (k % Unit)) * scale) + Unit) \div (2 * Unit)
           carry  == w > 0 /\ frac = scale
           whole  == ngx_sprintf_num(signed, last, (k \div Unit) + (IF carry THEN 1 ELSE 0),
                                     d.zero, 0, d.width)
           dotted == IF Len(whole) < last THEN Append(whole, Dot) ELSE whole
           result == IF w = 0 THEN whole
                     ELSE ngx_sprintf_num(dotted, last, IF carry THEN 0 ELSE frac, Zero, 0, w)
           round  == (((2 * k) * scale) + Unit) \div (2 * Unit)
           all    == IF w = 0 THEN k \div Unit ELSE round
           sign   == IF d.k < 0 THEN <<Minus>> ELSE <<>>
           X      == Padded(d.zero, d.width, Numeral(all \div scale, 0))
           Y      == <<Dot>> \o Padded(Zero, w, Numeral(all % scale, 0))
<1>1. d.k \in Int /\ d.zero \in Nat /\ d.width \in Nat /\ w \in Nat /\ Minus \in Nat
  BY DEF Minus
<1>2. Scale(w) = scale
  BY <1>1, ScaleIsPower
<1>3. PrintDouble(b, last, d) = result
  BY <1>2 DEF PrintDouble
<1>4. RenderedDouble(d) = (sign \o X) \o (IF w = 0 THEN <<>> ELSE Y)
  BY DEF RenderedDouble
<1>5. k \in Nat /\ Unit \in Nat \ {0}
  BY <1>1, Widths
<1>6. scale \in Nat \ {0}
  <2>1. 10 \in Nat /\ 10 >= 2 /\ w \in 0..w
    BY <1>1
  <2> QED  BY <1>1, <2>1, PowerGrows, Zenon
<1>7. Adds(b, signed, sign, last)
  BY <1>1, AddsStore, AddsNothing
<1> HIDE DEF w, scale, signed, sign, k
<1>8. signed \in Buffers(last) /\ sign \in Seq(Nat)
  BY <1>7, AddsInBuffer
<1>9. /\ k \div Unit \in Nat /\ frac \in 0..scale
      /\ frac < scale => round \div scale = k \div Unit /\ round % scale = frac
      /\ frac = scale => round \div scale = (k \div Unit) + 1 /\ round % scale = 0
  <2>1. FractionCarries(k, Unit, scale)
    BY <1>5, <1>6, RoundedFraction
  <2> QED  BY <2>1, Zenon DEF FractionCarries
<1> HIDE DEF frac, round
<1>10. CASE w = 0
  <2>1. scale = 1
    <3>1. 10 \in Nat /\ 0 \in Nat
      OBVIOUS
    <3> QED  BY <1>10, <3>1, PowerIs, Zenon DEF scale
  <2>2. all \div scale = k \div Unit
    <3> DEFINE q == k \div Unit
    <3>1. q \in Nat
      BY <1>9
    <3> HIDE DEF q
    <3>2. ((1 * q) + 0) \div 1 = q
      BY <3>1, QuotientOf
    <3>3. q \div 1 = q
      BY <3>1, <3>2
    <3> QED  BY <1>10, <2>1, <3>3 DEF q
  <2>3. whole = ngx_sprintf_num(signed, last, k \div Unit, d.zero, 0, d.width)
    <3>1. ~carry /\ (k \div Unit) + 0 = k \div Unit
      BY <1>9, <1>10
    <3> QED  BY <3>1
  <2>4. Adds(signed, whole, X, last)
    <3> DEFINE q == k \div Unit
    <3>1. q \in Nat
      BY <1>9
    <3> HIDE DEF q
    <3>2. Adds(signed, ngx_sprintf_num(signed, last, q, d.zero, 0, d.width),
               Padded(d.zero, d.width, Numeral(q, 0)), last)
      BY <1>1, <1>8, <3>1, AddsNumber
    <3> QED  BY <2>2, <2>3, <3>2, Zenon DEF q
  <2> HIDE DEF whole, X
  <2>5. Adds(b, whole, sign \o X, last)
    BY <1>7, <2>4, AddsJoin
  <2>6. (sign \o X) \o <<>> = sign \o X
    <3>1. sign \o X \in Seq(Nat)
      BY <2>5, AddsInBuffer
    <3> QED  BY <3>1, ConcatEmptySeq
  <2> QED  BY <1>3, <1>4, <1>10, <2>5, <2>6
<1>11. CASE w # 0
  <2>1. w \in Nat /\ w > 0
    BY <1>1, <1>11 DEF w
  <2> DEFINE n == (k \div Unit) + (IF carry THEN 1 ELSE 0)
             f == IF carry THEN 0 ELSE frac
  <2>2. n \in Nat /\ f \in Nat /\ all \div scale = n /\ all % scale = f
    <3> DEFINE q == k \div Unit
    <3>1. q \in Nat /\ frac \in Nat /\ (frac < scale \/ frac = scale)
      BY <1>6, <1>9
    <3>2. CASE frac = scale
      BY <1>9, <1>11, <2>1, <3>1, <3>2
    <3>3. CASE frac < scale
      <4>1. ~carry
        BY <1>6, <3>1, <3>3
      <4> QED  BY <1>9, <1>11, <3>1, <3>3, <4>1
    <3> QED  BY <3>1, <3>2, <3>3
  <2> HIDE DEF n, f
  <2>3. /\ whole = ngx_sprintf_num(signed, last, n, d.zero, 0, d.width)
        /\ result = ngx_sprintf_num(dotted, last, f, Zero, 0, w)
        /\ X = Padded(d.zero, d.width, Numeral(n, 0))
        /\ Y = <<Dot>> \o Padded(Zero, w, Numeral(f, 0))
    BY <1>11, <2>2 DEF n, f
  <2>4. Adds(signed, result, X \o Y, last)
    <3> HIDE DEF X, Y, result
    <3>1. d.zero \in Nat /\ d.width \in Nat
      BY <1>1
    <3>2. LET wh  == ngx_sprintf_num(signed, last, n, d.zero, 0, d.width)
              dt  == IF Len(wh) < last THEN Append(wh, Dot) ELSE wh
          IN  Adds(signed, ngx_sprintf_num(dt, last, f, Zero, 0, w),
                   Padded(d.zero, d.width, Numeral(n, 0))
                     \o (<<Dot>> \o Padded(Zero, w, Numeral(f, 0))), last)
      BY <1>8, <2>1, <2>2, <3>1, AddsParts
    <3> HIDE DEF whole
    <3> QED  BY <2>3, <3>2 DEF dotted
  <2> HIDE DEF X, Y, result
  <2>5. Adds(b, result, sign \o (X \o Y), last)
    BY <1>7, <2>4, AddsJoin
  <2>6. (sign \o X) \o Y = sign \o (X \o Y)
    <3>1. ASSUME NEW m \in Nat, NEW z \in Nat, NEW v \in Nat
          PROVE  Padded(z, v, Numeral(m, 0)) \in Seq(Nat)
      <4> DEFINE P == Padded(z, v, Numeral(m, 0))
                 o == ngx_sprintf_num(signed, last, m, z, 0, v)
      <4>1. Adds(signed, o, P, last)
        BY <1>8, AddsNumber
      <4> HIDE DEF P, o
      <4> QED  BY <1>8, <4>1, AddsInBuffer DEF P
    <3>2. X \in Seq(Nat) /\ Y \in Seq(Nat)
      <4>1. Zero \in Nat /\ <<Dot>> \in Seq(Nat)
        BY DEF Zero, Dot
      <4>2. Padded(d.zero, d.width, Numeral(n, 0)) \in Seq(Nat) /\ Padded(Zero, w, Numeral(f, 0)) \in Seq(Nat)
        BY <1>1, <2>1, <2>2, <3>1, <4>1
      <4> QED  BY <2>3, <4>1, <4>2, JoinIs
    <3> QED  BY <1>8, <3>2, JoinAssociative
  <2> QED  BY <1>3, <1>4, <1>11, <2>5, <2>6
<1> QED  BY <1>10, <1>11

-----------------------------------------------------------------------------
PrintableDirectives == {d \in AllDirectives : Representable(d)}

LEMMA AddsDirective ==
  ASSUME NEW last \in Nat, NEW b \in Buffers(last), Len(b) < last, NEW d \in PrintableDirectives
  PROVE  Adds(b, Convert(b, last, d), Rendered(d), last)
<1>1. d \in AllDirectives /\ Representable(d)
  BY DEF PrintableDirectives
<1>2. CASE d \in [type : {"char"}, c : Nat]
  <2>1. d.type = "char" /\ d.c \in Nat
    BY <1>2
  <2>2. Convert(b, last, d) = Append(b, d.c) /\ Rendered(d) = <<d.c>>
    BY <2>1 DEF Convert, Rendered
  <2> QED  BY <2>1, <2>2, AddsStore
<1>3. CASE d \in [type : {"num"}, i : Int, sign : BOOLEAN, zero : Nat, hex : 0..2, width : Nat]
  <2>1. d.type = "num"
    BY <1>3
  <2>2. Convert(b, last, d) = PrintNumber(b, last, d) /\ Rendered(d) = RenderedNumber(d)
    BY <2>1 DEF Convert, Rendered
  <2>3. -(2^Bits) < d.i /\ d.i < 2^Bits
    BY <1>1, <2>1 DEF Representable
  <2> QED  BY <1>3, <2>2, <2>3, AddsSigned
<1>4. CASE d \in [type : {"double"}, k : Int, zero : Nat, width : Nat, fracWidth : Nat]
  <2>1. d.type = "double"
    BY <1>4
  <2>2. Convert(b, last, d) = PrintDouble(b, last, d) /\ Rendered(d) = RenderedDouble(d)
    BY <2>1 DEF Convert, Rendered
  <2>3. Power(10, d.fracWidth) < 2^Bits
    BY <1>1, <2>1 DEF Representable
  <2> QED  BY <1>4, <2>2, <2>3, AddsDouble
<1>5. CASE d \in {x \in [type : {"str"}, src : Seq(Nat), len : Nat \cup {NoLength}, hex : 0..2] :
                    x.len = NoLength \/ x.len <= Len(x.src)}
  <2>1. /\ d.type = "str" /\ d.src \in Seq(Nat) /\ d.len \in Nat \cup {NoLength}
        /\ d.len = NoLength \/ d.len <= Len(d.src)
    BY <1>5
  <2>2. /\ Convert(b, last, d) = ngx_sprintf_str(b, last, d.src, d.len, d.hex)
        /\ Rendered(d) = IF d.hex = 0 THEN Bytes(d.src, d.len)
                         ELSE HexPairs(Bytes(d.src, d.len), d.hex)
    BY <2>1 DEF Convert, Rendered
  <2> QED  BY <2>1, <2>2, AddsString
<1> QED  BY <1>1, <1>2, <1>3, <1>4, <1>5 DEF AllDirectives

LEMMA RenderedType ==
  ASSUME NEW d \in PrintableDirectives
  PROVE  Rendered(d) \in Seq(Nat)
<1>1. <<>> \in Buffers(1) /\ Len(<<>>) < 1 /\ 1 \in Nat
  BY DEF Buffers
<1>2. Adds(<<>>, Convert(<<>>, 1, d), Rendered(d), 1)
  BY <1>1, AddsDirective
<1> QED  BY <1>1, <1>2, AddsInBuffer

TextTable(g, fmt) ==
  g = [k \in 0..Len(fmt) |-> IF k = 0 THEN <<>> ELSE g[k - 1] \o Rendered(fmt[k])]

LEMMA TextTableExists ==
  ASSUME NEW fmt \in Seq(PrintableDirectives)
  PROVE  \E g : TextTable(g, fmt) /\ RenderedText(fmt) = g[Len(fmt)]
<1> DEFINE n == Len(fmt)
           S == Seq(Nat)
           p == [k \in 1..n |-> k - 1]
           step == [kb \in (1..n) \X S |-> kb[2] \o Rendered(fmt[kb[1]])]
<1>1. n \in Nat /\ \A k \in 1..n : fmt[k] \in PrintableDirectives
  BY LenProperties, ElementOfSeq
<1>2. \A k \in 1..n, b \in S : b \o Rendered(fmt[k]) \in S
  BY <1>1, RenderedType, JoinIs
<1> HIDE DEF n, S
<1>3. p \in [1..n -> Nat] /\ \A k \in 1..n : p[k] < k /\ p[k] = k - 1
  BY <1>1
<1>4. step \in [(1..n) \X S -> S] /\ \A k \in 1..n, b \in S : step[<<k, b>>] = b \o Rendered(fmt[k])
  BY <1>2
<1> HIDE DEF p, step
<1>5. <<>> \in S
  BY DEF S
<1>6. PICK f : Recursion(f, n, S, <<>>, p, step)
  BY <1>1, <1>3, <1>4, <1>5, RecursionHasSolution
<1>7. /\ f \in [0..n -> S] /\ f[0] = <<>>
      /\ \A k \in 1..n : f[k] = step[<<k, f[p[k]]>>]
  BY <1>6 DEF Recursion
<1>8. ASSUME NEW k \in 1..n PROVE f[k] = f[k - 1] \o Rendered(fmt[k])
  <2>1. p[k] \in 0..n /\ p[k] = k - 1
    BY <1>1, <1>3
  <2>2. f[p[k]] \in S
    BY <1>7, <2>1
  <2> QED  BY <1>4, <1>7, <2>1, <2>2
<1>9. \A k \in 0..n : f[k] = IF k = 0 THEN <<>> ELSE f[k - 1] \o Rendered(fmt[k])
  <2>1. \A k \in 0..n : k = 0 \/ k \in 1..n
    BY <1>1
  <2> QED  BY <1>7, <1>8, <2>1
<1>10. f = [k \in 0..n |-> f[k]]
  BY <1>7
<1>11. f = [k \in 0..n |-> IF k = 0 THEN <<>> ELSE f[k - 1] \o Rendered(fmt[k])]
  BY <1>9, <1>10
<1> DEFINE G == CHOOSE g : TextTable(g, fmt)
<1>12. TextTable(G, fmt)
  BY <1>11 DEF TextTable, n
<1>13. RenderedText(fmt) = G[Len(fmt)]
  BY DEF RenderedText, TextTable
<1> QED  BY <1>12, <1>13

LEMMA TextTableIs ==
  ASSUME NEW fmt \in Seq(PrintableDirectives), NEW g, TextTable(g, fmt)
  PROVE  g[0] = <<>> /\ \A k \in 1..Len(fmt) : g[k] = g[k - 1] \o Rendered(fmt[k])
<1>1. Len(fmt) \in Nat
  BY LenProperties
<1>2. \A k \in 0..Len(fmt) : g[k] = IF k = 0 THEN <<>> ELSE g[k - 1] \o Rendered(fmt[k])
  BY DEF TextTable
<1>3. 0 \in 0..Len(fmt) /\ \A k \in 1..Len(fmt) : k \in 0..Len(fmt) /\ k # 0
  BY <1>1
<1> QED  BY <1>2, <1>3

LEMMA AddsText ==
  ASSUME NEW last \in Nat, NEW buf \in Buffers(last), NEW fmt \in Seq(PrintableDirectives)
  PROVE  Adds(buf, ngx_vslprintf(buf, last, fmt), RenderedText(fmt), last)
<1> DEFINE n == Len(fmt)
<1>1. /\ n \in Nat /\ \A k \in 1..n : fmt[k] \in PrintableDirectives
      /\ fmt \in Seq(AllDirectives)
  <2>1. PrintableDirectives \subseteq AllDirectives
    BY DEF PrintableDirectives
  <2> QED  BY <2>1, LenProperties, ElementOfSeq, SeqMonotonic
<1>2. PICK w : WrittenTable(w, buf, last, fmt) /\ ngx_vslprintf(buf, last, fmt) = w[n]
  BY <1>1, WrittenTableExists
<1>3. PICK x : TextTable(x, fmt) /\ RenderedText(fmt) = x[n]
  BY TextTableExists
<1>4. /\ w[0] = buf
      /\ \A k \in 1..n : w[k] = IF Len(w[k - 1]) < last THEN Convert(w[k - 1], last, fmt[k]) ELSE w[k - 1]
  <2>1. Len(fmt) \in Nat /\ WrittenTable(w, buf, last, fmt)
    BY <1>1, <1>2
  <2> QED  BY <2>1, WrittenTableIs, SMTT(30)
<1>5. x[0] = <<>> /\ \A k \in 1..n : x[k] = x[k - 1] \o Rendered(fmt[k])
  BY <1>3, TextTableIs
<1> HIDE DEF n
<1> DEFINE T == {k \in 0..n : Adds(buf, w[k], x[k], last)}
<1>6. 0 \in T
  <2>1. Adds(buf, w[0], x[0], last)
    BY <1>4, <1>5, AddsNothing
  <2> QED  BY <1>1, <2>1
<1>7. ASSUME NEW k \in 1..n, k - 1 \in T PROVE k \in T
  <2> DEFINE b == w[k - 1]
             X == Rendered(fmt[k])
  <2>1. Adds(buf, b, x[k - 1], last) /\ fmt[k] \in PrintableDirectives
    BY <1>1, <1>7
  <2>2. w[k] = (IF Len(b) < last THEN Convert(b, last, fmt[k]) ELSE b) /\ x[k] = x[k - 1] \o X
    BY <1>4, <1>5
  <2> HIDE DEF b
  <2>3. b \in Buffers(last) /\ X \in Seq(Nat)
    BY <2>1, AddsInBuffer, RenderedType
  <2>4. Adds(b, w[k], X, last)
    <3>1. CASE Len(b) < last
      BY <2>1, <2>2, <2>3, <3>1, AddsDirective
    <3>2. CASE ~(Len(b) < last)
      BY <2>2, <2>3, <3>2, AddsToFull
    <3> QED  BY <3>1, <3>2
  <2> HIDE DEF X
  <2>5. Adds(buf, w[k], x[k - 1] \o X, last)
    BY <2>1, <2>4, AddsJoin
  <2>6. Adds(buf, w[k], x[k], last)
    BY <2>2, <2>5, Zenon
  <2>7. k \in 0..n
    BY <1>1
  <2> QED  BY <2>6, <2>7
<1>8. n \in T
  <2> HIDE DEF T
  <2>1. \A k \in 0..n : k \in T
    BY <1>1, <1>6, <1>7, UpTo
  <2> QED  BY <1>1, <2>1
<1> QED  BY <1>2, <1>3, <1>8 DEF n

-----------------------------------------------------------------------------
(* The formats that are printed.                                          *)
Machine == {n \in Int : -(2^Bits) < n /\ n < 2^Bits}

LEMMA PlainPrintable ==
  ASSUME NEW c \in Nat
  PROVE  Plain(c) \in PrintableDirectives
<1>1. Plain(c) \in AllDirectives /\ Plain(c).type = "char"
  BY PlainType DEF Plain
<1> QED  BY <1>1 DEF PrintableDirectives, Representable

LEMMA StrPrintable ==
  ASSUME NEW s \in Seq(Nat)
  PROVE  Str(s, NoLength, 0) \in PrintableDirectives
<1>1. Str(s, NoLength, 0) \in AllDirectives /\ Str(s, NoLength, 0).type = "str"
  BY StrType DEF Str
<1> QED  BY <1>1 DEF PrintableDirectives, Representable

LEMMA NumberPrintable ==
  ASSUME NEW n \in Machine, NEW uns \in BOOLEAN
  PROVE  Number(n, uns, FALSE, Space, 0, 0) \in PrintableDirectives
<1> DEFINE d == Number(n, uns, FALSE, Space, 0, 0)
<1>1. n \in Int /\ -(2^Bits) < n /\ n < 2^Bits
  BY DEF Machine
<1>2. d \in AllDirectives
  BY <1>1, NumberType
<1>3. d.type = "num" /\ d.i = n
  BY DEF Number
<1> HIDE DEF d
<1>4. Representable(d)
  BY <1>1, <1>3 DEF Representable
<1> QED  BY <1>2, <1>4 DEF PrintableDirectives, d

LEMMA MachineNumbers ==
  /\ 0 \in Machine /\ Numbers \subseteq Machine
  /\ \A e \in Numbers : e \in Nat /\ 16 * (e + 1) \in Machine
  /\ \A e \in Numbers : strerror[e].text # NoText => Len(strerror[e].text) \in Machine
<1> DEFINE M == 2^Bits
<1>1. M \in Nat \ {0}
  BY Widths
<1>2. Machine = {n \in Int : -M < n /\ n < M}
  BY DEF Machine
<1>3. \A e \in Numbers : 16 * (e + 1) < M /\ (strerror[e].text # NoText => Len(strerror[e].text) < M)
  BY NumbersAssumption DEF NumbersAssumption
<1> HIDE DEF M
<1>4. 0 \in Machine
  BY <1>1, <1>2
<1>5. ASSUME NEW e \in Numbers
      PROVE  e \in Nat /\ e \in Machine /\ 16 * (e + 1) \in Machine
  <2>1. e \in Nat
    BY ErrnoAssumption DEF ErrnoAssumption
  <2> QED  BY <1>1, <1>2, <1>3, <2>1
<1>6. ASSUME NEW e \in Numbers, strerror[e].text # NoText PROVE Len(strerror[e].text) \in Machine
  <2>1. strerror[e].text \in Seq(Nat)
    BY <1>6, TextOfType, CStringBytes
  <2>2. Len(strerror[e].text) \in Nat
    BY <2>1, LenProperties
  <2> QED  BY <1>1, <1>2, <1>3, <1>6, <2>2
<1> QED  BY <1>4, <1>5, <1>6

LEMMA OwnFormatsPrintable ==
  /\ \A err \in Machine : Errno(err) \in Seq(PrintableDirectives)
  /\ wanted \in Machine => MallocFailed(0).fmt \in Seq(PrintableDirectives)
  /\ \A err : name \in Seq(Nat) => OpenFailed(err).fmt \in Seq(PrintableDirectives)
<1>1. /\ \A c \in Nat : Plain(c) \in PrintableDirectives
      /\ \A s \in Seq(Nat) : Str(s, NoLength, 0) \in PrintableDirectives
      /\ \A n \in Machine, uns \in BOOLEAN : Number(n, uns, FALSE, Space, 0, 0) \in PrintableDirectives
  BY PlainPrintable, StrPrintable, NumberPrintable
<1>2. ENOMEM \in Machine
  <2>1. ENOMEM \in Numbers
    BY LogAssumption DEF LogAssumption
  <2> QED  BY <2>1, MachineNumbers
<1> QED  BY <1>1, <1>2, OwnFormats

LEMMA FormatsPrintable == Formats \subseteq Seq(PrintableDirectives)
<1> SUFFICES ASSUME NEW fmt \in Formats PROVE fmt \in Seq(PrintableDirectives)
  OBVIOUS
<1>1. fmt \in Seq(AllDirectives)
  BY LogAssumption DEF LogAssumption
<1>2. Len(fmt) \in Nat /\ fmt = [k \in 1..Len(fmt) |-> fmt[k]] /\ \A k \in 1..Len(fmt) : fmt[k] \in AllDirectives
  BY <1>1
<1>3. \A k \in 1..Len(fmt) : fmt[k] \in PrintableDirectives
  BY <1>2, NumbersAssumption DEF NumbersAssumption, PrintableDirectives
<1>4. [k \in 1..Len(fmt) |-> fmt[k]] \in Seq(PrintableDirectives)
  BY <1>2, <1>3
<1> QED  BY <1>2, <1>4

-----------------------------------------------------------------------------
(* The end of the line.                                                   *)
LEMMA SamePrefix ==
  ASSUME NEW s \in Seq(Nat), NEW t \in Seq(Nat), NEW n \in Nat, n <= Len(s), n <= Len(t),
         \A i \in 1..n : s[i] = t[i]
  PROVE  SubSeq(s, 1, n) = SubSeq(t, 1, n)
<1> DEFINE u == SubSeq(s, 1, n)
           v == SubSeq(t, 1, n)
<1>1. (\A i \in 1..n : s[i] \in Nat) /\ (\A i \in 1..n : t[i] \in Nat)
  BY LenProperties, ElementOfSeq, SMTT(30)
<1>2. /\ u \in Seq(Nat) /\ Len(u) = IF 1 <= n THEN (n - 1) + 1 ELSE 0
      /\ \A i \in 1..((n - 1) + 1) : u[i] = s[(1 + i) - 1]
  <2>1. \A i \in 1..n : s[i] \in Nat
    BY <1>1
  <2> QED  BY <2>1, SubSeqProperties, SMTT(30)
<1>3. /\ v \in Seq(Nat) /\ Len(v) = IF 1 <= n THEN (n - 1) + 1 ELSE 0
      /\ \A i \in 1..((n - 1) + 1) : v[i] = t[(1 + i) - 1]
  <2>1. \A i \in 1..n : t[i] \in Nat
    BY <1>1
  <2> QED  BY <2>1, SubSeqProperties, SMTT(30)
<1> HIDE DEF u, v
<1>4. Len(u) = n /\ Len(v) = n
  BY <1>2, <1>3
<1>5. \A i \in 1..n : u[i] = v[i]
  BY <1>2, <1>3
<1>6. u = v
  BY <1>2, <1>3, <1>4, <1>5, SeqEqual
<1> QED  BY <1>6 DEF u, v

LEMMA FirstIs ==
  ASSUME NEW s \in Seq(Nat), NEW n \in Nat
  PROVE  /\ First(n, s) \in Seq(Nat)
         /\ Len(First(n, s)) = Least(n, Len(s))
         /\ Len(s) <= n => First(n, s) = s
         /\ n <= Len(s) => First(n, s) = SubSeq(s, 1, n)
<1> DEFINE m == Least(n, Len(s))
<1>1. Len(s) \in Nat /\ m \in Nat /\ m <= Len(s) /\ m <= n
      /\ (Len(s) <= n => m = Len(s)) /\ (n <= Len(s) => m = n)
  BY LenProperties DEF Least
<1>2. First(n, s) = SubSeq(s, 1, m)
  BY DEF First
<1> HIDE DEF m
<1>3. SubSeq(s, 1, m) \in Seq(Nat) /\ Len(SubSeq(s, 1, m)) = m
  BY <1>1, PrefixType
<1>4. SubSeq(s, 1, Len(s)) = s
  BY SubSeqFull
<1> QED  BY <1>1, <1>2, <1>3, <1>4 DEF m

LEMMA FedIs ==
  ASSUME NEW last \in Nat \ {0}, NEW b, NEW T, Clip(b, T, last)
  PROVE  Fed(b, last) = Append(First(last - 1, T), LF)
<1>1. /\ b \in Seq(Nat) /\ T \in Seq(Nat) /\ Len(b) \in Nat /\ Len(T) \in Nat /\ last - 1 \in Nat
  BY LenProperties DEF Clip
<1>2. Fed(b, last) = Append(First(last - 1, b), LF)
  <2>1. Least(Len(b), last - 1) = Least(last - 1, Len(b))
    BY <1>1 DEF Least
  <2> QED  BY <2>1, Zenon DEF Fed, First
<1>3. CASE b = T
  BY <1>2, <1>3
<1>4. CASE b # T
  <2>1. Len(b) >= last - 1 /\ Len(T) >= last - 1 /\ \A i \in 1..(last - 1) : b[i] = T[i]
    BY <1>4 DEF Clip
  <2>2. SubSeq(b, 1, last - 1) = SubSeq(T, 1, last - 1)
    BY <1>1, <2>1, SamePrefix
  <2>3. First(last - 1, b) = SubSeq(b, 1, last - 1) /\ First(last - 1, T) = SubSeq(T, 1, last - 1)
    BY <1>1, <2>1, FirstIs
  <2> QED  BY <1>2, <2>2, <2>3
<1> QED  BY <1>3, <1>4

\* What ngx_log_errno() keeps of a message m.
Kept(m, last) == IF Len(m) <= last - 50 THEN m ELSE First(last - 50, m) \o <<Dot, Dot, Dot>>

LEMMA KeptType ==
  ASSUME NEW last \in Nat, last >= 50, NEW m \in Seq(Nat)
  PROVE  Kept(m, last) \in Buffers(last) /\ Len(Kept(m, last)) <= last - 47
<1>1. Len(m) \in Nat /\ last - 50 \in Nat
  BY LenProperties
<1>2. CASE Len(m) <= last - 50
  BY <1>1, <1>2 DEF Kept, Buffers
<1>3. CASE ~(Len(m) <= last - 50)
  <2> DEFINE f == First(last - 50, m)
             d == <<Dot, Dot, Dot>>
  <2>1. f \in Seq(Nat) /\ Len(f) = last - 50
    BY <1>1, <1>3, FirstIs DEF Least
  <2>2. d \in Seq(Nat) /\ Len(d) = 3
    BY DEF Dot
  <2>3. Kept(m, last) = f \o d
    BY <1>3 DEF Kept
  <2> HIDE DEF f, d
  <2>4. f \o d \in Seq(Nat) /\ Len(f \o d) = Len(f) + Len(d)
    BY <2>1, <2>2, JoinIs
  <2> QED  BY <1>1, <2>1, <2>2, <2>3, <2>4 DEF Buffers
<1> QED  BY <1>2, <1>3

LEMMA ShortenedIs ==
  ASSUME NEW last \in Nat, last >= 50, NEW b, NEW m, Clip(b, m, last)
  PROVE  Shortened(b, last) = Kept(m, last)
<1>1. /\ b \in Seq(Nat) /\ m \in Seq(Nat) /\ Len(b) \in Nat /\ Len(m) \in Nat
      /\ last - 50 \in Nat
  BY LenProperties DEF Clip
<1>2. ASSUME Len(b) > last - 50, Len(m) > last - 50, \A i \in 1..(last - 50) : b[i] = m[i]
      PROVE  Shortened(b, last) = Kept(m, last)
  <2>1. SubSeq(b, 1, last - 50) = SubSeq(m, 1, last - 50)
    <3> DEFINE n == last - 50
    <3>1. n \in Nat /\ n <= Len(b) /\ n <= Len(m) /\ \A i \in 1..n : b[i] = m[i]
      BY <1>1, <1>2
    <3> HIDE DEF n
    <3>2. SubSeq(b, 1, n) = SubSeq(m, 1, n)
      BY <1>1, <3>1, SamePrefix
    <3> QED  BY <3>2 DEF n
  <2>2. First(last - 50, m) = SubSeq(m, 1, last - 50)
    <3>1. last - 50 <= Len(m) /\ m \in Seq(Nat) /\ last - 50 \in Nat
      BY <1>1, <1>2
    <3> QED  BY <3>1, FirstIs, Zenon
  <2>3. Shortened(b, last) = SubSeq(b, 1, last - 50) \o <<Dot, Dot, Dot>>
    BY <1>2 DEF Shortened
  <2>4. Kept(m, last) = First(last - 50, m) \o <<Dot, Dot, Dot>>
    <3>1. ~(Len(m) <= last - 50)
      BY <1>1, <1>2
    <3> QED  BY <3>1 DEF Kept
  <2> QED  BY <2>1, <2>2, <2>3, <2>4
<1>3. CASE b = m /\ Len(m) <= last - 50
  <2>1. ~(Len(b) > last - 50)
    BY <1>1, <1>3
  <2> QED  BY <1>3, <2>1 DEF Shortened, Kept
<1>4. CASE b = m /\ ~(Len(m) <= last - 50)
  <2>1. Len(b) > last - 50 /\ Len(m) > last - 50
    BY <1>1, <1>4
  <2> QED  BY <1>2, <1>4, <2>1
<1>5. CASE b # m
  <2>1. Len(b) >= last - 1 /\ Len(m) >= last - 1 /\ \A i \in 1..(last - 1) : b[i] = m[i]
    BY <1>5 DEF Clip
  <2>2. Len(b) > last - 50 /\ Len(m) > last - 50
    BY <1>1, <2>1
  <2>3. \A i \in 1..(last - 50) : i \in 1..(last - 1)
    BY <1>1
  <2> QED  BY <1>2, <2>1, <2>2, <2>3
<1> QED  BY <1>3, <1>4, <1>5

\* " (", the number and ": ".
LEMMA ErrnoText ==
  ASSUME NEW err \in Machine, err \in Nat
  PROVE  RenderedText(Errno(err)) = (<<Space, 40>> \o Numeral(err, 0)) \o <<58, Space>>
<1> DEFINE e == Number(err, FALSE, FALSE, Space, 0, 0)
           fmt == Errno(err)
           N == Numeral(err, 0)
<1>1. e \in PrintableDirectives /\ Plain(Space) \in PrintableDirectives /\ Plain(40) \in PrintableDirectives
      /\ Plain(58) \in PrintableDirectives
  <2>1. FALSE \in BOOLEAN /\ Space \in Nat /\ 40 \in Nat /\ 58 \in Nat
    BY DEF Space
  <2> QED  BY <2>1, NumberPrintable, PlainPrintable
<1>2. /\ Literal(<<Space, 40>>) = <<Plain(Space), Plain(40)>>
      /\ Literal(<<58, Space>>) = <<Plain(58), Plain(Space)>>
  BY DEF Literal
<1>3. Rendered(Plain(Space)) = <<Space>> /\ Rendered(Plain(40)) = <<40>> /\ Rendered(Plain(58)) = <<58>>
  BY DEF Rendered, Plain
<1>4. N \in Seq(Nat) /\ Len(N) \in Nat
  BY NumeralType, LenProperties
<1>5. Rendered(e) = N
  <2>1. e.type = "num" /\ e.i = err /\ e.zero = Space /\ e.hex = 0 /\ e.width = 0
    BY DEF Number
  <2>2. ~(err < 0)
    OBVIOUS
  <2> HIDE DEF e
  <2>3. Rendered(e) = Padded(Space, 0, N)
    BY <2>1, <2>2 DEF Rendered, RenderedNumber
  <2>4. Repeat(Space, 0 - Len(N)) = <<>>
    <3>1. Space \in Nat /\ 0 - Len(N) \in Int /\ (0 - Len(N) < 0 \/ 0 - Len(N) = 0)
      BY <1>4 DEF Space
    <3>2. Repeat(Space, 0 - Len(N)) \in Seq(Nat) /\ Len(Repeat(Space, 0 - Len(N))) = 0
      BY <3>1, RepeatIs
    <3> QED  BY <3>2, EmptySeq
  <2>5. <<>> \o N = N
    BY <1>4, ConcatEmptySeq
  <2> QED  BY <2>3, <2>4, <2>5 DEF Padded
<1>6. fmt = (<<Plain(Space), Plain(40)>> \o <<e>>) \o <<Plain(58), Plain(Space)>>
  BY <1>2 DEF Errno
<1> HIDE DEF e, fmt, N
<1>7. /\ fmt \in Seq(PrintableDirectives) /\ Len(fmt) = 5
      /\ fmt[1] = Plain(Space) /\ fmt[2] = Plain(40) /\ fmt[3] = e /\ fmt[4] = Plain(58) /\ fmt[5] = Plain(Space)
  <2> DEFINE P == PrintableDirectives
             a == Plain(Space)
             b == Plain(40)
             c == Plain(58)
             u == <<a, b>>
             v == <<e>>
             w == <<c, a>>
  <2>1. a \in P /\ b \in P /\ c \in P /\ e \in P /\ fmt = (u \o v) \o w
    BY <1>1, <1>6
  <2> HIDE DEF a, b, c, P
  <2>2. /\ u \in Seq(P) /\ v \in Seq(P) /\ w \in Seq(P) /\ Len(u) = 2 /\ Len(v) = 1 /\ Len(w) = 2
        /\ u[1] = a /\ u[2] = b /\ v[1] = e /\ w[1] = c /\ w[2] = a
    BY <2>1
  <2> HIDE DEF u, v, w
  <2> DEFINE x == u \o v
             y == x \o w
  <2>3. /\ x \in Seq(P) /\ Len(x) = Len(u) + Len(v)
        /\ \A i \in 1..(Len(u) + Len(v)) : x[i] = IF i <= Len(u) THEN u[i] ELSE v[i - Len(u)]
    BY <2>2, ConcatProperties
  <2> HIDE DEF x
  <2>4. Len(x) = 3 /\ x[1] = a /\ x[2] = b /\ x[3] = e
    BY <2>2, <2>3
  <2>5. /\ y \in Seq(P) /\ Len(y) = Len(x) + Len(w)
        /\ \A i \in 1..(Len(x) + Len(w)) : y[i] = IF i <= Len(x) THEN x[i] ELSE w[i - Len(x)]
    <3>1. x \in Seq(P) /\ w \in Seq(P)
      BY <2>2, <2>3
    <3> QED  BY <3>1, ConcatProperties
  <2> HIDE DEF y
  <2>6. Len(y) = 5 /\ y[1] = a /\ y[2] = b /\ y[3] = e /\ y[4] = c /\ y[5] = a
    BY <2>2, <2>4, <2>5
  <2> QED  BY <2>1, <2>5, <2>6 DEF x, y, a, b, c, P
<1>8. fmt \in Seq(PrintableDirectives) /\ Len(fmt) = 5
  BY <1>7
<1>9. PICK x : TextTable(x, fmt) /\ RenderedText(fmt) = x[5]
  BY <1>8, TextTableExists
<1>10. x[0] = <<>> /\ \A k \in 1..5 : x[k] = x[k - 1] \o Rendered(fmt[k])
  <2>1. x[0] = <<>> /\ \A k \in 1..Len(fmt) : x[k] = x[k - 1] \o Rendered(fmt[k])
    BY <1>8, <1>9, TextTableIs
  <2> QED  BY <1>8, <2>1, Zenon
<1>11. /\ x[1] = x[0] \o <<Space>> /\ x[2] = x[1] \o <<40>> /\ x[3] = x[2] \o N
       /\ x[4] = x[3] \o <<58>> /\ x[5] = x[4] \o <<Space>>
  <2>1. 1 - 1 = 0 /\ 2 - 1 = 1 /\ 3 - 1 = 2 /\ 4 - 1 = 3 /\ 5 - 1 = 4
    OBVIOUS
  <2>2. 1 \in 1..5 /\ 2 \in 1..5 /\ 3 \in 1..5 /\ 4 \in 1..5 /\ 5 \in 1..5
    OBVIOUS
  <2>3. x[1] = x[1 - 1] \o Rendered(fmt[1])
    BY <1>10, <2>2, Zenon
  <2>4. x[2] = x[2 - 1] \o Rendered(fmt[2])
    BY <1>10, <2>2, Zenon
  <2>5. x[3] = x[3 - 1] \o Rendered(fmt[3])
    BY <1>10, <2>2, Zenon
  <2>6. x[4] = x[4 - 1] \o Rendered(fmt[4])
    BY <1>10, <2>2, Zenon
  <2>7. x[5] = x[5 - 1] \o Rendered(fmt[5])
    BY <1>10, <2>2, Zenon
  <2> QED  BY <1>3, <1>5, <1>7, <2>1, <2>3, <2>4, <2>5, <2>6, <2>7
<1>12. x[5] = ((((<<>> \o <<Space>>) \o <<40>>) \o N) \o <<58>>) \o <<Space>>
  <2>1. x[0] = <<>>
    BY <1>10
  <2> QED  BY <1>11, <2>1
<1>13. Space \in Nat /\ 40 \in Nat /\ 58 \in Nat
  BY DEF Space
<1>14. ((((<<>> \o <<Space>>) \o <<40>>) \o N) \o <<58>>) \o <<Space>> = (<<Space, 40>> \o N) \o <<58, Space>>
  <2> DEFINE a == Space
             b == 40
             c == 58
  <2>1. a \in Nat /\ b \in Nat /\ c \in Nat /\ N \in Seq(Nat)
    BY <1>4, <1>13
  <2> HIDE DEF a, b, c
  <2> DEFINE m == <<a, b>> \o N
  <2>2. <<a>> \in Seq(Nat) /\ <<c>> \in Seq(Nat) /\ <<a, b>> \in Seq(Nat)
    BY <2>1
  <2>3. (<<>> \o <<a>>) \o <<b>> = <<a, b>>
    <3>1. <<>> \o <<a>> = <<a>>
      BY <2>2, ConcatEmptySeq
    <3>2. <<a>> \o <<b>> = <<a, b>>
      BY <2>1, JoinPair
    <3> QED  BY <3>1, <3>2, Zenon
  <2>4. m \in Seq(Nat)
    BY <2>1, <2>2, JoinIs
  <2>5. <<c>> \o <<a>> = <<c, a>>
    BY <2>1, JoinPair
  <2> HIDE DEF m
  <2>6. (m \o <<c>>) \o <<a>> = m \o <<c, a>>
    <3>1. (m \o <<c>>) \o <<a>> = m \o (<<c>> \o <<a>>)
      BY <2>2, <2>4, JoinAssociative
    <3> QED  BY <2>5, <3>1
  <2>7. ((((<<>> \o <<a>>) \o <<b>>) \o N) \o <<c>>) \o <<a>> = (m \o <<c>>) \o <<a>>
    BY <2>3, Zenon DEF m
  <2>8. ((((<<>> \o <<a>>) \o <<b>>) \o N) \o <<c>>) \o <<a>> = (<<a, b>> \o N) \o <<c, a>>
    BY <2>6, <2>7, Zenon DEF m
  <2> QED  BY <2>8 DEF a, b, c
<1> QED  BY <1>9, <1>12, <1>14, Zenon DEF fmt, N

LEMMA ErrorTextType ==
  ASSUME args.err \in Nat, NEW t \in Seq(Nat)
  PROVE  /\ ErrorText(t) \in Seq(Nat)
         /\ (<<Space, 40>> \o Numeral(args.err, 0)) \o <<58, Space>> \in Seq(Nat)
<1> DEFINE N == Numeral(args.err, 0)
<1>1. N \in Seq(Nat)
  BY NumeralType
<1>2. <<Space, 40>> \in Seq(Nat) /\ <<58, Space>> \in Seq(Nat) /\ <<41>> \in Seq(Nat)
  BY DEF Space
<1> HIDE DEF N
<1>3. <<Space, 40>> \o N \in Seq(Nat)
  BY <1>1, <1>2, JoinIs
<1>4. (<<Space, 40>> \o N) \o <<58, Space>> \in Seq(Nat)
  BY <1>2, <1>3, JoinIs
<1>5. ((<<Space, 40>> \o N) \o <<58, Space>>) \o t \in Seq(Nat)
  BY <1>4, JoinIs
<1>6. (((<<Space, 40>> \o N) \o <<58, Space>>) \o t) \o <<41>> \in Seq(Nat)
  BY <1>2, <1>5, JoinIs
<1> QED  BY <1>4, <1>6 DEF ErrorText, N

\* The error behind what is kept of the message m.
LEMMA ErrnoIs ==
  ASSUME NEW last \in Nat, last >= 50, NEW b, NEW m, Clip(b, m, last),
         args.err \in Machine, args.err \in Nat, Looked(args.err) \in Seq(Nat)
  PROVE  Clip(ngx_log_errno(b, last, args.err), Kept(m, last) \o ErrorText(Looked(args.err)), last)
<1> DEFINE err == args.err
           short == Shortened(b, last)
           line == ngx_vslprintf(short, last, Errno(err))
           text == ngx_strerror(err, line, last)
           all == IF Len(text) < last THEN Append(text, 41) ELSE text
           F == Kept(m, last)
           E == (<<Space, 40>> \o Numeral(err, 0)) \o <<58, Space>>
           L == Looked(err)
<1>1. m \in Seq(Nat)
  BY DEF Clip
<1>2. F \in Buffers(last)
  BY <1>1, KeptType
<1>3. short = F
  BY ShortenedIs
<1>4. E \in Seq(Nat) /\ L \in Seq(Nat)
  BY ErrorTextType
<1>5. Errno(err) \in Seq(PrintableDirectives) /\ RenderedText(Errno(err)) = E
  BY OwnFormatsPrintable, ErrnoText
<1>6. ngx_log_errno(b, last, err) = all
  BY DEF ngx_log_errno
<1>7. ErrorText(L) = (E \o L) \o <<41>>
  BY DEF ErrorText
<1>8. Adds(F, line, E, last)
  <2> HIDE DEF F, E, short
  <2>1. Adds(F, ngx_vslprintf(F, last, Errno(err)), RenderedText(Errno(err)), last)
    BY <1>2, <1>5, AddsText
  <2> QED  BY <1>3, <1>5, <2>1, Zenon
<1>9. text = line \o SubSeq(L, 1, Least(Room(line, last), Len(L)))
  BY Zenon DEF ngx_strerror
<1> HIDE DEF F, E, L, short, line, text
<1>10. line \in Buffers(last)
  BY <1>2, <1>8, AddsInBuffer
<1>11. Adds(line, text, L, last)
  <2> DEFINE n == Least(Room(line, last), Len(L))
  <2>1. Len(L) \in Nat /\ Room(line, last) \in Int
    BY <1>4, <1>10, LenProperties DEF Buffers, Room
  <2>2. n \in Int /\ n = Least(Len(L), Room(line, last))
    BY <2>1 DEF Least
  <2> HIDE DEF n
  <2>3. Adds(line, line \o SubSeq(L, 1, n), L, last)
    BY <1>4, <1>10, <2>2, AddsCopy
  <2> QED  BY <1>9, <2>3 DEF n
<1>12. text \in Buffers(last)
  BY <1>10, <1>11, AddsInBuffer
<1>13. Adds(text, all, <<41>>, last)
  <2>1. <<41>> \in Seq(Nat) /\ 41 \in Nat
    OBVIOUS
  <2>2. CASE Len(text) < last
    BY <1>12, <2>1, <2>2, AddsStore
  <2>3. CASE ~(Len(text) < last)
    BY <1>12, <2>1, <2>3, AddsToFull
  <2> QED  BY <2>2, <2>3
<1> HIDE DEF all
<1>14. Clip(F, F, last)
  BY <1>2, ClipWhole
<1>15. Clip(line, F \o E, last)
  BY <1>8, <1>14, ClipAdds
<1>16. Clip(text, (F \o E) \o L, last)
  BY <1>11, <1>15, ClipAdds
<1>17. Clip(all, ((F \o E) \o L) \o <<41>>, last)
  BY <1>13, <1>16, ClipAdds
<1>18. ((F \o E) \o L) \o <<41>> = F \o ((E \o L) \o <<41>>)
  <2>1. F \in Seq(Nat) /\ E \o L \in Seq(Nat) /\ <<41>> \in Seq(Nat)
    BY <1>2, <1>4, JoinIs DEF Buffers
  <2>2. (F \o E) \o L = F \o (E \o L)
    <3>1. F \in Seq(Nat) /\ E \in Seq(Nat) /\ L \in Seq(Nat)
      BY <1>4, <2>1
    <3> QED  BY <3>1, JoinAssociative, Zenon
  <2>3. (F \o (E \o L)) \o <<41>> = F \o ((E \o L) \o <<41>>)
    <3> DEFINE G == E \o L
               z == <<41>>
    <3>1. F \in Seq(Nat) /\ G \in Seq(Nat) /\ z \in Seq(Nat)
      BY <2>1
    <3> HIDE DEF G, z
    <3>2. (F \o G) \o z = F \o (G \o z)
      BY <3>1, JoinAssociative
    <3> QED  BY <3>2 DEF G, z
  <2> QED  BY <2>2, <2>3, Zenon
<1> QED  BY <1>6, <1>7, <1>17, <1>18, Zenon DEF F, L

-----------------------------------------------------------------------------
(* What the line may be before it is cut and fed.                          *)
LineTexts ==
  IF args.err = 0 THEN {Message}
  ELSE {Kept(Message, NGX_MAX_ERROR_STR) \o ErrorText(t) : t \in Texts(args.err)}

SizesInv ==
  /\ wanted \in Machine
  /\ ngx_first_error \in {0} \cup Numbers
  /\ ngx_last_error \in {0} \cup {e + 1 : e \in Numbers}

LineInv ==
  /\ BufferInv
  /\ SizesInv
  /\ pc \in Reporting => args.err \in Errors \cup {0}
  /\ pc = "print" => args.fmt \in Seq(PrintableDirectives)
  /\ pc \in {"errno", "linefeed", "written"} => Message \in Seq(Nat)
  /\ pc = "errno" => Clip(errstr, Message, NGX_MAX_ERROR_STR)
  /\ pc = "linefeed" => \E T \in LineTexts : Clip(errstr, T, NGX_MAX_ERROR_STR)
  /\ pc = "written" => \E T \in LineTexts : errstr = Append(First(NGX_MAX_ERROR_STR - 1, T), LF)

LEMMA Tried ==
  Below \subseteq Numbers /\ Above \subseteq Numbers /\ 0..(Reach - 1) \subseteq Numbers
  /\ (NGX_SYS_NERR = 0 \/ NGX_SYS_NERR - 1 \in Numbers)
<1>1. /\ EPERM \in Nat /\ Reach \in Nat /\ NGX_SYS_NERR \in Nat
      /\ 0..(NGX_SYS_NERR - 1) \subseteq Numbers /\ 0..(EPERM + Reach - 1) \subseteq Numbers
      /\ EPERM > Reach
  BY ErrnoAssumption DEF ErrnoAssumption
<1>2. \A e \in Below \cup Above \cup 0..(Reach - 1) : e \in 0..(EPERM + Reach - 1)
  BY <1>1 DEF Below, Above
<1>3. NGX_SYS_NERR # 0 => NGX_SYS_NERR - 1 \in 0..(NGX_SYS_NERR - 1)
  BY <1>1
<1> QED  BY <1>1, <1>2, <1>3

LEMMA SizesStep ==
  ASSUME TableInv, SizesInv, ngx_strerror_init
  PROVE  SizesInv'
<1>1. CASE FindRange
  <2>1. wanted' = wanted
    BY <1>1 DEF FindRange
  <2>2. ASSUME NEW x \in OrZero(FirstKnown(Below)) PROVE x \in {0} \cup Numbers
    BY Windows, FirstFound, Tried
  <2>3. ASSUME NEW bound \in Nat, NEW S \in SUBSET (0..bound), S \subseteq Numbers,
               NEW x \in OrZero({After(e) : e \in LastKnown(S)})
        PROVE  x \in {0} \cup {e + 1 : e \in Numbers}
    <3>1. \/ x = 0 /\ \A e \in S : ~Known(e)
          \/ \E last \in S : x = last + 1 /\ Known(last) /\ \A e \in S : Known(e) => e <= last
      BY <2>3, LastFound
    <3> QED  BY <2>3, <3>1
  <2>4. CASE table = "nerr"
    <3>1. ngx_first_error' = 0 /\ ngx_last_error' = NGX_SYS_NERR
      BY <1>1, <2>4 DEF FindRange
    <3>2. NGX_SYS_NERR \in {0} \cup {e + 1 : e \in Numbers}
      <4>1. NGX_SYS_NERR = (NGX_SYS_NERR - 1) + 1
        BY Windows
      <4> QED  BY <4>1, Tried
    <3> QED  BY <2>1, <3>1, <3>2 DEF SizesInv
  <2>5. CASE table = "large"
    <3>1. /\ ngx_first_error' \in OrZero(FirstKnown(Below))
          /\ ngx_last_error' \in OrZero({After(e) : e \in LastKnown(Above)})
      BY <1>1, <2>5 DEF FindRange
    <3>2. EPERM + Reach \in Nat /\ Above \in SUBSET (0..(EPERM + Reach)) /\ Above \subseteq Numbers
      BY Windows, Tried
    <3>3. ngx_first_error' \in {0} \cup Numbers
      BY <2>2, <3>1
    <3>4. ngx_last_error' \in {0} \cup {e + 1 : e \in Numbers}
      BY <2>3, <3>1, <3>2
    <3> QED  BY <2>1, <3>3, <3>4 DEF SizesInv
  <2>6. CASE table = "guess"
    <3>1. ngx_first_error' = 0 /\ ngx_last_error' \in OrZero({After(e) : e \in LastKnown(0..(Reach - 1))})
      BY <1>1, <2>6 DEF FindRange
    <3>2. Reach \in Nat /\ 0..(Reach - 1) \in SUBSET (0..Reach) /\ 0..(Reach - 1) \subseteq Numbers
      BY Windows, Tried
    <3>4. ngx_last_error' \in {0} \cup {e + 1 : e \in Numbers}
      BY <2>3, <3>1, <3>2
    <3> QED  BY <2>1, <3>1, <3>4 DEF SizesInv
  <2> QED  BY <1>1, <2>4, <2>5, <2>6 DEF FindRange
<1>2. CASE AllocList
  <2>1. wanted' = Listed * 16 /\ UNCHANGED <<ngx_first_error, ngx_last_error>>
    BY <1>2 DEF AllocList
  <2>2. Listed * 16 \in Machine
    <3> DEFINE M == 2^Bits
    <3>1. M \in Nat \ {0} /\ Machine = {n \in Int : -M < n /\ n < M}
      BY Widths DEF Machine
    <3> HIDE DEF M
    <3>2. ngx_first_error \in Nat /\ 16 * ngx_first_error < M
      <4>1. CASE ngx_first_error = 0
        BY <3>1, <4>1
      <4>2. CASE ngx_first_error \in Numbers
        <5>1. ngx_first_error \in Nat /\ 16 * (ngx_first_error + 1) \in Machine
          BY <4>2, MachineNumbers
        <5> QED  BY <3>1, <5>1
      <4> QED  BY <4>1, <4>2 DEF SizesInv
    <3>3. ngx_last_error \in Nat /\ 16 * ngx_last_error < M
      <4>1. CASE ngx_last_error = 0
        BY <3>1, <4>1
      <4>2. ASSUME NEW e \in Numbers, ngx_last_error = e + 1
            PROVE  ngx_last_error \in Nat /\ 16 * ngx_last_error < M
        <5>1. e \in Nat /\ 16 * (e + 1) \in Machine
          BY MachineNumbers
        <5> QED  BY <3>1, <4>2, <5>1
      <4> QED  BY <4>1, <4>2 DEF SizesInv
    <3> QED  BY <3>1, <3>2, <3>3 DEF Listed
  <2> QED  BY <2>1, <2>2 DEF SizesInv
<1>3. CASE CopyText
  <2> DEFINE e == ngx_first_error + Len(ngx_sys_errlist)
  <2>1. /\ setup = "copy" /\ Len(ngx_sys_errlist) < Listed /\ table # "np"
        /\ RangeFound /\ Len(ngx_sys_errlist) \in Nat
    BY <1>3, LenProperties DEF CopyText, TableInv
  <2>2. e \in Numbers
    BY <2>1 DEF RangeFound, Listed
  <2>3. /\ UNCHANGED <<ngx_first_error, ngx_last_error>>
        /\ wanted' = wanted \/ (strerror[e].text # NoText /\ wanted' = Len(strerror[e].text))
    BY <1>3 DEF CopyText
  <2> HIDE DEF e
  <2>4. wanted' \in Machine
    BY <2>2, <2>3, MachineNumbers DEF SizesInv
  <2> QED  BY <2>3, <2>4 DEF SizesInv
<1>4. CASE InitDone
  BY <1>4 DEF InitDone, SizesInv
<1> QED  BY <1>1, <1>2, <1>3, <1>4 DEF ngx_strerror_init

LEMMA SameLine ==
  ASSUME args' = args, table' = table
  PROVE  Message' = Message /\ LineTexts' = LineTexts
<1>1. Message' = Message
  BY DEF Message
<1>2. Texts(args.err)' = Texts(args.err)
  BY DEF Texts, Searched
<1>3. \A t : ErrorText(t)' = ErrorText(t)
  BY DEF ErrorText
<1> QED  BY <1>1, <1>2, <1>3 DEF LineTexts

LEMMA LineInit == Init => LineInv
<1> SUFFICES ASSUME Init PROVE LineInv
  OBVIOUS
<1>1. BufferInv
  BY BufferInit
<1>2. SizesInv
  BY MachineNumbers DEF Init, ErrnoInit, SizesInv
<1>3. pc = "idle"
  BY DEF Init
<1> QED  BY <1>1, <1>2, <1>3 DEF LineInv, Reporting

\* The message in the buffer, and the error behind it.
LEMMA PrintStep ==
  ASSUME LineInv, BufferInv', SizesInv', PrintMessage
  PROVE  LineInv'
<1> DEFINE last == NGX_MAX_ERROR_STR
<1>1. /\ pc = "print" /\ errstr' = ngx_vslprintf(Banner, last, args.fmt)
      /\ pc' = IF args.err # 0 THEN "errno" ELSE "linefeed"
      /\ args' = args /\ table' = table
  BY DEF PrintMessage, errnoVars
<1>2. args.fmt \in Seq(PrintableDirectives) /\ args.err \in Errors \cup {0}
  BY <1>1 DEF LineInv, Reporting
<1>3. last \in Nat /\ Banner \in Buffers(last)
  BY Sizes
<1> HIDE DEF last
<1>4. Adds(Banner, errstr', RenderedText(args.fmt), last)
  BY <1>1, <1>2, <1>3, AddsText
<1>5. Clip(errstr', Message, last)
  BY <1>3, <1>4, ClipWhole, ClipAdds DEF Message
<1>6. Message \in Seq(Nat)
  BY <1>5 DEF Clip
<1>7. Message' = Message /\ LineTexts' = LineTexts
  BY <1>1, SameLine
<1>8. pc' = "linefeed" => \E T \in LineTexts' : Clip(errstr', T, last)
  <2> SUFFICES ASSUME pc' = "linefeed" PROVE \E T \in LineTexts' : Clip(errstr', T, last)
    OBVIOUS
  <2>1. args.err = 0
    BY <1>1
  <2>2. LineTexts = {Message}
    BY <2>1 DEF LineTexts
  <2> QED  BY <1>5, <1>7, <2>2
<1>9. pc' \in {"errno", "linefeed"}
  BY <1>1
<1> QED  BY <1>1, <1>2, <1>5, <1>6, <1>7, <1>8, <1>9 DEF LineInv, last

LEMMA ErrnoStep ==
  ASSUME LineInv, BufferInv', SizesInv', AddErrno
  PROVE  LineInv'
<1> DEFINE last == NGX_MAX_ERROR_STR
           err == args.err
<1>1. /\ pc = "errno" /\ errstr' = ngx_log_errno(errstr, last, err) /\ pc' = "linefeed"
      /\ args' = args /\ table' = table
  BY DEF AddErrno, errnoVars
<1>2. /\ Clip(errstr, Message, last) /\ Message \in Seq(Nat)
      /\ setup = "done" /\ err # 0 /\ err \in Errors /\ TableInv
  BY <1>1 DEF LineInv, BufferInv, LogInv, ControlInv
<1>3. last \in Nat /\ last >= 50
  BY Sizes
<1>4. err \in Numbers /\ err \in Nat /\ err \in Machine
  <2>1. err \in Numbers
    BY <1>2, LogAssumption DEF LogAssumption
  <2> QED  BY <2>1, MachineNumbers
<1>5. Looked(err) \in Texts(err) /\ Looked(err) \in Seq(Nat)
  BY <1>2, <1>4, TableSays, CStringBytes
<1> HIDE DEF last
<1>6. Clip(errstr', Kept(Message, last) \o ErrorText(Looked(err)), last)
  BY <1>1, <1>2, <1>3, <1>4, <1>5, ErrnoIs
<1>7. Kept(Message, last) \o ErrorText(Looked(err)) \in LineTexts
  BY <1>2, <1>5 DEF LineTexts, last
<1>8. Message' = Message /\ LineTexts' = LineTexts
  BY <1>1, SameLine
<1>9. \E T \in LineTexts' : Clip(errstr', T, last)
  BY <1>6, <1>7, <1>8
<1> QED  BY <1>1, <1>2, <1>8, <1>9 DEF LineInv, last

LEMMA WriteStep ==
  ASSUME LineInv, BufferInv', SizesInv', Write
  PROVE  LineInv'
<1> DEFINE last == NGX_MAX_ERROR_STR
<1>1. /\ pc = "linefeed" /\ errstr' = Fed(errstr, last) /\ pc' = "written"
      /\ args' = args /\ table' = table
  BY DEF Write, errnoVars
<1>2. PICK T \in LineTexts : Clip(errstr, T, last)
  BY <1>1 DEF LineInv
<1>3. last \in Nat \ {0}
  BY Sizes
<1>4. Message \in Seq(Nat) /\ args.err \in Errors \cup {0}
  BY <1>1 DEF LineInv, Reporting
<1> HIDE DEF last
<1>5. errstr' = Append(First(last - 1, T), LF)
  BY <1>1, <1>2, <1>3, FedIs
<1>6. Message' = Message /\ LineTexts' = LineTexts
  BY <1>1, SameLine
<1>7. \E S \in LineTexts' : errstr' = Append(First(last - 1, S), LF)
  BY <1>2, <1>5, <1>6
<1> QED  BY <1>1, <1>4, <1>6, <1>7 DEF LineInv, last

LEMMA LineStep == LineInv /\ [Next]_vars => LineInv'
<1> SUFFICES ASSUME LineInv, [Next]_vars PROVE LineInv'
  OBVIOUS
<1>1. BufferInv' /\ BufferInv /\ SizesInv /\ TableInv
  BY BufferStep DEF LineInv, BufferInv, LogInv
<1>2. ASSUME UNCHANGED <<ngx_first_error, ngx_last_error, wanted>> PROVE SizesInv'
  BY <1>1, <1>2 DEF SizesInv
<1>3. CASE UNCHANGED vars
  <2>1. SizesInv' /\ args' = args /\ table' = table /\ pc' = pc /\ errstr' = errstr
    BY <1>2, <1>3 DEF vars, errnoVars
  <2>2. Message' = Message /\ LineTexts' = LineTexts
    BY <2>1, SameLine
  <2> QED  BY <1>1, <2>1, <2>2 DEF LineInv
<1>4. CASE Setup
  <2>1. SizesInv'
    BY <1>1, <1>4, SizesStep DEF Setup
  <2>2. pc' = pc /\ setup \notin {"done", "over"}
    BY <1>4 DEF Setup, ngx_strerror_init, FindRange, AllocList, CopyText, InitDone
  <2>3. pc = "idle"
    BY <1>1, <2>2 DEF BufferInv, LogInv, ControlInv
  <2> QED  BY <1>1, <2>1, <2>2, <2>3 DEF LineInv, Reporting
<1>5. CASE SetupFailed
  <2>1. args' = MallocFailed(0) /\ pc' = "print" /\ SizesInv'
    BY <1>2, <1>5 DEF SetupFailed
  <2>2. args'.fmt \in Seq(PrintableDirectives)
    BY <1>1, <2>1, OwnFormatsPrintable DEF SizesInv
  <2>3. args'.err = 0
    BY <2>1 DEF MallocFailed
  <2> QED  BY <1>1, <2>1, <2>2, <2>3 DEF LineInv
<1>6. CASE Stopped
  BY <1>3, <1>6 DEF Stopped
<1>7. CASE CallStderr
  <2>1. args' \in Lines /\ pc' = "print" /\ SizesInv'
    BY <1>2, <1>7 DEF CallStderr, errnoVars
  <2>2. args'.fmt \in Seq(PrintableDirectives) /\ args'.err \in Errors \cup {0}
    BY <2>1, FormatsPrintable DEF Lines
  <2> QED  BY <1>1, <2>1, <2>2 DEF LineInv
<1>8. CASE PrintMessage
  BY <1>1, <1>2, <1>8, PrintStep DEF PrintMessage, errnoVars
<1>9. CASE AddErrno
  BY <1>1, <1>2, <1>9, ErrnoStep DEF AddErrno, errnoVars
<1>10. CASE Write
  BY <1>1, <1>2, <1>10, WriteStep DEF Write, errnoVars
<1>11. CASE ReturnStderr
  <2>1. pc' \in {"failed", "idle"} /\ SizesInv'
    BY <1>2, <1>11 DEF ReturnStderr, errnoVars
  <2> QED  BY <1>1, <2>1 DEF LineInv, Reporting
<1>12. ASSUME NEW prefix \in PrefixArgs, NEW errorLog \in LogArgs, InitLog(prefix, errorLog)
       PROVE  LineInv'
  <2>1. pc' \in {"idle", "open"} /\ SizesInv'
    BY <1>2, <1>12 DEF InitLog, errnoVars
  <2> QED  BY <1>1, <2>1 DEF LineInv, Reporting
<1>13. CASE OpenFile
  <2>1. pc = "open" /\ SizesInv'
    BY <1>2, <1>13 DEF OpenFile, errnoVars
  <2>2. \/ pc' = "opened"
        \/ pc' = "print" /\ \E err \in Errors : args' = OpenFailed(err)
    BY <1>13 DEF OpenFile
  <2>3. name \in Seq(Nat)
    BY <1>1, <2>1 DEF BufferInv
  <2>4. pc' = "print" => args'.fmt \in Seq(PrintableDirectives) /\ args'.err \in Errors
    <3>1. pc' = "print" => args'.fmt \in Seq(PrintableDirectives)
      BY <2>2, <2>3, OwnFormatsPrintable
    <3>2. pc' = "print" => args'.err \in Errors
      BY <2>2 DEF OpenFailed
    <3> QED  BY <3>1, <3>2
  <2> QED  BY <1>1, <2>1, <2>2, <2>4 DEF LineInv, Reporting
<1>14. CASE Fallback
  <2>1. pc' = "opened" /\ SizesInv'
    BY <1>2, <1>14 DEF Fallback, errnoVars
  <2> QED  BY <1>1, <2>1 DEF LineInv, Reporting
<1>15. CASE FreeName
  <2>1. pc' = "idle" /\ SizesInv'
    BY <1>2, <1>15 DEF FreeName, errnoVars
  <2> QED  BY <1>1, <2>1 DEF LineInv, Reporting
<1> QED  BY <1>3, <1>4, <1>5, <1>6, <1>7, <1>8, <1>9, <1>10, <1>11, <1>12, <1>13, <1>14, <1>15 DEF Next

LEMMA LineAlways == Spec => []LineInv
BY LineInit, LineStep, PTL DEF Spec

(***************************************************************************)
(* Whatever the formats and their arguments are, in any width of integers, *)
(* a line without an error is what its format stands for, cut only by the  *)
(* end of the buffer.                                                      *)
(***************************************************************************)
THEOREM LinesAreFaithful == Spec => []LineFaithful
<1>1. LineInv => LineFaithful
  <2> SUFFICES ASSUME LineInv, pc = "written", args.err = 0
               PROVE  errstr = Append(First(NGX_MAX_ERROR_STR - 1, Message), LF)
    BY DEF LineFaithful
  <2>1. LineTexts = {Message}
    BY DEF LineTexts
  <2> QED  BY <2>1 DEF LineInv
<1> QED  BY <1>1, LineAlways, PTL

(***************************************************************************)
(* Whatever the message is, the 50 bytes ngx_log_errno reserves hold the   *)
(* error whole, in every build of the table of its texts.                  *)
(***************************************************************************)
THEOREM ErrorsAreKept == Spec => []ErrorKept
<1>1. LineInv => ErrorKept
  <2> DEFINE last == NGX_MAX_ERROR_STR
             F == Kept(Message, last)
  <2> SUFFICES ASSUME LineInv, pc = "written", args.err # 0,
                      \A t \in Texts(args.err) : Len(ErrorText(t)) + 1 <= 47
               PROVE  \E t \in Texts(args.err) : errstr = F \o ErrorText(t) \o <<LF>>
    BY DEF ErrorKept, Kept
  <2>1. PICK T \in LineTexts : errstr = Append(First(last - 1, T), LF)
    BY DEF LineInv
  <2>2. PICK t \in Texts(args.err) : T = F \o ErrorText(t)
    BY <2>1 DEF LineTexts
  <2>3. Message \in Seq(Nat) /\ args.err \in Errors
    BY DEF LineInv, Reporting
  <2>4. args.err \in Numbers /\ args.err \in Nat
    <3>1. args.err \in Numbers
      BY <2>3, LogAssumption DEF LogAssumption
    <3> QED  BY <3>1, MachineNumbers
  <2>5. t \in Seq(Nat)
    <3>1. UnknownError \in CStrings
      BY ErrnoAssumption DEF ErrnoAssumption
    <3>2. t \in CStrings
      BY <2>2, <2>4, <3>1, TextOfType DEF Texts, Known
    <3> QED  BY <3>2, CStringBytes
  <2>6. ErrorText(t) \in Seq(Nat) /\ Len(ErrorText(t)) \in Nat /\ Len(ErrorText(t)) <= 46
    <3>1. ErrorText(t) \in Seq(Nat)
      BY <2>4, <2>5, ErrorTextType
    <3>2. Len(ErrorText(t)) \in Nat
      BY <3>1, LenProperties
    <3>3. Len(ErrorText(t)) + 1 <= 47
      BY <2>2
    <3> QED  BY <3>1, <3>2, <3>3
  <2>7. last \in Nat /\ last >= 50
    BY Sizes
  <2> HIDE DEF last
  <2>8. F \in Seq(Nat) /\ Len(F) \in Nat /\ Len(F) <= last - 47
    <3>1. F \in Buffers(last) /\ Len(F) <= last - 47
      BY <2>3, <2>7, KeptType
    <3> QED  BY <3>1, LenProperties DEF Buffers
  <2> HIDE DEF F
  <2> DEFINE E == ErrorText(t)
  <2> HIDE DEF E
  <2>9. F \o E \in Seq(Nat) /\ Len(F \o E) = Len(F) + Len(E)
    BY <2>6, <2>8, JoinIs DEF E
  <2>10. First(last - 1, F \o E) = F \o E
    <3>1. last - 1 \in Nat /\ Len(F \o E) <= last - 1
      BY <2>6, <2>7, <2>8, <2>9 DEF E
    <3> QED  BY <2>9, <3>1, FirstIs
  <2>11. errstr = Append(F \o E, LF)
    BY <2>1, <2>2, <2>10 DEF E
  <2>12. Append(F \o E, LF) = (F \o E) \o <<LF>>
    <3>1. LF \in Nat
      BY DEF LF
    <3> QED  BY <2>9, <3>1, AppendIsConcat
  <2> QED  BY <2>2, <2>11, <2>12 DEF E
<1> QED  BY <1>1, LineAlways, PTL

=============================================================================
