---------------------------- MODULE SdkLogProofs ----------------------------
(***************************************************************************)
(* What becomes of the messages of the AWS SDK in Output: for any messages *)
(* of any tags, whatever the application changes meanwhile.                *)
(*                                                                         *)
(* The inductive invariant has three parts:                                *)
(*   SdkTypes        the types of a call of the SDK;                       *)
(*   SwitchedByName  the tags are those whose names they were set by;      *)
(*   CallIsFollowed  what each step of a call has logged, in terms of what *)
(*                   process_tag makes of the message.                     *)
(* Sanitized follows from it by what each process_..._tag does.            *)
(***************************************************************************)
EXTENDS Output, WellFoundedInduction, SequenceTheorems, TLAPS

SdkTags == {p[1] : p \in SdkMessagesOf}
Pieces  == UNION {Range(p[2]) : p \in SdkMessagesOf}

(* The SDK does not write the marker of AwsLogSystem itself.                 *)
Unmarked == REDACTED_TEXT \notin Pieces

-----------------------------------------------------------------------------
(* Induction on natural numbers in terms of sets.  The theorems of the       *)
(* library take a predicate as a parameter, which the provers cannot         *)
(* instantiate; well-foundedness of < on Nat takes none, and the set of the  *)
(* numbers that satisfy a predicate does as well.                            *)

LEMMA NatIsWellFounded == IsWellFoundedOn({p \in Nat \X Nat : p[1] < p[2]}, Nat)
  BY NatLessThanWellFounded, Zenon DEF OpToRel

(* A set of natural numbers that is not empty has a least element.           *)
LEMMA Least ==
  ASSUME NEW T \in SUBSET Nat, T # {}
  PROVE  \E x \in T : \A y \in T : x <= y
<1> DEFINE R == {p \in Nat \X Nat : p[1] < p[2]}
<1>1. IsWellFoundedOn(R, Nat)
  BY NatIsWellFounded
<1>2. \A x, y \in Nat : y < x => <<y, x>> \in R
  OBVIOUS
<1> HIDE DEF R
<1>3. PICK x \in T : \A y \in T : <<y, x>> \notin R
  BY <1>1, WFMin
<1>4. \A y \in T : ~(y < x)
  BY <1>2, <1>3
<1> QED
  BY <1>4

(* A bounded one has a greatest element too.                                 *)
LEMMA Greatest ==
  ASSUME NEW n \in Nat, NEW T \in SUBSET (0 .. n), T # {}
  PROVE  \E x \in T : \A y \in T : x >= y
<1> DEFINE D == {d \in 0 .. n : n - d \in T}
<1>1. D \in SUBSET Nat /\ D # {}
  <2>1. PICK t \in T : TRUE
    OBVIOUS
  <2>2. n - t \in D
    BY <2>1
  <2> QED
    BY <2>2
<1>2. \A t \in T : n - t \in D
  OBVIOUS
<1>3. \A d \in D : d \in 0 .. n /\ n - d \in T
  OBVIOUS
<1> HIDE DEF D
<1>4. PICK d \in D : \A e \in D : d <= e
  BY <1>1, Least
<1>5. n - d \in T /\ \A y \in T : d <= n - y
  BY <1>2, <1>3, <1>4
<1> QED
  BY <1>3, <1>5

(* Induction up to n.                                                        *)
LEMMA Induction ==
  ASSUME NEW n \in Nat, NEW T, 0 \in T, \A i \in 1 .. n : i - 1 \in T => i \in T
  PROVE  0 .. n \subseteq T
<1> SUFFICES ASSUME (0 .. n) \ T # {} PROVE FALSE
  OBVIOUS
<1> DEFINE M == (0 .. n) \ T
<1>1. M \in SUBSET Nat
  OBVIOUS
<1>2. PICK x \in M : \A y \in M : x <= y
  BY <1>1, Least
<1>3. x \in 1 .. n /\ x - 1 \notin M
  BY <1>2
<1> QED
  BY <1>2, <1>3

(* g is defined from one number to the next.                                 *)
Recurses(n, S, base, F, g) ==
    g \in [0 .. n -> S] /\ g[0] = base /\ \A i \in 1 .. n : g[i] = F[<<i, g[i - 1]>>]

(* Such a function exists.                                                   *)
LEMMA Recursion ==
  ASSUME NEW n \in Nat, NEW S, NEW base \in S, NEW F \in [(1 .. n) \X S -> S]
  PROVE  \E g : Recurses(n, S, base, F, g)
<1> DEFINE Solves(m, g) == g[0] = base /\ \A i \in 1 .. m : g[i] = F[<<i, g[i - 1]>>]
           T == {m \in 0 .. n : \E g \in [0 .. m -> S] : Solves(m, g)}
<1>1. 0 \in T
  <2> DEFINE g == [i \in 0 .. 0 |-> base]
  <2>1. g \in [0 .. 0 -> S] /\ Solves(0, g)
    OBVIOUS
  <2> HIDE DEF g
  <2> QED
    BY <2>1
<1>2. ASSUME NEW m \in 1 .. n, m - 1 \in T PROVE m \in T
  <2>1. PICK g \in [0 .. m - 1 -> S] : Solves(m - 1, g)
    BY <1>2
  <2> DEFINE h == [i \in 0 .. m |-> IF i = m THEN F[<<m, g[m - 1]>>] ELSE g[i]]
  <2>2. g[m - 1] \in S
    BY <2>1
  <2>3. <<m, g[m - 1]>> \in (1 .. n) \X S
    BY <2>2
  <2>4. F[<<m, g[m - 1]>>] \in S
    BY <2>3
  <2>5. h \in [0 .. m -> S]
    BY <2>1, <2>4
  <2>6. h[0] = base
    BY <2>1
  <2>7. ASSUME NEW i \in 1 .. m PROVE h[i] = F[<<i, h[i - 1]>>]
    <3>1. h[i - 1] = g[i - 1]
      OBVIOUS
    <3>2. h[i] = IF i = m THEN F[<<m, g[m - 1]>>] ELSE g[i]
      OBVIOUS
    <3> HIDE DEF h
    <3>3. i # m => g[i] = F[<<i, g[i - 1]>>]
      BY <2>1
    <3> QED
      BY <3>1, <3>2, <3>3
  <2> HIDE DEF h
  <2>8. Solves(m, h)
    BY <2>6, <2>7
  <2> HIDE DEF Solves
  <2> QED
    BY <2>5, <2>8
<1>3. n \in T
  <2> HIDE DEF T
  <2> QED
    BY <1>1, <1>2, Induction
<1>4. PICK g \in [0 .. n -> S] : Solves(n, g)
  BY <1>3
<1> QED
  BY <1>4 DEF Recurses

-----------------------------------------------------------------------------
(* The operators on messages.                                                *)

LEMMA FirstOfFacts ==
  ASSUME NEW S, NEW m \in Seq(S), NEW kind
  PROVE  /\ FirstOf(m, kind) \in 0 .. Len(m)
         /\ FirstOf(m, kind) = 0 => \A i \in 1 .. Len(m) : m[i] \notin kind
         /\ FirstOf(m, kind) # 0 => /\ m[FirstOf(m, kind)] \in kind
                                    /\ \A j \in 1 .. FirstOf(m, kind) - 1 : m[j] \notin kind
<1> DEFINE I == {i \in 1 .. Len(m) : m[i] \in kind}
<1>1. FirstOf(m, kind) = IF I # {} THEN Min(I) ELSE 0
  BY DEF FirstOf, SelectInSeq
<1>2. Len(m) \in Nat /\ \A i \in 1 .. Len(m) : i \in I <=> m[i] \in kind
  OBVIOUS
<1>3. I \in SUBSET Nat /\ I \subseteq 1 .. Len(m)
  BY <1>2
<1> HIDE DEF I
<1> DEFINE k == FirstOf(m, kind)
<1>4. CASE I = {}
  BY <1>1, <1>2, <1>4
<1>5. CASE I # {}
  <2>1. k \in I /\ \A y \in I : k <= y
    BY <1>1, <1>3, <1>5, Least DEF Min
  <2> HIDE DEF k
  <2>2. k \in 1 .. Len(m) /\ m[k] \in kind
    BY <1>2, <1>3, <2>1
  <2>3. ASSUME NEW j \in 1 .. k - 1 PROVE m[j] \notin kind
    <3>1. j \in 1 .. Len(m) /\ ~(k <= j)
      BY <1>2, <2>2
    <3> QED
      BY <1>2, <2>1, <3>1
  <2> QED
    BY <2>2, <2>3 DEF k
<1> QED
  BY <1>4, <1>5

LEMMA TrimFacts ==
  ASSUME NEW S, NEW m \in Seq(S)
  PROVE  trim_white_spaces(m) \in Seq(S)
<1> DEFINE I == {i \in 1 .. Len(m) : m[i] \notin Blanks}
           k == IF I # {} THEN Max(I) ELSE 0
<1>1. trim_white_spaces(m) = SubSeq(m, 1, k)
  BY DEF trim_white_spaces, SelectLastInSeq
<1>2. Len(m) \in Nat /\ I \in SUBSET (0 .. Len(m))
  OBVIOUS
<1> HIDE DEF I
<1>3. I # {} => Max(I) \in I
  BY <1>2, Greatest DEF Max
<1>4. k \in 0 .. Len(m)
  <2>1. CASE I = {}
    BY <1>2, <2>1
  <2>2. CASE I # {}
    BY <1>2, <1>3, <2>2
  <2> QED
    BY <2>1, <2>2
<1> HIDE DEF k
<1> QED
  BY <1>1, <1>2, <1>4, SubSeqProperties

LEMMA CutFacts ==
  ASSUME NEW S, NEW m \in Seq(S), NEW n \in 0 .. Len(m),
         NEW T, S \subseteq T, BLANK \in T, REDACTED_TEXT \in T
  PROVE  Cut(m, n).ok /\ Cut(m, n).text \in Seq(T) /\ Len(Cut(m, n).text) = n + 2
<1> DEFINE q == SubSeq(m, 1, n)
           e == <<BLANK, REDACTED_TEXT>>
<1>1. Cut(m, n).ok /\ Cut(m, n).text = q \o e
  BY DEF Cut
<1>2. Len(m) \in Nat /\ n \in Nat
  OBVIOUS
<1>3. q \in Seq(S) /\ Len(q) = n /\ \A i \in 1 .. n : q[i] = m[i]
  BY <1>2, SubSeqProperties
<1>4. q \in Seq(T)
  <2>1. \A i \in 1 .. n : m[i] \in T
    BY <1>2
  <2> QED
    BY <1>2, <1>3, <2>1
<1>5. e \in Seq(T) /\ Len(e) = 2
  OBVIOUS
<1> HIDE DEF q, e
<1>6. q \o e \in Seq(T) /\ Len(q \o e) = Len(q) + Len(e)
  BY <1>4, <1>5, ConcatProperties
<1>7. Len(q \o e) = n + 2
  BY <1>2, <1>3, <1>5, <1>6
<1> QED
  BY <1>1, <1>6, <1>7

-----------------------------------------------------------------------------
(* What is made of a message of a sanitised tag.                             *)

(* It is refused, or passed as one that is harmless, or cut where it may be. *)
Outcome(tag, m, p) ==
    \/ p = Refused(m)
    \/ p = Passed(m) /\ Harmless(tag, m)
    \/ \E n \in 1 .. Len(m) : p = Cut(m, n) /\ MayShow(tag, m, n)

LEMMA RefusedOutcome == ASSUME NEW tag, NEW m PROVE Outcome(tag, m, Refused(m))
  BY DEF Outcome

LEMMA PhraseOutcome ==
  ASSUME NEW S, NEW m \in Seq(S), m # <<>>, NEW tag, PhraseShown(tag, m, 1)
  PROVE  Outcome(tag, m, Cut(m, 1))
<1>1. 1 \in 1 .. Len(m)
  OBVIOUS
<1>2. MayShow(tag, m, 1)
  BY DEF MayShow
<1> QED
  BY <1>1, <1>2, Zenon DEF Outcome

LEMMA BeforeFirst ==
  ASSUME NEW S, NEW m \in Seq(S), NEW kind, FirstOf(m, kind) # 0, m[1] \notin kind
  PROVE  \E n \in 1 .. Len(m) :
            /\ n = FirstOf(m, kind) - 1 /\ n < Len(m)
            /\ m[n + 1] \in kind /\ \A j \in 1 .. n : m[j] \notin kind
<1> DEFINE i == FirstOf(m, kind)
           n == i - 1
<1>1. i \in 1 .. Len(m) /\ m[i] \in kind /\ \A j \in 1 .. i - 1 : m[j] \notin kind
  BY FirstOfFacts
<1> HIDE DEF i
<1>2. i # 1
  BY <1>1
<1>3. n \in 1 .. Len(m) /\ n < Len(m) /\ n + 1 = i
  BY <1>1, <1>2
<1>4. n = FirstOf(m, kind) - 1
  BY DEF i
<1> QED
  BY <1>1, <1>3, <1>4

LEMMA CutLineOutcome ==
  ASSUME NEW S, NEW m \in Seq(S), m # <<>>, NEW tag, PhraseShown(tag, m, 1),
         \/ tag = "AWSClient" /\ m[1] = "HTTP response code:"
         \/ tag = "CURL" /\ m[1] = "(HeaderOut)"
  PROVE  Outcome(tag, m, CutLine(m))
<1> DEFINE ends == {"\n"}
<1>1. CutLine(m) = IF FirstOf(m, ends) # 0 THEN Cut(m, FirstOf(m, ends) - 1) ELSE Cut(m, 1)
  BY DEF CutLine
<1>2. m[1] \notin ends
  OBVIOUS
<1>3. \A x : x \in ends <=> x = "\n"
  OBVIOUS
<1> HIDE DEF ends
<1>4. CASE FirstOf(m, ends) # 0
  <2>1. PICK n \in 1 .. Len(m) :
            /\ n = FirstOf(m, ends) - 1 /\ n < Len(m)
            /\ m[n + 1] \in ends /\ \A j \in 1 .. n : m[j] \notin ends
    BY <1>2, <1>4, BeforeFirst, Zenon
  <2>2. LineShown(tag, m, n)
    BY <1>3, <2>1, Zenon DEF LineShown
  <2>3. CutLine(m) = Cut(m, n)
    BY <1>1, <1>4, <2>1, Zenon
  <2> QED
    BY <2>2, <2>3, Zenon DEF Outcome, MayShow
<1>5. CASE FirstOf(m, ends) = 0
  BY <1>1, <1>5, PhraseOutcome, Zenon
<1> QED
  BY <1>4, <1>5, Zenon

LEMMA ColonOutcome ==
  ASSUME NEW S, NEW m \in Seq(S), NEW tag, FirstOf(m, WithColon) # 0,
         tag = "CurlHttpClient" \/ (tag = "CURL" /\ m[1] = "(HeaderIn)")
  PROVE  Outcome(tag, m, Cut(m, FirstOf(m, WithColon)))
<1> DEFINE n == FirstOf(m, WithColon)
<1>1. n \in 1 .. Len(m) /\ m[n] \in WithColon /\ \A i \in 1 .. n - 1 : m[i] \notin WithColon
  BY FirstOfFacts
<1> HIDE DEF n
<1>2. MayShow(tag, m, n)
  BY <1>1, Zenon DEF MayShow, HeaderShown
<1>3. Outcome(tag, m, Cut(m, n))
  BY <1>1, <1>2, Zenon DEF Outcome
<1> QED
  BY <1>3 DEF n

LEMMA AuthOutcome ==
  ASSUME NEW S, NEW m \in Seq(S), m # <<>>
  PROVE  Outcome("AWSAuthV4Signer", m, process_auth_v4_signer_tag(m))
<1>1. \/ process_auth_v4_signer_tag(m) = Cut(m, 1) /\ m[1] \in AuthV4Phrases
      \/ process_auth_v4_signer_tag(m) = Refused(m)
  BY Zenon DEF process_auth_v4_signer_tag, StartsWith
<1>2. m[1] \in AuthV4Phrases => PhraseShown("AWSAuthV4Signer", m, 1)
  BY Zenon DEF PhraseShown
<1> QED
  BY <1>1, <1>2, PhraseOutcome, RefusedOutcome

LEMMA ProfileOutcome ==
  ASSUME NEW S, NEW m \in Seq(S), m # <<>>
  PROVE  Outcome("Aws::Config::ConfigFileProfileFSM", m, process_config_file_profile_tag(m))
<1>1. \/ process_config_file_profile_tag(m) = Cut(m, 1) /\ m[1] \in ProfilePhrases
      \/ process_config_file_profile_tag(m) = Refused(m)
  BY Zenon DEF process_config_file_profile_tag, StartsWith
<1>2. m[1] \in ProfilePhrases => PhraseShown("Aws::Config::ConfigFileProfileFSM", m, 1)
  BY Zenon DEF PhraseShown
<1> QED
  BY <1>1, <1>2, PhraseOutcome, RefusedOutcome

LEMMA ClientOutcome ==
  ASSUME NEW S, NEW m \in Seq(S), m # <<>>
  PROVE  Outcome("AWSClient", m, process_aws_client_tag(m))
<1>1. \/ process_aws_client_tag(m) = Passed(m) /\ m[1] \in AWSClientPhrases
      \/ process_aws_client_tag(m) = CutLine(m) /\ m[1] = "HTTP response code:"
      \/ process_aws_client_tag(m) = Refused(m)
  BY Zenon DEF process_aws_client_tag, StartsWith
<1>2. CASE process_aws_client_tag(m) = Passed(m) /\ m[1] \in AWSClientPhrases
  BY <1>2, Zenon DEF Outcome, Harmless
<1>3. CASE process_aws_client_tag(m) = CutLine(m) /\ m[1] = "HTTP response code:"
  <2>1. PhraseShown("AWSClient", m, 1)
    BY <1>3, Zenon DEF PhraseShown
  <2> QED
    BY <1>3, <2>1, CutLineOutcome
<1> QED
  BY <1>1, <1>2, <1>3, RefusedOutcome

LEMMA CurlClientOutcome ==
  ASSUME NEW S, NEW m \in Seq(S), m # <<>>
  PROVE  Outcome("CurlHttpClient", m, process_curl_http_client_tag(m))
<1> DEFINE p == process_curl_http_client_tag(m)
           colon == FirstOf(m, WithColon)
           bytes == FirstOf(m, {"bytes written to response"})
<1>1. \/ p = Passed(m) /\ (m[1] \in CurlClientPhrases \/ m[1] \in WHITE_LISTED_HEADERS \/ bytes # 0)
      \/ p = Cut(m, colon) /\ colon # 0
      \/ p = Refused(m)
  BY Zenon DEF process_curl_http_client_tag, StartsWith
<1>2. bytes # 0 => "bytes written to response" \in Range(m)
  <2>1. \A k : FirstOf(m, k) # 0 => \E i \in DOMAIN m : m[i] \in k
    <3>1. DOMAIN m = 1 .. Len(m)
      OBVIOUS
    <3> QED
      BY <3>1, FirstOfFacts
  <2>2. ASSUME NEW i \in DOMAIN m, m[i] \in {"bytes written to response"}
        PROVE  "bytes written to response" \in Range(m)
    BY <2>2, Zenon DEF Range
  <2> QED
    BY <2>1, <2>2, Zenon
<1>3. CASE p = Passed(m) /\ (m[1] \in CurlClientPhrases \/ m[1] \in WHITE_LISTED_HEADERS \/ bytes # 0)
  <2> HIDE DEF p, bytes
  <2>1. Harmless("CurlHttpClient", m)
    BY <1>2, <1>3, Zenon DEF Harmless
  <2> QED
    BY <1>3, <2>1, Zenon DEF Outcome, p
<1> QED
  BY <1>1, <1>3, ColonOutcome, RefusedOutcome

LEMMA CurlOutcome ==
  ASSUME NEW S, NEW m \in Seq(S), m # <<>>
  PROVE  Outcome("CURL", m, process_curl_tag(m))
<1> DEFINE p == process_curl_tag(m)
           colon == FirstOf(m, WithColon)
<1>0. m[1] \in {"(DataIn)", "(DataOut)", "(HeaderIn)", "(HeaderOut)"} => PhraseShown("CURL", m, 1)
  BY Zenon DEF PhraseShown
<1>1. CASE m[1] \in {"(DataIn)", "(DataOut)"}
  <2>1. p = Cut(m, 1)
    BY <1>1 DEF process_curl_tag, StartsWith
  <2> QED
    BY <1>0, <1>1, <2>1, PhraseOutcome
<1>2. CASE m[1] \in {"(SSLDataIn)", "(SSLDataOut)", "(Text)"}
  <2>1. p = Passed(m)
    BY <1>2 DEF process_curl_tag, StartsWith
  <2>2. Harmless("CURL", m)
    BY <1>2, Zenon DEF Harmless
  <2> QED
    BY <2>1, <2>2 DEF Outcome
<1>3. CASE m[1] = "(HeaderIn)"
  <2>1. p = IF m = <<"(HeaderIn)">> \/ HeaderAt(m) THEN Passed(m)
            ELSE IF colon # 0 THEN Cut(m, colon) ELSE Cut(m, 1)
    BY <1>3 DEF process_curl_tag, StartsWith
  <2>2. ASSUME m = <<"(HeaderIn)">> \/ HeaderAt(m) PROVE Harmless("CURL", m)
    <3>1. Len(m) > 1 => Len(m) > 2 /\ m[2] \in OneCharacter /\ m[3] \in WHITE_LISTED_HEADERS
      <4>1. CASE m = <<"(HeaderIn)">>
        BY <4>1
      <4>2. CASE HeaderAt(m)
        BY <4>2 DEF HeaderAt
      <4> QED
        BY <2>2, <4>1, <4>2
    <3> QED
      BY <1>3, <3>1, Zenon DEF Harmless
  <2>3. CASE m = <<"(HeaderIn)">> \/ HeaderAt(m)
    BY <2>1, <2>2, <2>3 DEF Outcome
  <2>4. CASE ~(m = <<"(HeaderIn)">> \/ HeaderAt(m))
    BY <1>0, <1>3, <2>1, <2>4, ColonOutcome, PhraseOutcome
  <2> QED
    BY <2>3, <2>4
<1>4. CASE m[1] = "(HeaderOut)"
  <2>1. p = CutLine(m)
    BY <1>4 DEF process_curl_tag, StartsWith
  <2> QED
    BY <1>0, <1>4, <2>1, CutLineOutcome
<1>5. CASE m[1] \notin {"(DataIn)", "(DataOut)", "(SSLDataIn)", "(SSLDataOut)", "(Text)", "(HeaderIn)", "(HeaderOut)"}
  <2>1. p = Refused(m)
    BY <1>5 DEF process_curl_tag, StartsWith
  <2> QED
    BY <2>1, RefusedOutcome
<1> QED
  BY <1>1, <1>2, <1>3, <1>4, <1>5

LEMMA FirstThree ==
  ASSUME NEW S, NEW s \in Seq(S), 3 <= Len(s)
  PROVE  SubSeq(s, 1, 3)[1] = s[1] /\ SubSeq(s, 1, 3)[3] = s[3]
<1>1. \A i \in 1 .. 3 : s[i] \in S
  OBVIOUS
<1>2. \A i \in 1 .. 3 - 1 + 1 : SubSeq(s, 1, 3)[i] = s[1 + i - 1]
  BY <1>1, SubSeqProperties
<1> QED
  BY <1>2

LEMMA MarshallerOutcome ==
  ASSUME NEW S, NEW m \in Seq(S), m # <<>>
  PROVE  Outcome("AWSErrorMarshaller", m, process_error_marshaller_tag(m))
<1> DEFINE p == process_error_marshaller_tag(m)
           begins == IsPrefix(<<"Encountered AWSError", BLANK, "'">>, m)
           quotes == {i \in 3 .. Len(m) - 1 : m[i] = "'" /\ m[i + 1] = ":"}
           tag == "AWSErrorMarshaller"
<1>1. \/ p = Cut(m, Min(quotes)) /\ quotes # {} /\ begins
      \/ p = Cut(m, 1) /\ begins
      \/ p = Cut(m, 1) /\ m[1] = "Error response is"
      \/ p = Refused(m)
  BY Zenon DEF process_error_marshaller_tag, StartsWith
<1>2. quotes \in SUBSET Nat
  OBVIOUS
<1>3. begins => m[1] = "Encountered AWSError" /\ m[3] = "'"
  <2> DEFINE q == <<"Encountered AWSError", BLANK, "'">>
  <2>1. Len(q) = 3 /\ q[1] = "Encountered AWSError" /\ q[3] = "'"
    OBVIOUS
  <2> HIDE DEF q
  <2>2. begins => /\ 3 <= Len(m)
                  /\ SubSeq(m, 1, 3) = SubSeq(q, 1, 3)
    BY <2>1, Zenon DEF IsPrefix, q
  <2>3. begins => SubSeq(m, 1, 3)[1] = m[1] /\ SubSeq(m, 1, 3)[3] = m[3]
    BY <2>2, FirstThree, Zenon
  <2>4. SubSeq(q, 1, 3)[1] = q[1] /\ SubSeq(q, 1, 3)[3] = q[3]
    <3>1. q \in Seq({"Encountered AWSError", BLANK, "'"}) /\ 3 <= Len(q)
      BY <2>1 DEF q
    <3> QED
      BY <3>1, FirstThree, Zenon
  <2> QED
    BY <2>1, <2>2, <2>3, <2>4, Zenon
<1>4. m[1] \in {"Encountered AWSError", "Error response is"} => PhraseShown(tag, m, 1)
  BY Zenon DEF PhraseShown
<1>5. CASE p = Cut(m, Min(quotes)) /\ quotes # {} /\ begins
  <2> DEFINE n == Min(quotes)
  <2>1. n \in quotes /\ \A i \in quotes : n <= i
    BY <1>2, <1>5, Least DEF Min
  <2> HIDE DEF n, p, begins
  <2>2. n \in 3 .. Len(m) - 1 /\ n \in 1 .. Len(m) /\ m[n] = "'" /\ m[n + 1] = ":"
    BY <2>1
  <2>3. ASSUME NEW i \in 3 .. n - 1 PROVE ~(m[i] = "'" /\ m[i + 1] = ":")
    <3>1. i \in 3 .. Len(m) - 1 /\ ~(n <= i)
      BY <2>2
    <3> QED
      BY <2>1, <3>1
  <2> HIDE DEF quotes
  <2>4. TypeShown(tag, m, n)
    BY <1>3, <1>5, <2>2, <2>3 DEF TypeShown
  <2>5. p = Cut(m, n)
    BY <1>5 DEF n
  <2> QED
    BY <2>2, <2>4, <2>5, Zenon DEF Outcome, MayShow, p
<1> HIDE DEF quotes, begins, p
<1>6. CASE p = Cut(m, 1) /\ (begins \/ m[1] = "Error response is")
  BY <1>3, <1>4, <1>6, PhraseOutcome DEF p
<1>7. CASE p = Refused(m)
  BY <1>7, RefusedOutcome DEF p
<1> QED
  BY <1>1, <1>5, <1>6, <1>7 DEF p

LEMMA ProcessedOutcome ==
  ASSUME NEW S, NEW m \in Seq(S), m # <<>>, NEW tag \in SanitizedTags
  PROVE  Outcome(tag, m, Processed(tag, m))
  BY AuthOutcome, ProfileOutcome, ClientOutcome, CurlClientOutcome, CurlOutcome, MarshallerOutcome
     DEF SanitizedTags, Processed

-----------------------------------------------------------------------------
(* The invariant of a call of the SDK.                                       *)

Shown == Pieces \cup {BLANK, REDACTED_TEXT}

Calls == [pc : {"announce", "record", "done"}, level : AwsLogLevels \ {AwsOff}, tag : SdkTags,
          message : Seq(Pieces), text : Seq(Shown), moved : BOOLEAN]

SdkTypes == sdk \in Calls \cup {Idle}

(* The tags and the names they were set by.                                  *)
SwitchedByName ==
    \A t \in SanitizerTags : Contains(allowed, t) <=> sanitizer_tag_to_string(t) \in Range(named)

(* What LogStream has made of the message.                                   *)
Made == process_tag(allowed, sdk.tag, sdk.message)

Announces(entry) == entry.log.extra = NO_EXTRA /\ entry.log.message = <<FAILED_TEXT, sdk.tag>>
Shows(entry)     == entry.log.extra = sdk.tag /\ entry.log.message = sdk.text

(* What has been logged at each step of the call.                            *)
CallIsFollowed == sdk # Idle =>
    /\ level \in LogLevels
    /\ sdk.pc = "announce" => ~Made.ok /\ out = <<>>
    /\ sdk.pc # "announce" => sdk.text = IF Made.ok THEN Made.text ELSE <<REDACTED_TEXT>>
    /\ sdk.pc = "record" =>
          \/ out = <<>> /\ (Made.ok \/ sdk.moved \/ ~HasStream(ERROR, level))
          \/ out = <<out[1]>> /\ ~Made.ok /\ Announces(out[1])
    /\ sdk.pc = "done" =>
          \/ out = <<>>
          \/ out = <<out[1]>> /\ Announces(out[1])
          \/ out = <<out[1]>> /\ Shows(out[1]) /\ (Made.ok \/ sdk.moved)
          \/ out = <<out[1], out[2]>> /\ Announces(out[1]) /\ Shows(out[2]) /\ ~Made.ok

SdkInv == SdkTypes /\ SwitchedByName /\ CallIsFollowed

LEMMA IdleIsNoCall == Idle \notin Calls /\ \A c \in Calls : c.pc # "idle"
  BY DEF Idle, Calls

LEMMA LevelsOfSdk ==
  ASSUME NEW a \in AwsLogLevels
  PROVE  /\ aws_log_level_to_octo(a) \in LogLevels
         /\ a # AwsOff => aws_log_level_to_octo(a) \in {TRACE, DEBUG, INFO, WARNING, ERROR}
  BY DEF AwsLogLevels, aws_log_level_to_octo, LogLevels, AwsOff, AwsFatal, AwsError, AwsWarn, AwsInfo, AwsDebug,
     AwsTrace

LEMMA DumpEffect ==
  ASSUME NEW r, NEW floor, NEW before, Dump(r, floor, before)
  PROVE  \/ out' = before /\ ~HasStream(r.level, floor)
         \/ HasStream(r.level, floor) /\ \E e : e.log = r /\ out' = Append(before, e)
<1>1. CASE HasStream(r.level, floor)
  <2>1. PICK outcomes, d : out' = Append(before, [log |-> r, sinks |-> sinks, outcomes |-> outcomes, lines |-> d.lines])
    BY <1>1, Zenon DEF Dump
  <2> QED
    BY <1>1, <2>1
<1>2. CASE ~HasStream(r.level, floor)
  BY <1>2 DEF Dump
<1> QED
  BY <1>1, <1>2

LEMMA Second ==
  ASSUME NEW s, NEW x, NEW e, s = <<x>>
  PROVE  /\ Append(s, e) = <<x, e>> /\ Append(s, e)[1] = x /\ Append(s, e)[2] = e
<1>1. s \in Seq({x, e}) /\ Len(s) = 1 /\ s[1] = x
  OBVIOUS
<1>2. /\ Append(s, e) \in Seq({x, e}) /\ Len(Append(s, e)) = 2
      /\ Append(s, e)[1] = x /\ Append(s, e)[2] = e
  BY <1>1
<1>3. <<x, e>> \in Seq({x, e}) /\ Len(<<x, e>>) = 2 /\ <<x, e>>[1] = x /\ <<x, e>>[2] = e
  OBVIOUS
<1>4. \A i \in 1 .. 2 : Append(s, e)[i] = <<x, e>>[i]
  <2>1. \A i \in 1 .. 2 : i = 1 \/ i = 2
    OBVIOUS
  <2> QED
    BY <1>2, <1>3, <2>1
<1> QED
  BY <1>2, <1>3, <1>4, SeqEqual

-----------------------------------------------------------------------------
(* The steps.                                                                *)

LEMMA InitSdk == Init => SdkInv
<1> SUFFICES ASSUME Init PROVE SdkInv
  OBVIOUS
<1>1. SdkTypes /\ CallIsFollowed
  BY DEF Init, SdkTypes, CallIsFollowed
<1>2. SwitchedByName
  <2>1. allowed = <<0>> /\ named = <<"ALL">>
    BY DEF Init, ALL_TAG
  <2>2. \A t : Contains(allowed, t) <=> t = 0
    BY <2>1 DEF Contains
  <2>3. Range(named) = {"ALL"}
    <3>1. DOMAIN named = {1} /\ named[1] = "ALL"
      BY <2>1
    <3> QED
      BY <3>1 DEF Range
  <2>4. \A t \in SanitizerTags : sanitizer_tag_to_string(t) = "ALL" <=> t = 0
    BY DEF SanitizerTags, sanitizer_tag_to_string, ALL_TAG, AUTHV4_TAG, AWSCLIENT_TAG, CONFIG_FILE_PROFILE_TAG,
       CURL_HTTP_CLIENT_TAG, CURL_TAG, ERROR_MARSHALLER_TAG
  <2> QED
    BY <2>2, <2>3, <2>4 DEF SwitchedByName
<1> QED
  BY <1>1, <1>2 DEF SdkInv

(* Whatever is done between two calls of the SDK.                            *)
LEMMA BetweenCalls ==
  ASSUME sdk' = Idle, allowed' = allowed, named' = named, SdkInv
  PROVE  SdkInv'
  BY DEF SdkInv, SdkTypes, SwitchedByName, CallIsFollowed

LEMMA SetTagsKeeps ==
  ASSUME SdkInv, NEW names \in TagLists, set_allowed_sanitizers_tags(names)
  PROVE  SdkInv'
<1>1. sdk = Idle /\ sdk' = Idle
  BY DEF set_allowed_sanitizers_tags, Ready
<1>2. names \in Seq(TagNames)
  <2>1. names \in Seq(Range(names)) /\ Range(names) \subseteq TagNames
    BY TagsAssumption DEF set_allowed_sanitizers_tags
  <2> QED
    BY <2>1
<1>3. \A s \in TagNames : /\ string_to_sanitizer_tag(s) \in SanitizerTags
                         /\ sanitizer_tag_to_string(string_to_sanitizer_tag(s)) = s
  BY DEF TagNames, string_to_sanitizer_tag
<1>4. \A t \in SanitizerTags : string_to_sanitizer_tag(sanitizer_tag_to_string(t)) = t
  <2>1. \A t, u \in SanitizerTags : sanitizer_tag_to_string(t) = sanitizer_tag_to_string(u) => t = u
    BY DEF SanitizerTags, sanitizer_tag_to_string, ALL_TAG, AUTHV4_TAG, AWSCLIENT_TAG, CONFIG_FILE_PROFILE_TAG,
       CURL_HTTP_CLIENT_TAG, CURL_TAG, ERROR_MARSHALLER_TAG
  <2>2. \A t \in SanitizerTags : sanitizer_tag_to_string(t) \in TagNames
    BY DEF TagNames
  <2> QED
    BY <1>3, <2>1, <2>2
<1>5. allowed' = [i \in DOMAIN names |-> string_to_sanitizer_tag(names[i])] /\ named' = names
  BY DEF set_allowed_sanitizers_tags
<1>6. ASSUME NEW t \in SanitizerTags
      PROVE  Contains(allowed', t) <=> sanitizer_tag_to_string(t) \in Range(named')
  <2>1. DOMAIN names = 1 .. Len(names) /\ Len(names) \in Nat /\ \A i \in DOMAIN names : names[i] \in TagNames
    BY <1>2
  <2>2. DOMAIN allowed' = 1 .. Len(names) /\ Len(allowed') = Len(names)
    BY <1>5, <2>1
  <2>3. Contains(allowed', t) <=> \E i \in DOMAIN names : allowed'[i] = t
    BY <2>1, <2>2 DEF Contains
  <2>4. \A i \in DOMAIN names : allowed'[i] = t <=> names[i] = sanitizer_tag_to_string(t)
    BY <1>3, <1>4, <1>5, <2>1
  <2>5. sanitizer_tag_to_string(t) \in Range(names) <=> \E i \in DOMAIN names : names[i] = sanitizer_tag_to_string(t)
    BY DEF Range
  <2> QED
    BY <1>5, <2>3, <2>4, <2>5
<1> QED
  BY <1>1, <1>6 DEF SdkInv, SdkTypes, SwitchedByName, CallIsFollowed

Sanitised(tag) == tag \in SanitizedTags /\ allowed_sanitizer_tag(allowed, SwitchOf[tag])

(* A message of any tag: what is not sanitised is passed or, for a tag that  *)
(* is not known, refused.                                                    *)
MayRefuse(tag) == tag \notin PlainTags /\ (tag \in SanitizedTags => Sanitised(tag))

MayPass(tag, m) == tag \in SanitizedTags \cup PlainTags /\ (Sanitised(tag) => Harmless(tag, m))

LEMMA MadeOutcome ==
  ASSUME NEW tag, NEW m \in Seq(Pieces)
  PROVE  LET p == process_tag(allowed, tag, m)
         IN  \/ p = Refused(m) /\ m # <<>> /\ MayRefuse(tag)
             \/ p = Passed(m) /\ (m # <<>> => MayPass(tag, m))
             \/ Sanitised(tag) /\ \E n \in 1 .. Len(m) : p = Cut(m, n) /\ MayShow(tag, m, n)
<1> DEFINE p == process_tag(allowed, tag, m)
<1>0. tag \in SanitizedTags => tag \notin PlainTags
  BY DEF SanitizedTags, PlainTags
<1>1. CASE m = <<>>
  BY <1>1 DEF process_tag
<1>2. CASE m # <<>> /\ tag \in SanitizedTags /\ Sanitised(tag)
  <2>1. p = Processed(tag, m)
    BY <1>0, <1>2 DEF process_tag, Sanitised
  <2>2. Outcome(tag, m, p)
    BY <1>2, <2>1, ProcessedOutcome
  <2> HIDE DEF p
  <2> QED
    BY <1>0, <1>2, <2>2 DEF Outcome, MayRefuse, MayPass, p
<1>3. CASE m # <<>> /\ tag \in SanitizedTags /\ ~Sanitised(tag)
  <2>1. p = Passed(m)
    BY <1>0, <1>3 DEF process_tag, Sanitised
  <2> QED
    BY <1>3, <2>1 DEF MayPass
<1>4. CASE m # <<>> /\ tag \notin SanitizedTags
  <2>1. (p = Passed(m) /\ tag \in PlainTags) \/ (p = Refused(m) /\ tag \notin PlainTags)
    BY <1>4 DEF process_tag
  <2> HIDE DEF p
  <2> QED
    BY <1>4, <2>1 DEF Sanitised, MayRefuse, MayPass, p
<1> QED
  BY <1>1, <1>2, <1>3, <1>4

LEMMA MadeType ==
  ASSUME NEW tag, NEW m \in Seq(Pieces)
  PROVE  /\ process_tag(allowed, tag, m).ok \in BOOLEAN
         /\ process_tag(allowed, tag, m).text \in Seq(Shown)
<1> DEFINE p == process_tag(allowed, tag, m)
<1>1. Pieces \subseteq Shown /\ BLANK \in Shown /\ REDACTED_TEXT \in Shown
  BY DEF Shown
<1>2. m \in Seq(Shown)
  BY <1>1
<1>3. \/ p = Refused(m) \/ p = Passed(m) \/ \E n \in 0 .. Len(m) : p = Cut(m, n)
  BY MadeOutcome
<1> HIDE DEF p
<1>4. ASSUME p = Refused(m) \/ p = Passed(m)
      PROVE  p.ok \in BOOLEAN /\ p.text \in Seq(Shown)
  <2>1. Refused(m).ok = FALSE /\ Refused(m).text = m /\ Passed(m).ok = TRUE /\ Passed(m).text = m
    BY DEF Refused, Passed
  <2> QED
    BY <1>2, <1>4, <2>1
<1>5. ASSUME NEW n \in 0 .. Len(m), p = Cut(m, n)
      PROVE  p.ok \in BOOLEAN /\ p.text \in Seq(Shown)
  <2>1. Cut(m, n).ok /\ Cut(m, n).text \in Seq(Shown)
    BY <1>1, CutFacts
  <2>2. Cut(m, n).ok = TRUE
    BY DEF Cut
  <2> QED
    BY <1>5, <2>1, <2>2
<1> QED
  BY <1>3, <1>4, <1>5 DEF p

LEMMA LogStreamKeeps ==
  ASSUME SdkInv, NEW a \in SdkLevels, NEW msg \in SdkMessagesOf, LogStream(a, msg[1], msg[2])
  PROVE  SdkInv'
<1> DEFINE tag == msg[1]
           m == trim_white_spaces(msg[2])
           p == process_tag(allowed, tag, m)
<1>1. tag \in SdkTags /\ msg[2] \in Seq(Pieces)
  <2>1. msg[2] \in Seq(Range(msg[2])) /\ Range(msg[2]) \subseteq Pieces
    BY MessagesAssumption DEF Pieces
  <2> QED
    BY <2>1 DEF SdkTags
<1>2. m \in Seq(Pieces)
  BY <1>1, TrimFacts
<1>3. p.ok \in BOOLEAN /\ p.text \in Seq(Shown)
  BY <1>2, MadeType
<1>4. a \in AwsLogLevels \ {AwsOff}
  BY SdkAssumption DEF LogStream
<1>5. /\ level \in LogLevels /\ out = <<>> /\ level' = level /\ out' = out
      /\ allowed' = allowed /\ named' = named
      /\ sdk' = [pc |-> IF p.ok THEN "record" ELSE "announce", level |-> a, tag |-> tag,
                 message |-> m, text |-> p.text, moved |-> FALSE]
  BY DEF LogStream, Ready
<1> HIDE DEF m, tag
<1>6. Made' = p
  BY <1>5 DEF Made
<1> HIDE DEF p
<1>7. sdk' \in Calls
  BY <1>1, <1>2, <1>3, <1>4, <1>5 DEF Calls
<1>8. CallIsFollowed'
  BY <1>3, <1>5, <1>6 DEF CallIsFollowed
<1>9. SwitchedByName'
  BY <1>5 DEF SdkInv, SwitchedByName
<1> QED
  BY <1>7, <1>8, <1>9 DEF SdkInv, SdkTypes

(* The rest of a call leaves what it was made with.                          *)
LEMMA MadeKept ==
  ASSUME sdk \in Calls, allowed' = allowed, sdk'.tag = sdk.tag, sdk'.message = sdk.message
  PROVE  Made' = Made
  BY DEF Made

LEMMA SetLogLevelKeeps ==
  ASSUME SdkInv, NEW a \in SdkLevels, SetLogLevel(a)
  PROVE  SdkInv'
<1>1. level' \in LogLevels
  BY SdkAssumption, LevelsOfSdk DEF SetLogLevel
<1>2. allowed' = allowed /\ named' = named /\ out' = out
  BY DEF SetLogLevel
<1>3. CASE Ready /\ UNCHANGED sdk
  BY <1>2, <1>3, BetweenCalls DEF Ready
<1>4. CASE sdk.pc \in {"announce", "record"} /\ sdk' = [sdk EXCEPT !.moved = TRUE]
  <2>1. sdk \in Calls
    BY <1>4 DEF SdkInv, SdkTypes, Idle
  <2>2. /\ sdk' \in Calls /\ sdk'.tag = sdk.tag /\ sdk'.message = sdk.message
        /\ sdk'.pc = sdk.pc /\ sdk'.text = sdk.text /\ sdk'.moved = TRUE
    BY <1>4, <2>1 DEF Calls
  <2>3. Made' = Made
    BY <1>2, <2>1, <2>2, MadeKept
  <2>4. sdk # Idle
    BY <2>1, IdleIsNoCall
  <2>5. CallIsFollowed'
    BY <1>1, <1>2, <1>4, <2>2, <2>3, <2>4 DEF SdkInv, CallIsFollowed, Announces, Shows
  <2> QED
    BY <1>2, <2>2, <2>5 DEF SdkInv, SdkTypes, SwitchedByName
<1> QED
  BY <1>3, <1>4 DEF SetLogLevel

LEMMA FailedToProcessKeeps ==
  ASSUME SdkInv, FailedToProcess
  PROVE  SdkInv'
<1>1. sdk \in Calls /\ sdk # Idle /\ sdk.pc = "announce"
  BY IdleIsNoCall DEF SdkInv, SdkTypes, FailedToProcess, Idle
<1>2. /\ sdk' \in Calls /\ sdk' # Idle /\ sdk'.tag = sdk.tag /\ sdk'.message = sdk.message
      /\ sdk'.pc = "record" /\ sdk'.text = <<REDACTED_TEXT>> /\ sdk'.moved = sdk.moved
  <2>1. <<REDACTED_TEXT>> \in Seq(Shown)
    BY DEF Shown
  <2>2. sdk' = [sdk EXCEPT !.pc = "record", !.text = <<REDACTED_TEXT>>]
    BY DEF FailedToProcess
  <2> QED
    BY <1>1, <2>1, <2>2, IdleIsNoCall DEF Calls
<1>3. allowed' = allowed /\ named' = named /\ level' = level
  BY DEF FailedToProcess
<1>4. Made' = Made
  BY <1>1, <1>2, <1>3, MadeKept
<1>5. out = <<>> /\ ~Made.ok /\ level \in LogLevels
  BY <1>1 DEF SdkInv, CallIsFollowed
<1> DEFINE r == SdkLog(FailureLevel, NO_EXTRA, <<FAILED_TEXT, sdk.tag>>)
<1>6. r.level = ERROR /\ r.extra = NO_EXTRA /\ r.message = <<FAILED_TEXT, sdk.tag>>
  BY DEF SdkLog, FailureLevel
<1>7. Dump(r, level, out)
  BY DEF FailedToProcess
<1> HIDE DEF r
<1>8. \/ out' = out /\ ~HasStream(ERROR, level)
      \/ \E e : e.log = r /\ out' = Append(out, e)
  BY <1>6, <1>7, DumpEffect
<1>9. \/ out' = <<>> /\ ~HasStream(ERROR, level')
      \/ out' = <<out'[1]>> /\ Announces(out[1])'
  <2>1. ASSUME NEW e, e.log = r, out' = Append(out, e) PROVE out' = <<out'[1]>> /\ Announces(out[1])'
    <3>1. out' = <<out'[1]>> /\ out'[1] = e
      BY <1>5, <2>1
    <3> QED
      BY <1>2, <1>6, <2>1, <3>1 DEF Announces
  <2> QED
    BY <1>3, <1>5, <1>8, <2>1
<1>10. CallIsFollowed'
  BY <1>2, <1>3, <1>4, <1>5, <1>9 DEF CallIsFollowed
<1> QED
  BY <1>2, <1>3, <1>10 DEF SdkInv, SdkTypes, SwitchedByName

LEMMA LogMessageKeeps ==
  ASSUME SdkInv, LogMessage
  PROVE  SdkInv'
<1>1. sdk \in Calls /\ sdk # Idle /\ sdk.pc = "record"
  BY IdleIsNoCall DEF SdkInv, SdkTypes, LogMessage, Idle
<1>2. /\ sdk' \in Calls /\ sdk' # Idle /\ sdk'.tag = sdk.tag /\ sdk'.message = sdk.message
      /\ sdk'.pc = "done" /\ sdk'.text = sdk.text /\ sdk'.moved = sdk.moved
  <2>1. sdk' = [sdk EXCEPT !.pc = "done"]
    BY DEF LogMessage
  <2> QED
    BY <1>1, <2>1, IdleIsNoCall DEF Calls
<1>3. allowed' = allowed /\ named' = named /\ level' = level
  BY DEF LogMessage
<1>4. Made' = Made
  BY <1>1, <1>2, <1>3, MadeKept
<1>5. /\ level \in LogLevels
      /\ sdk.text = IF Made.ok THEN Made.text ELSE <<REDACTED_TEXT>>
      /\ \/ out = <<>> /\ (Made.ok \/ sdk.moved \/ ~HasStream(ERROR, level))
         \/ out = <<out[1]>> /\ ~Made.ok /\ Announces(out[1])
  BY <1>1 DEF SdkInv, CallIsFollowed
<1> DEFINE l == aws_log_level_to_octo(sdk.level)
           r == SdkLog(l, sdk.tag, sdk.text)
<1>6. r.level = l /\ r.extra = sdk.tag /\ r.message = sdk.text
  BY DEF SdkLog
<1>7. Dump(r, level, out)
  BY DEF LogMessage
<1>8. HasStream(l, level) => HasStream(ERROR, level)
  <2>1. l \in {TRACE, DEBUG, INFO, WARNING, ERROR}
    BY <1>1, LevelsOfSdk DEF Calls
  <2> HIDE DEF l
  <2> QED
    BY <1>5, <2>1 DEF HasStream, LogLevels, TRACE, DEBUG, INFO, NOTICE, WARNING, ERROR, QUIET
<1> HIDE DEF r, l
<1>9. \/ out' = out /\ ~HasStream(l, level)
      \/ HasStream(l, level) /\ \E e : e.log = r /\ out' = Append(out, e)
  BY <1>6, <1>7, DumpEffect
<1>10. ASSUME NEW e, e.log = r, out' = Append(out, e), HasStream(l, level)
       PROVE  \/ out' = <<out'[1]>> /\ Shows(out[1])' /\ (Made'.ok \/ sdk'.moved)
              \/ out' = <<out'[1], out'[2]>> /\ Announces(out[1])' /\ Shows(out[2])' /\ ~Made'.ok
  <2>1. CASE out = <<>> /\ (Made.ok \/ sdk.moved \/ ~HasStream(ERROR, level))
    <3>1. out' = <<out'[1]>> /\ out'[1] = e
      BY <1>10, <2>1
    <3>2. Shows(out[1])'
      BY <1>2, <1>6, <1>10, <3>1 DEF Shows
    <3> QED
      BY <1>2, <1>4, <1>8, <1>10, <2>1, <3>1, <3>2
  <2>2. CASE out = <<out[1]>> /\ ~Made.ok /\ Announces(out[1])
    <3>1. out' = <<out'[1], out'[2]>> /\ out'[1] = out[1] /\ out'[2] = e
      BY <1>10, <2>2, Second
    <3>2. Shows(out[2])' /\ Announces(out[1])'
      BY <1>2, <1>6, <1>10, <2>2, <3>1 DEF Shows, Announces
    <3> QED
      BY <1>4, <2>2, <3>1, <3>2
  <2> QED
    BY <1>5, <2>1, <2>2
<1>11. CASE out' = out
  <2>1. \/ out' = <<>>
        \/ out' = <<out'[1]>> /\ Announces(out[1])'
    BY <1>2, <1>5, <1>11 DEF Announces
  <2> QED
    BY <1>2, <1>3, <1>4, <1>5, <2>1 DEF SdkInv, SdkTypes, SwitchedByName, CallIsFollowed
<1>12. CASE \E e : e.log = r /\ out' = Append(out, e) /\ HasStream(l, level)
  <2>1. \/ out' = <<out'[1]>> /\ Shows(out[1])' /\ (Made'.ok \/ sdk'.moved)
        \/ out' = <<out'[1], out'[2]>> /\ Announces(out[1])' /\ Shows(out[2])' /\ ~Made'.ok
    BY <1>10, <1>12
  <2> QED
    BY <1>2, <1>3, <1>4, <1>5, <2>1 DEF SdkInv, SdkTypes, SwitchedByName, CallIsFollowed
<1> QED
  BY <1>9, <1>11, <1>12

-----------------------------------------------------------------------------
(* SdkInv is an invariant: of every step, only those of AwsLogSystem are     *)
(* taken in a call of the SDK.                                               *)

LEMMA NextSdk == SdkInv /\ [Next]_vars => SdkInv'
<1> SUFFICES ASSUME SdkInv, [Next]_vars PROVE SdkInv'
  OBVIOUS
<1>1. CASE UNCHANGED vars
  <2>1. sdk' = sdk /\ allowed' = allowed /\ named' = named /\ level' = level /\ out' = out
    BY <1>1 DEF vars
  <2> QED
    BY <2>1 DEF SdkInv, SdkTypes, SwitchedByName, CallIsFollowed, Made, Announces, Shows
<1>2. CASE EditDraft \/ EditSinks \/ EditLevel
  BY <1>2, BetweenCalls DEF EditDraft, EditSinks, EditLevel, Edit, Ready
<1>3. ASSUME NEW clear \in BOOLEAN, configure(clear) PROVE SdkInv'
  BY <1>3, BetweenCalls DEF configure, Ready
<1>4. ASSUME NEW r \in LoggedRecords, Logged(r) PROVE SdkInv'
  BY <1>4, BetweenCalls DEF Logged, Ready
<1>5. CASE vaLog
  BY <1>5, BetweenCalls DEF vaLog, Ready
<1>6. CASE Return
  BY <1>6, BetweenCalls DEF Return
<1> QED
  BY <1>1, <1>2, <1>3, <1>4, <1>5, <1>6, SetTagsKeeps, SetLogLevelKeeps, LogStreamKeeps, FailedToProcessKeeps,
     LogMessageKeeps DEF Next

(* What a call of the SDK has logged at each of its steps is what LogStream  *)
(* made of its message, whatever the level is set to meanwhile.              *)
THEOREM SdkInvariance == Spec => []SdkInv
BY InitSdk, NextSdk, PTL DEF Spec

-----------------------------------------------------------------------------
(* What the invariant says of the messages that are shown.                   *)

LEMMA SanitisedByName ==
  ASSUME SwitchedByName, NEW tag \in SanitizedTags
  PROVE  Sanitised(tag) <=> Sanitizes(tag)
<1>1. \A t \in SanitizerTags : Contains(allowed, t) <=> sanitizer_tag_to_string(t) \in Range(named)
  BY DEF SwitchedByName
<1>2. /\ Contains(allowed, ALL_TAG) <=> "ALL" \in Range(named)
      /\ Contains(allowed, AUTHV4_TAG) <=> "AUTHV4" \in Range(named)
      /\ Contains(allowed, AWSCLIENT_TAG) <=> "AWSCLIENT" \in Range(named)
      /\ Contains(allowed, CONFIG_FILE_PROFILE_TAG) <=> "CONFIG_FILE_PROFILE" \in Range(named)
      /\ Contains(allowed, CURL_HTTP_CLIENT_TAG) <=> "CURL_HTTP_CLIENT" \in Range(named)
      /\ Contains(allowed, CURL_TAG) <=> "CURL" \in Range(named)
      /\ Contains(allowed, ERROR_MARSHALLER_TAG) <=> "ERROR_MARSHALLER" \in Range(named)
  BY <1>1 DEF sanitizer_tag_to_string, SanitizerTags, ALL_TAG, AUTHV4_TAG, AWSCLIENT_TAG, CONFIG_FILE_PROFILE_TAG,
     CURL_HTTP_CLIENT_TAG, CURL_TAG, ERROR_MARSHALLER_TAG
<1>3. /\ SwitchOf["Aws::Config::ConfigFileProfileFSM"] = CONFIG_FILE_PROFILE_TAG
      /\ SwitchOf["AWSAuthV4Signer"] = AUTHV4_TAG /\ SwitchOf["AWSClient"] = AWSCLIENT_TAG
      /\ SwitchOf["AWSErrorMarshaller"] = ERROR_MARSHALLER_TAG /\ SwitchOf["CURL"] = CURL_TAG
      /\ SwitchOf["CurlHttpClient"] = CURL_HTTP_CLIENT_TAG
  BY DEF SwitchOf, SanitizedTags
<1>4. Sanitised(tag) <=> Contains(allowed, ALL_TAG) \/ Contains(allowed, SwitchOf[tag])
  BY DEF Sanitised, allowed_sanitizer_tag
<1> QED
  BY <1>2, <1>3, <1>4 DEF Sanitizes, SanitizedTags

(* The message shown is what was made of it, or the marker, which is         *)
(* announced if the level was not changed.                                   *)
LEMMA ShownIsMade ==
  ASSUME SdkInv, MessageShown # <<>>
  PROVE  /\ sdk \in Calls
         /\ MessageShown = IF Made.ok THEN Made.text ELSE <<REDACTED_TEXT>>
         /\ ~Made.ok /\ ~sdk.moved => out = <<out[1], out[2]>> /\ Announces(out[1])
<1>1. sdk.pc = "done" /\ out # <<>> /\ Last(out).log.extra = sdk.tag /\ MessageShown = Last(out).log.message
  BY DEF MessageShown
<1>2. sdk \in Calls /\ sdk # Idle
  BY <1>1, IdleIsNoCall DEF SdkInv, SdkTypes, Idle
<1>3. /\ sdk.text = IF Made.ok THEN Made.text ELSE <<REDACTED_TEXT>>
      /\ \/ out = <<out[1]>> /\ Announces(out[1])
         \/ out = <<out[1]>> /\ Shows(out[1]) /\ (Made.ok \/ sdk.moved)
         \/ out = <<out[1], out[2]>> /\ Announces(out[1]) /\ Shows(out[2]) /\ ~Made.ok
  BY <1>1, <1>2 DEF SdkInv, CallIsFollowed
<1>4. sdk.tag # NO_EXTRA
  BY <1>2, MessagesAssumption DEF Calls, SdkTags
<1>5. /\ out = <<out[1]>> => Last(out) = out[1]
      /\ out = <<out[1], out[2]>> => Last(out) = out[2]
  BY DEF Last
<1> QED
  BY <1>1, <1>2, <1>3, <1>4, <1>5 DEF Announces, Shows

(* A message without the marker is never taken for one with it.              *)
LEMMA PlainMessage ==
  ASSUME Unmarked, NEW m \in Seq(Pieces), m # <<>>
  PROVE  Last(m) # REDACTED_TEXT
<1>1. m[Len(m)] \in Pieces
  OBVIOUS
<1> QED
  BY <1>1 DEF Last, Unmarked

LEMMA SanitizedHolds ==
  ASSUME SdkInv
  PROVE  Sanitized
<1> DEFINE s   == MessageShown
           m   == sdk.message
           tag == sdk.tag
           cut == \E n \in 1 .. Len(m) : MayShow(tag, m, n) /\ s = SubSeq(m, 1, n) \o <<BLANK, REDACTED_TEXT>>
<1> SUFFICES ASSUME s # <<>>
             PROVE  CASE tag \in SanitizedTags /\ Sanitizes(tag) ->
                           s = <<REDACTED_TEXT>> \/ (s = m /\ Harmless(tag, s)) \/ cut
                      [] (tag \in SanitizedTags /\ ~Sanitizes(tag)) \/ tag \in PlainTags -> s = m
                      [] OTHER -> s = <<REDACTED_TEXT>>
  BY Zenon DEF Sanitized
<1>1. sdk \in Calls /\ s = IF Made.ok THEN Made.text ELSE <<REDACTED_TEXT>>
  BY ShownIsMade
<1>2. m \in Seq(Pieces)
  BY <1>1 DEF Calls
<1>3. \/ Made = Refused(m) /\ m # <<>> /\ MayRefuse(tag)
      \/ Made = Passed(m) /\ (m # <<>> => MayPass(tag, m))
      \/ Sanitised(tag) /\ \E n \in 1 .. Len(m) : Made = Cut(m, n) /\ MayShow(tag, m, n)
  BY <1>2, MadeOutcome DEF Made
<1>4. tag \in SanitizedTags => (Sanitised(tag) <=> Sanitizes(tag))
  BY SanitisedByName DEF SdkInv
<1>5. /\ tag \in SanitizedTags => tag \notin PlainTags
      /\ Sanitised(tag) => tag \in SanitizedTags
  BY DEF SanitizedTags, PlainTags, Sanitised
<1> HIDE DEF s, m, tag
<1>6. CASE Made = Refused(m) /\ m # <<>> /\ MayRefuse(tag)
  <2>1. s = <<REDACTED_TEXT>>
    BY <1>1, <1>6 DEF Refused
  <2> QED
    BY <1>4, <1>5, <1>6, <2>1 DEF MayRefuse
<1>7. CASE Made = Passed(m) /\ (m # <<>> => MayPass(tag, m))
  <2>1. s = m
    BY <1>1, <1>7 DEF Passed
  <2>2. MayPass(tag, m)
    BY <1>7, <2>1
  <2> QED
    BY <1>4, <1>5, <2>1, <2>2 DEF MayPass
<1>8. CASE Sanitised(tag) /\ \E n \in 1 .. Len(m) : Made = Cut(m, n) /\ MayShow(tag, m, n)
  <2>1. PICK n \in 1 .. Len(m) : Made = Cut(m, n) /\ MayShow(tag, m, n)
    BY <1>8
  <2>2. Cut(m, n).ok = TRUE /\ Cut(m, n).text = SubSeq(m, 1, n) \o <<BLANK, REDACTED_TEXT>>
    BY DEF Cut
  <2>3. s = SubSeq(m, 1, n) \o <<BLANK, REDACTED_TEXT>>
    BY <1>1, <2>1, <2>2
  <2>4. cut
    BY <2>1, <2>3, Zenon
  <2> HIDE DEF cut
  <2> QED
    BY <1>4, <1>5, <1>8, <2>4
<1> QED
  BY <1>3, <1>6, <1>7, <1>8 DEF s, m, tag

LEMMA FailureAnnouncedHolds ==
  ASSUME SdkInv, Unmarked
  PROVE  FailureAnnounced
<1> SUFFICES ASSUME MessageShown = <<REDACTED_TEXT>>, ~sdk.moved
             PROVE  Len(out) = 2 /\ out[1].log.message = <<FAILED_TEXT, sdk.tag>>
  BY DEF FailureAnnounced
<1>1. /\ sdk \in Calls
      /\ <<REDACTED_TEXT>> = IF Made.ok THEN Made.text ELSE <<REDACTED_TEXT>>
      /\ ~Made.ok => out = <<out[1], out[2]>> /\ Announces(out[1])
  <2>1. MessageShown # <<>>
    OBVIOUS
  <2> QED
    BY <2>1, ShownIsMade
<1> DEFINE m == sdk.message
<1>2. m \in Seq(Pieces)
  BY <1>1 DEF Calls
<1>3. \/ Made = Refused(m) \/ Made = Passed(m)
      \/ \E n \in 1 .. Len(m) : Made = Cut(m, n)
  BY <1>2, MadeOutcome DEF Made
<1> HIDE DEF m
<1>4. Made # Passed(m)
  <2>1. SUFFICES ASSUME Made = Passed(m) PROVE FALSE
    OBVIOUS
  <2>2. m = <<REDACTED_TEXT>>
    BY <1>1, <2>1 DEF Passed
  <2>3. m # <<>> /\ Last(m) = REDACTED_TEXT
    BY <2>2 DEF Last
  <2> QED
    BY <1>2, <2>3, PlainMessage
<1>5. \A n \in 1 .. Len(m) : Made # Cut(m, n)
  <2>1. SUFFICES ASSUME NEW n \in 1 .. Len(m), Made = Cut(m, n) PROVE FALSE
    OBVIOUS
  <2>2. n \in 0 .. Len(m) /\ Pieces \subseteq Shown /\ BLANK \in Shown /\ REDACTED_TEXT \in Shown
    BY DEF Shown
  <2>3. Cut(m, n).ok /\ Len(Cut(m, n).text) = n + 2
    BY <1>2, <2>2, CutFacts
  <2>4. Cut(m, n).text = <<REDACTED_TEXT>>
    BY <1>1, <2>1, <2>3
  <2>5. Len(<<REDACTED_TEXT>>) = 1 /\ n + 2 # 1
    OBVIOUS
  <2>6. Len(Cut(m, n).text) = 1
    BY <2>4, <2>5
  <2> QED
    BY <2>3, <2>5, <2>6
<1>6. ~Made.ok
  BY <1>3, <1>4, <1>5 DEF Refused
<1>7. out = <<out[1], out[2]>> => Len(out) = 2
  OBVIOUS
<1> QED
  BY <1>1, <1>6, <1>7 DEF Announces

(* A message of a tag that is sanitised is shown whole only if it is         *)
(* harmless, and otherwise up to the end of the phrase, the name of a        *)
(* header, the line or the type of an error it begins with, or not at all;   *)
(* a message of another known tag is not changed.                            *)
THEOREM SanitizedAlways == Spec => []Sanitized
BY SanitizedHolds, SdkInvariance, PTL

(* A message replaced as a whole is preceded by the error that says so,      *)
(* unless the level was changed while it was logged.                         *)
THEOREM FailureAnnouncedAlways == Unmarked => (Spec => []FailureAnnounced)
<1> SUFFICES ASSUME Unmarked PROVE Spec => []FailureAnnounced
  OBVIOUS
<1>1. SdkInv => FailureAnnounced
  BY FailureAnnouncedHolds
<1> QED
  BY <1>1, SdkInvariance, PTL

(* The level of AwsLogSystem that the SDK asks for before it makes a message *)
(* is the one that decides if the message is shown, whatever it is set to.   *)
THEOREM GateAgreesAlways == Spec => []GateAgrees
<1>1. GateAgrees
  BY DEF GateAgrees, GetLogLevel, octo_log_level_to_aws, aws_log_level_to_octo, HasStream, LogLevels, AwsLogLevels,
     AwsOff, AwsFatal, AwsError, AwsWarn, AwsInfo, AwsDebug, AwsTrace, TRACE, DEBUG, INFO, NOTICE, WARNING, ERROR,
     QUIET
<1> QED
  BY <1>1, PTL
=============================================================================
