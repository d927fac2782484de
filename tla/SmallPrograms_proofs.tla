-------------------------- MODULE SmallPrograms_proofs --------------------------
(***************************************************************************)
(* Theorems about the programs around powersensordaemon: sample_sensors,   *)
(* for any lines and any way they are cut, any buffer and any interval;    *)
(* usocket and serial, for any number of characters in either direction;   *)
(* and the types of all of them.  Autosample_proofs holds those about the  *)
(* autosample child.                                                       *)
(***************************************************************************)
EXTENDS SmallProgramsMC, Autosample_proofs, SequenceTheorems, FiniteSetTheorems,
        WellFoundedInduction, TLAPS

-----------------------------------------------------------------------------
(* sample_sensors *)

SampleSpec == SampleInit /\ [][SampleNext]_sampleVars

-----------------------------------------------------------------------------

(* How much of the connection has been cut into lines, and those lines. *)
Seen == Len(received) - Len(buffer)
LinesTo(s, k) == { l \in LinesOf(s) : l[2] <= k }
MovesTo(s, k) == { l \in LinesTo(s, k) : IsMovement(TextOf(s, l)) }
TempsTo(s, k) == { l \in LinesTo(s, k) : IsTemperature(TextOf(s, l)) }

(* Before a pass nothing has been received, and after select() something   *)
(* is there or the daemon is gone.                                         *)
StageInv ==
  /\ curr_time <= clock
  /\ stage = "greet" => received = <<>>
  /\ stage = "receive" => wire # <<>> \/ ~connected

(* The buffer is the end of what was received, from behind a line on.      *)
BufferInv ==
  /\ Len(buffer) <= Len(received)
  /\ \A n \in 1 .. Len(buffer) : buffer[n] = received[Seen + n]
  /\ Seen = 0 \/ received[Seen] = EndOfLine
  /\ stage # "lines" => Newlines(buffer) = {}

(* The lines cut off so far have been counted and, if that went well,      *)
(* stored.                                                                 *)
StoredInv ==
  /\ ~missed => IF TempsTo(received, Seen) = {} THEN stored = storedBefore
                ELSE \A l \in LastOf(TempsTo(received, Seen)) :
                       stored = Temperature(TextOf(received, l))
  /\ \/ stored \in {Empty, storedBefore}
     \/ \E l \in TempsTo(received, Seen) : stored = Temperature(TextOf(received, l))

CountInv ==
  /\ recorded + lost + movement_count = Cardinality(MovesTo(received, Seen))
  /\ StoredInv

InSession == stage \in {"select", "receive", "lines", "interval"}

SampleInv == SampleTypeOK /\ StageInv /\ (InSession => BufferInv /\ CountInv)

-----------------------------------------------------------------------------

LEMMA LeastOf ==
  ASSUME NEW S \in SUBSET Nat, S # {}
  PROVE  \E n \in S : \A k \in S : n <= k
<1> DEFINE R == OpToRel(<, Nat)
<1>1. PICK n \in S : \A k \in S : ~(<<k, n>> \in R)
  <2>1. IsWellFoundedOn(R, Nat)
    BY NatLessThanWellFounded
  <2> HIDE DEF R
  <2>2. QED  BY <2>1, WFMin
<1>2. \A k \in S : k \in Nat /\ n \in Nat
  OBVIOUS
<1>3. \A k \in S : k < n => <<k, n>> \in R
  BY <1>2 DEF OpToRel
<1> HIDE DEF R
<1>4. \A k \in S : ~(k < n)
  BY <1>1, <1>3
<1>5. QED  BY <1>2, <1>4

LEMMA FirstNewlineIs ==
  ASSUME NEW s \in Seq(Chars), Newlines(s) # {}
  PROVE  /\ FirstNewline(s) \in 1 .. Len(s)
         /\ s[FirstNewline(s)] = EndOfLine
         /\ \A n \in 1 .. FirstNewline(s) - 1 : s[n] # EndOfLine
<1> DEFINE N == Newlines(s)
<1>1. N \subseteq 1 .. Len(s) /\ \A n \in 1 .. Len(s) : n \in N <=> s[n] = EndOfLine
  BY DEF Newlines
<1>2. N \in SUBSET Nat
  BY <1>1
<1> HIDE DEF N
<1>3. \E n \in N : \A k \in N : n <= k
  BY <1>2, LeastOf DEF N
<1>4. FirstNewline(s) \in N /\ \A k \in N : FirstNewline(s) <= k
  BY <1>3 DEF FirstNewline, N
<1>5. Len(s) \in Nat
  OBVIOUS
<1>6. FirstNewline(s) \in 1 .. Len(s)
  BY <1>1, <1>4
<1>7. ASSUME NEW n \in 1 .. FirstNewline(s) - 1 PROVE s[n] # EndOfLine
  <2>1. n \in 1 .. Len(s) /\ ~(FirstNewline(s) <= n)
    BY <1>5, <1>6
  <2>2. QED  BY <1>1, <1>4, <2>1
<1>8. QED  BY <1>1, <1>4, <1>6, <1>7

(* A line of the first k characters of s, by its first and last character. *)
IsLine(s, a, b, k) ==
  /\ b \in 1 .. k /\ a \in 1 .. b /\ s[b] = EndOfLine
  /\ a = 1 \/ s[a - 1] = EndOfLine
  /\ \A n \in a .. b - 1 : s[n] # EndOfLine

LEMMA LinesAre ==
  ASSUME NEW s \in Seq(Chars), NEW k \in 0 .. Len(s)
  PROVE  /\ \A l \in LinesTo(s, k) : l = <<l[1], l[2]>>
         /\ \A a, b : <<a, b>> \in LinesTo(s, k) <=> IsLine(s, a, b, k)
<1>1. DOMAIN s = 1 .. Len(s) /\ Len(s) \in Nat
  OBVIOUS
<1>2. \A l \in LinesTo(s, k) : l = <<l[1], l[2]>>
  BY DEF LinesTo, LinesOf
<1>3. ASSUME NEW a, NEW b, <<a, b>> \in LinesTo(s, k) PROVE IsLine(s, a, b, k)
  <2>1. /\ a \in 1 .. Len(s) /\ b \in 1 .. Len(s) /\ a <= b /\ b <= k
        /\ s[b] = EndOfLine /\ (a = 1 \/ s[a - 1] = EndOfLine)
        /\ \A n \in a .. b - 1 : s[n] # EndOfLine
    BY <1>1, <1>3 DEF LinesTo, LinesOf
  <2>2. b \in 1 .. k /\ a \in 1 .. b
    BY <2>1
  <2>3. QED  BY <2>1, <2>2 DEF IsLine
<1>4. ASSUME NEW a, NEW b, IsLine(s, a, b, k) PROVE <<a, b>> \in LinesTo(s, k)
  <2>1. a \in 1 .. Len(s) /\ b \in 1 .. Len(s) /\ a <= b /\ b <= k
    BY <1>1, <1>4 DEF IsLine
  <2>2. QED  BY <1>1, <1>4, <2>1 DEF IsLine, LinesTo, LinesOf
<1>5. QED  BY <1>2, <1>3, <1>4

(* What follows does not change them. *)
LEMMA PrefixLines ==
  ASSUME NEW s \in Seq(Chars), NEW t \in Seq(Chars), NEW k \in 0 .. Len(s)
  PROVE  /\ LinesTo(s \o t, k) = LinesTo(s, k)
         /\ MovesTo(s \o t, k) = MovesTo(s, k)
         /\ TempsTo(s \o t, k) = TempsTo(s, k)
         /\ \A l \in LinesTo(s, k) : TextOf(s \o t, l) = TextOf(s, l)
<1> DEFINE u == s \o t
<1>1. u \in Seq(Chars) /\ k \in 0 .. Len(u)
  BY ConcatProperties
<1>2. \A n \in 1 .. k : u[n] = s[n]
  BY ConcatProperties
<1> HIDE DEF u
<1>3. ASSUME NEW a, NEW b PROVE IsLine(u, a, b, k) <=> IsLine(s, a, b, k)
  <2> SUFFICES ASSUME b \in 1 .. k, a \in 1 .. b
               PROVE  IsLine(u, a, b, k) <=> IsLine(s, a, b, k)
    BY DEF IsLine
  <2>1. u[b] = s[b] /\ (a # 1 => u[a - 1] = s[a - 1])
    BY <1>2
  <2>2. \A n \in a .. b - 1 : u[n] = s[n]
    BY <1>2
  <2>3. QED  BY <2>1, <2>2 DEF IsLine
<1>4. \A a, b : <<a, b>> \in LinesTo(u, k) <=> <<a, b>> \in LinesTo(s, k)
  BY <1>1, <1>3, LinesAre
<1>5. /\ \A l \in LinesTo(u, k) : l = <<l[1], l[2]>>
      /\ \A l \in LinesTo(s, k) : l = <<l[1], l[2]>>
  BY <1>1, LinesAre
<1>6. LinesTo(u, k) = LinesTo(s, k)
  <2>1. ASSUME NEW l \in LinesTo(u, k) PROVE l \in LinesTo(s, k)
    <3>1. l = <<l[1], l[2]>>
      BY <1>5
    <3>2. <<l[1], l[2]>> \in LinesTo(s, k)
      BY <1>4, <3>1
    <3>3. QED  BY <3>1, <3>2
  <2>2. ASSUME NEW l \in LinesTo(s, k) PROVE l \in LinesTo(u, k)
    <3>1. l = <<l[1], l[2]>>
      BY <1>5
    <3>2. <<l[1], l[2]>> \in LinesTo(u, k)
      BY <1>4, <3>1
    <3>3. QED  BY <3>1, <3>2
  <2>3. QED  BY <2>1, <2>2
<1>7. ASSUME NEW l \in LinesTo(s, k) PROVE TextOf(u, l) = TextOf(s, l)
  <2>1. IsLine(s, l[1], l[2], k)
    BY <1>5, LinesAre
  <2> DEFINE m == l[1]
             n == l[2] - 1
  <2>2. m \in 1 .. Len(s) /\ n \in 0 .. Len(s)
    BY <2>1 DEF IsLine
  <2> HIDE DEF m, n
  <2>3. SubSeq(u, m, n) = SubSeq(s, m, n)
    <3>1. CASE n = 0
      <4>1. SubSeq(u, m, n) = <<>> /\ SubSeq(s, m, n) = <<>>
        <5>1. m \in Int /\ n \in Int /\ n < m
          BY <2>2, <3>1
        <5>2. QED  BY <5>1, SubSeqEmpty
      <4>2. QED  BY <4>1
    <3>2. CASE n # 0
      <4>1. n \in 1 .. Len(s)
        BY <2>2, <3>2
      <4>2. QED  BY <2>2, <4>1, SubSeqOfConcat1 DEF u
    <3>3. QED  BY <3>1, <3>2
  <2>4. QED  BY <2>3 DEF TextOf, m, n
<1>8. QED  BY <1>6, <1>7 DEF MovesTo, TempsTo, u

(* The first line behind k. *)
LEMMA NextLine ==
  ASSUME NEW s \in Seq(Chars), NEW k \in 0 .. Len(s), k = 0 \/ s[k] = EndOfLine,
         NEW e \in k + 1 .. Len(s), s[e] = EndOfLine,
         \A n \in k + 1 .. e - 1 : s[n] # EndOfLine
  PROVE  /\ LinesTo(s, e) = LinesTo(s, k) \cup {<<k + 1, e>>}
         /\ <<k + 1, e>> \notin LinesTo(s, k)
<1>1. Len(s) \in Nat /\ k \in Nat /\ e \in Nat /\ e \in 0 .. Len(s) /\ e > k
  OBVIOUS
<1>2. IsLine(s, k + 1, e, e)
  BY <1>1 DEF IsLine
<1>3. ~ IsLine(s, k + 1, e, k)
  BY <1>1 DEF IsLine
<1>4. ASSUME NEW a, NEW b, IsLine(s, a, b, k) PROVE IsLine(s, a, b, e)
  BY <1>1, <1>4 DEF IsLine
<1>5. ASSUME NEW a, NEW b, IsLine(s, a, b, e), ~ IsLine(s, a, b, k)
      PROVE  a = k + 1 /\ b = e
  <2>1. /\ b \in 1 .. e /\ a \in 1 .. b /\ s[b] = EndOfLine
        /\ a = 1 \/ s[a - 1] = EndOfLine
        /\ \A n \in a .. b - 1 : s[n] # EndOfLine
    BY <1>5 DEF IsLine
  <2>2. b > k
    BY <1>1, <1>5, <2>1 DEF IsLine
  <2>3. b = e
    BY <1>1, <2>1, <2>2
  <2>4. ~(a <= k)
    BY <1>1, <2>1, <2>2
  <2>5. ~(a > k + 1)
    <3> SUFFICES ASSUME a > k + 1 PROVE FALSE
      OBVIOUS
    <3>1. a - 1 \in k + 1 .. e - 1 /\ a # 1
      BY <1>1, <2>1, <2>3
    <3>2. QED  BY <2>1, <3>1
  <2>6. QED  BY <1>1, <2>1, <2>3, <2>4, <2>5
<1>6. /\ \A a, b : <<a, b>> \in LinesTo(s, e) <=> IsLine(s, a, b, e)
      /\ \A a, b : <<a, b>> \in LinesTo(s, k) <=> IsLine(s, a, b, k)
      /\ \A l \in LinesTo(s, e) : l = <<l[1], l[2]>>
      /\ \A l \in LinesTo(s, k) : l = <<l[1], l[2]>>
  BY <1>1, LinesAre
<1>7. ASSUME NEW l \in LinesTo(s, e) PROVE l \in LinesTo(s, k) \cup {<<k + 1, e>>}
  <2>1. IsLine(s, l[1], l[2], e) /\ l = <<l[1], l[2]>>
    BY <1>6
  <2>2. IsLine(s, l[1], l[2], k) \/ (l[1] = k + 1 /\ l[2] = e)
    BY <1>5, <2>1
  <2>3. QED  BY <1>6, <2>1, <2>2
<1>8. ASSUME NEW l \in LinesTo(s, k) PROVE l \in LinesTo(s, e)
  <2>1. IsLine(s, l[1], l[2], k) /\ l = <<l[1], l[2]>>
    BY <1>6
  <2>2. IsLine(s, l[1], l[2], e)
    BY <1>4, <2>1
  <2>3. QED  BY <1>6, <2>1, <2>2
<1>9. <<k + 1, e>> \in LinesTo(s, e) /\ <<k + 1, e>> \notin LinesTo(s, k)
  BY <1>2, <1>3, <1>6
<1>10. QED  BY <1>7, <1>8, <1>9

LEMMA MovesFinite ==
  ASSUME NEW s \in Seq(Chars), NEW k
  PROVE  IsFiniteSet(MovesTo(s, k))
<1>1. DOMAIN s = 1 .. Len(s) /\ Len(s) \in Nat
  OBVIOUS
<1>2. IsFiniteSet(1 .. Len(s))
  BY <1>1, FS_Interval
<1>3. IsFiniteSet((1 .. Len(s)) \X (1 .. Len(s)))
  BY <1>2, FS_Product
<1>4. MovesTo(s, k) \subseteq (1 .. Len(s)) \X (1 .. Len(s))
  BY <1>1 DEF MovesTo, LinesTo, LinesOf
<1>5. QED  BY <1>3, <1>4, FS_Subset

LEMMA NoLines ==
  ASSUME NEW s \in Seq(Chars)
  PROVE  LinesTo(s, 0) = {} /\ MovesTo(s, 0) = {} /\ TempsTo(s, 0) = {}
<1>1. DOMAIN s = 1 .. Len(s) /\ Len(s) \in Nat
  OBVIOUS
<1>2. LinesTo(s, 0) = {}
  BY <1>1 DEF LinesTo, LinesOf
<1>3. QED  BY <1>2 DEF MovesTo, TempsTo

-----------------------------------------------------------------------------

LEMMA ReceivedPiece ==
  ASSUME SampleInv, NEW n \in 1 .. Len(wire)
  PROVE  /\ SubSeq(wire, 1, n) \in Seq(Chars) /\ Len(SubSeq(wire, 1, n)) = n
         /\ SubSeq(wire, n + 1, Len(wire)) \in Seq(Chars)
<1>1. wire \in Seq(Chars) /\ Len(wire) \in Nat
  BY DEF SampleInv, SampleTypeOK
<1>2. \A i \in 1 .. n : wire[i] \in Chars
  BY <1>1
<1>3. \A i \in n + 1 .. Len(wire) : wire[i] \in Chars
  BY <1>1
<1>4. QED  BY <1>1, <1>2, <1>3, SubSeqProperties

(* What CollectLine leaves in the buffer. *)
LEMMA RestIs ==
  ASSUME NEW s \in Seq(Chars), Newlines(s) # {}
  PROVE  /\ Rest(s) \in Seq(Chars)
         /\ Len(Rest(s)) = Len(s) - FirstNewline(s)
         /\ \A i \in 1 .. Len(s) - FirstNewline(s) : Rest(s)[i] = s[FirstNewline(s) + i]
<1> DEFINE e == FirstNewline(s)
<1>1. e \in 1 .. Len(s) /\ Len(s) \in Nat
  BY FirstNewlineIs
<1> HIDE DEF e
<1>2. \A i \in e + 1 .. Len(s) : s[i] \in Chars
  BY <1>1
<1>3. /\ SubSeq(s, e + 1, Len(s)) \in Seq(Chars)
      /\ Len(SubSeq(s, e + 1, Len(s))) = IF e + 1 <= Len(s) THEN Len(s) - (e + 1) + 1 ELSE 0
      /\ \A i \in 1 .. Len(s) - (e + 1) + 1 :
           SubSeq(s, e + 1, Len(s))[i] = s[(e + 1) + i - 1]
  BY <1>1, <1>2, SubSeqProperties
<1>4. Len(s) - (e + 1) + 1 = Len(s) - e /\ \A i \in 1 .. Len(s) - e : (e + 1) + i - 1 = e + i
  BY <1>1
<1> DEFINE t == SubSeq(s, e + 1, Len(s))
<1>5. t \in Seq(Chars) /\ Len(t) = Len(s) - e
  BY <1>1, <1>3
<1>6. \A i \in 1 .. Len(s) - e : t[i] = s[e + i]
  BY <1>3, <1>4
<1>7. t = Rest(s)
  BY DEF Rest, e
<1> HIDE DEF t
<1>8. QED  BY <1>5, <1>6, <1>7 DEF e

LEMMA SampleInitTyped ==
  SampleInit => SampleTypeOK /\ StageInv
<1> SUFFICES ASSUME SampleInit PROVE SampleTypeOK /\ StageInv
  OBVIOUS
<1>1. "0" \in Chars /\ Interval \in Nat /\ MaxOpened \in Nat /\ BufferSize \in Nat
  BY SampleAssumption DEF Chars
<1>2. buffer = <<>> /\ wire = <<>> /\ received = <<>> /\ Len(buffer) = 0
  BY DEF SampleInit
<1>3. SampleTypeOK
  <2>1. wire \in Seq(Chars) /\ received \in Seq(Chars) /\ buffer \in Seq(Chars)
    BY <1>2, EmptySeq
  <2>2. 0 \in 0 .. Interval + 2 /\ 0 \in 0 .. MaxOpened /\ Len(buffer) <= BufferSize
    BY <1>1, <1>2
  <2>3. QED  BY <1>1, <2>1, <2>2 DEF SampleInit, SampleTypeOK
<1>4. StageInv
  BY DEF SampleInit, StageInv
<1>5. QED  BY <1>3, <1>4

LEMMA SampleStepTyped ==
  ASSUME SampleTypeOK, StageInv, SampleInv, [SampleNext]_sampleVars
  PROVE  SampleTypeOK' /\ StageInv'
<1> USE SampleAssumption DEF local, remote, outputs, SampleTypeOK, StageInv
<1>1. CASE Connect
  <2>1. /\ stage' \in {"greet", "sleep"} /\ connected' \in BOOLEAN
        /\ wire' \in Seq(Chars) /\ received' \in Seq(Chars)
        /\ stage' = "greet" => received' = <<>>
    BY <1>1, EmptySeq DEF Connect
  <2>2. opened' \in 0 .. MaxOpened
    BY <1>1 DEF Connect
  <2>3. UNCHANGED <<listening, local, clock, outputs, storedBefore>>
    BY <1>1 DEF Connect
  <2>4. QED  BY <2>1, <2>2, <2>3
<1>2. CASE Greet
  <2>1. /\ buffer' = <<>> /\ movement_count' = 0 /\ clock' = 0 /\ curr_time' = 0
        /\ recorded' = 0 /\ lost' = 0 /\ storedBefore' = stored
        /\ stage' \in {"select", "killed"} /\ UNCHANGED <<remote, stored, opened, received>>
    BY <1>2 DEF Greet
  <2>2. missed' \in BOOLEAN
    BY <1>2 DEF Greet
  <2>3. QED  BY <2>1, <2>2
<1>3. CASE SelectReadable
  BY <1>3 DEF SelectReadable
<1>4. CASE SelectIdle
  BY <1>4 DEF SelectIdle
<1>5. CASE Receive
  <2>1. CASE wire = <<>> \/ Room = 0
    BY <1>5, <2>1 DEF Receive
  <2>2. CASE ~(wire = <<>> \/ Room = 0)
    <3>1. PICK n \in 1 .. Len(wire) :
            /\ n <= Room
            /\ buffer' = buffer \o SubSeq(wire, 1, n)
            /\ received' = received \o SubSeq(wire, 1, n)
            /\ wire' = SubSeq(wire, n + 1, Len(wire))
            /\ stage' = "lines"
      BY <1>5, <2>2 DEF Receive
    <3>2. /\ UNCHANGED <<listening, connected, movement_count, clock, curr_time, outputs, opened,
                         storedBefore>>
      BY <1>5 DEF Receive
    <3>3. /\ SubSeq(wire, 1, n) \in Seq(Chars) /\ Len(SubSeq(wire, 1, n)) = n
          /\ wire' \in Seq(Chars)
      BY <3>1, ReceivedPiece
    <3>4. buffer' \in Seq(Chars) /\ Len(buffer') = Len(buffer) + n /\ received' \in Seq(Chars)
      BY <3>1, <3>3, ConcatProperties
    <3>5. Len(buffer') <= BufferSize
      <4>1. Len(buffer) \in Nat /\ n \in Nat /\ BufferSize \in Nat /\ n <= BufferSize - Len(buffer)
        BY <3>1 DEF Room
      <4>2. QED  BY <3>4, <4>1
    <3>6. QED  BY <3>1, <3>2, <3>3, <3>4, <3>5
  <2>3. QED  BY <2>1, <2>2
<1>6. CASE CollectLine
  <2>1. buffer' = Rest(buffer) /\ Newlines(buffer) # {} /\ stage = "lines"
    BY <1>6 DEF CollectLine
  <2>2. buffer' \in Seq(Chars) /\ Len(buffer') <= BufferSize
    <3>1. FirstNewline(buffer) \in 1 .. Len(buffer) /\ Len(buffer) \in Nat
      BY <2>1, FirstNewlineIs
    <3>2. buffer' \in Seq(Chars) /\ Len(buffer') = Len(buffer) - FirstNewline(buffer)
      BY <2>1, RestIs
    <3>3. QED  BY <3>1, <3>2
  <2> DEFINE m == SubSeq(buffer, 1, FirstNewline(buffer) - 1)
  <2>3. m \in Seq(Chars)
    <3>1. FirstNewline(buffer) \in 1 .. Len(buffer) /\ Len(buffer) \in Nat
      BY <2>1, FirstNewlineIs
    <3>2. \A i \in 1 .. FirstNewline(buffer) - 1 : buffer[i] \in Chars
      BY <3>1
    <3>3. QED  BY <3>1, <3>2, SubSeqProperties
  <2>4. /\ movement_count' = movement_count + (IF IsMovement(m) THEN 1 ELSE 0)
        /\ stored' \in {stored, Temperature(m), Empty} /\ missed' \in {missed, TRUE, FALSE}
        /\ UNCHANGED <<stage, listening, connected, wire, clock, curr_time, recorded, lost, opened,
                       received, storedBefore>>
    BY <1>6 DEF CollectLine, Store
  <2> HIDE DEF m
  <2>5. stored' \in Chars \cup {Empty} /\ missed' \in BOOLEAN
    <3>1. "0" \in Chars
      BY DEF Chars
    <3>2. Temperature(m) \in Chars
      BY <2>3, <3>1 DEF Temperature
    <3>3. stored' \in Chars \cup {Empty}
      BY <2>4, <3>2
    <3>4. missed' \in BOOLEAN
      BY <2>4
    <3>5. QED  BY <3>3, <3>4
  <2>6. movement_count' \in Nat
    BY <2>4
  <2>7. QED  BY <2>1, <2>2, <2>4, <2>5, <2>6
<1>7. CASE LinesDone
  BY <1>7 DEF LinesDone
<1>8. CASE Record
  BY <1>8 DEF Record
<1>9. CASE Retry
  BY <1>9 DEF Retry
<1>10. CASE Say
  <2>1. PICK m \in ServerLines : wire' = wire \o m
    BY <1>10 DEF Say
  <2>2. m \in Seq(Chars)
    OBVIOUS
  <2>3. wire' \in Seq(Chars) /\ Len(wire') = Len(wire) + Len(m)
    BY <2>1, <2>2, ConcatProperties
  <2>4. wire # <<>> => wire' # <<>>
    <3>1. Len(wire) \in Nat /\ Len(m) \in Nat /\ (Len(wire') = 0 <=> wire' = <<>>)
          /\ (Len(wire) = 0 <=> wire = <<>>)
      BY <2>2, <2>3, EmptySeq
    <3>2. QED  BY <2>3, <3>1
  <2>5. UNCHANGED <<stage, listening, connected, local, clock, outputs, opened, received,
                    storedBefore>>
    BY <1>10 DEF Say
  <2>6. QED  BY <2>3, <2>4, <2>5
<1>11. CASE Drop
  BY <1>11 DEF Drop
<1>12. CASE Return
  BY <1>12 DEF Return
<1>13. CASE Second
  BY <1>13 DEF Second
<1>14. CASE SampleKilled \/ UNCHANGED sampleVars
  BY <1>14 DEF SampleKilled, sampleVars
<1>15. QED
  BY <1>1, <1>2, <1>3, <1>4, <1>5, <1>6, <1>7, <1>8, <1>9, <1>10, <1>11, <1>12, <1>13, <1>14
     DEF SampleNext, SampleStep


LEMMA InitSampled ==
  SampleInit => SampleInv
<1> SUFFICES ASSUME SampleInit PROVE SampleInv
  OBVIOUS
<1>1. SampleTypeOK /\ StageInv
  BY SampleInitTyped
<1>2. ~InSession
  BY DEF SampleInit, InSession
<1>3. QED  BY <1>1, <1>2 DEF SampleInv

(* A step that leaves what is counted alone. *)
LEMMA SessionKept ==
  ASSUME SampleInv, InSession,
         UNCHANGED <<buffer, received, movement_count, outputs, storedBefore>>,
         stage' # "lines" => stage # "lines" \/ Newlines(buffer) = {}
  PROVE  BufferInv' /\ CountInv'
<1>1. Seen' = Seen
  BY DEF Seen
<1>2. BufferInv'
  BY <1>1 DEF SampleInv, BufferInv, Newlines
<1>3. CountInv'
  BY <1>1 DEF SampleInv, CountInv, StoredInv, outputs
<1>4. QED  BY <1>2, <1>3

LEMMA GreetSession ==
  ASSUME SampleInv, Greet
  PROVE  InSession' => BufferInv' /\ CountInv'
<1>1. /\ received' = <<>> /\ buffer' = <<>> /\ recorded' = 0 /\ movement_count' = 0
      /\ lost' = 0 /\ stored' = stored /\ storedBefore' = stored
  BY DEF Greet, SampleInv, StageInv
<1>2. Seen' = 0 /\ Len(buffer') = 0 /\ Len(received') = 0
  BY <1>1 DEF Seen
<1>3. received' \in Seq(Chars)
  BY <1>1, EmptySeq
<1>4. MovesTo(received', 0) = {} /\ TempsTo(received', 0) = {}
  BY <1>3, NoLines
<1>5. BufferInv'
  BY <1>1, <1>2 DEF BufferInv, Newlines
<1>6. CountInv'
  <2>1. Cardinality(MovesTo(received', 0)) = 0
    BY <1>4, FS_EmptySet
  <2>2. QED  BY <1>1, <1>2, <1>4, <2>1 DEF CountInv, StoredInv
<1>7. QED  BY <1>5, <1>6

LEMMA ReceiveSession ==
  ASSUME SampleInv, Receive, InSession'
  PROVE  BufferInv' /\ CountInv'
<1>t. /\ buffer \in Seq(Chars) /\ received \in Seq(Chars) /\ Len(buffer) \in Nat
      /\ Len(received) \in Nat /\ wire \in Seq(Chars)
  BY DEF SampleInv, SampleTypeOK
<1>1. PICK n \in 1 .. Len(wire) :
        /\ buffer' = buffer \o SubSeq(wire, 1, n)
        /\ received' = received \o SubSeq(wire, 1, n)
        /\ stage' = "lines"
  BY DEF Receive, InSession
<1> DEFINE t == SubSeq(wire, 1, n)
<1>2. t \in Seq(Chars) /\ Len(t) = n /\ n \in Nat
  BY <1>1, ReceivedPiece
<1>3. /\ stage = "receive"
      /\ UNCHANGED <<movement_count, recorded, lost, stored, missed, storedBefore>>
  BY DEF Receive, outputs
<1>4. BufferInv /\ CountInv
  BY <1>3 DEF SampleInv, InSession
<1>5. buffer' = buffer \o t /\ received' = received \o t
  BY <1>1
<1> HIDE DEF t
<1>6. /\ Len(buffer') = Len(buffer) + n /\ Len(received') = Len(received) + n
      /\ \A i \in 1 .. Len(buffer) + n :
           buffer'[i] = IF i <= Len(buffer) THEN buffer[i] ELSE t[i - Len(buffer)]
      /\ \A i \in 1 .. Len(received) + n :
           received'[i] = IF i <= Len(received) THEN received[i] ELSE t[i - Len(received)]
  BY <1>t, <1>2, <1>5, ConcatProperties
<1>7. Seen' = Seen /\ Seen \in 0 .. Len(received)
  BY <1>t, <1>2, <1>4, <1>6 DEF Seen, BufferInv
<1>8. ASSUME NEW i \in 1 .. Len(buffer') PROVE buffer'[i] = received'[Seen + i]
  <2>0. /\ i \in 1 .. Len(buffer) + n /\ Seen + i \in 1 .. Len(received) + n
        /\ Seen + i - Len(received) = i - Len(buffer)
    BY <1>t, <1>2, <1>6, <1>7 DEF Seen
  <2>1. CASE i <= Len(buffer)
    <3>1. Seen + i <= Len(received) /\ i \in 1 .. Len(buffer)
      BY <1>t, <2>0, <2>1 DEF Seen
    <3>2. buffer[i] = received[Seen + i]
      BY <1>4, <3>1 DEF BufferInv
    <3>3. QED  BY <1>6, <2>0, <2>1, <3>1, <3>2
  <2>2. CASE ~(i <= Len(buffer))
    <3>1. ~(Seen + i <= Len(received))
      BY <1>t, <2>0, <2>2 DEF Seen
    <3>2. buffer'[i] = t[i - Len(buffer)]
      BY <1>6, <2>0, <2>2
    <3>3. received'[Seen + i] = t[Seen + i - Len(received)]
      <4>1. \A j \in 1 .. Len(received) + n :
              ~(j <= Len(received)) => received'[j] = t[j - Len(received)]
        BY <1>6
      <4>2. PICK j \in 1 .. Len(received) + n : j = Seen + i
        BY <2>0
      <4>3. ~(j <= Len(received))
        BY <3>1, <4>2
      <4>4. received'[j] = t[j - Len(received)]
        BY <4>1, <4>3
      <4>5. QED  BY <1>t, <1>7, <4>2, <4>4
    <3>4. QED  BY <2>0, <3>2, <3>3
  <2>3. QED  BY <2>1, <2>2
<1>9. Seen = 0 \/ received'[Seen] = EndOfLine
  <2> SUFFICES ASSUME Seen # 0 PROVE received'[Seen] = EndOfLine
    OBVIOUS
  <2>1. Seen \in 1 .. Len(received) + n /\ Seen <= Len(received)
    BY <1>t, <1>2, <1>7
  <2>2. received'[Seen] = received[Seen]
    BY <1>6, <2>1
  <2>3. QED  BY <1>4, <2>2 DEF BufferInv
<1>10. Len(buffer') <= Len(received')
  BY <1>t, <1>2, <1>4, <1>6 DEF BufferInv
<1>11. BufferInv'
  BY <1>1, <1>7, <1>8, <1>9, <1>10 DEF BufferInv
<1>12. CountInv'
  <2>1. /\ MovesTo(received', Seen) = MovesTo(received, Seen)
        /\ TempsTo(received', Seen) = TempsTo(received, Seen)
        /\ \A l \in LinesTo(received, Seen) : TextOf(received', l) = TextOf(received, l)
    BY <1>t, <1>2, <1>5, <1>7, PrefixLines
  <2>2. \A l \in LastOf(TempsTo(received, Seen)) : l \in LinesTo(received, Seen)
    BY DEF LastOf, TempsTo
  <2>3. /\ \A l \in LastOf(TempsTo(received, Seen)) : TextOf(received', l) = TextOf(received, l)
        /\ \A l \in TempsTo(received, Seen) : TextOf(received', l) = TextOf(received, l)
    BY <2>1, <2>2 DEF TempsTo
  <2>4. Cardinality(MovesTo(received', Seen')) = Cardinality(MovesTo(received, Seen))
    BY <1>7, <2>1
  <2>5. TempsTo(received', Seen') = TempsTo(received, Seen)
    BY <1>7, <2>1
  <2>6. StoredInv'
    BY <1>3, <1>4, <2>3, <2>5 DEF CountInv, StoredInv
  <2>7. QED  BY <1>3, <1>4, <2>4, <2>6 DEF CountInv
<1>13. QED  BY <1>11, <1>12


(* The line CollectLine cuts off the buffer is the next one received. *)
LEMMA NextIsFirst ==
  ASSUME SampleInv, stage = "lines", Newlines(buffer) # {},
         NEW m, m = SubSeq(buffer, 1, FirstNewline(buffer) - 1),
         NEW e, e = Seen + FirstNewline(buffer)
  PROVE  /\ Seen \in Nat /\ e \in Seen + 1 .. Len(received) /\ received[e] = EndOfLine
         /\ LinesTo(received, e) = LinesTo(received, Seen) \cup {<<Seen + 1, e>>}
         /\ <<Seen + 1, e>> \notin LinesTo(received, Seen)
         /\ TextOf(received, <<Seen + 1, e>>) = m
<1> DEFINE f == FirstNewline(buffer)
<1>t. /\ buffer \in Seq(Chars) /\ received \in Seq(Chars) /\ Len(buffer) \in Nat
      /\ Len(received) \in Nat
  BY DEF SampleInv, SampleTypeOK
<1>f. /\ f \in 1 .. Len(buffer) /\ buffer[f] = EndOfLine
      /\ \A n \in 1 .. f - 1 : buffer[n] # EndOfLine
  BY <1>t, FirstNewlineIs
<1>b. /\ Len(buffer) <= Len(received) /\ \A n \in 1 .. Len(buffer) : buffer[n] = received[Seen + n]
      /\ Seen = 0 \/ received[Seen] = EndOfLine
  BY DEF SampleInv, InSession, BufferInv
<1>e. e = Seen + f
  OBVIOUS
<1> HIDE DEF f
<1>1. /\ Seen \in 0 .. Len(received) /\ e \in Seen + 1 .. Len(received)
      /\ Seen + Len(buffer) = Len(received)
  BY <1>t, <1>f, <1>b, <1>e DEF Seen
<1>2. received[e] = EndOfLine
  BY <1>f, <1>b, <1>e
<1>3. \A n \in Seen + 1 .. e - 1 : received[n] # EndOfLine
  <2> SUFFICES ASSUME NEW n \in Seen + 1 .. e - 1 PROVE received[n] # EndOfLine
    OBVIOUS
  <2>1. n - Seen \in 1 .. f - 1 /\ n - Seen \in 1 .. Len(buffer) /\ Seen + (n - Seen) = n
    BY <1>t, <1>f, <1>e, <1>1
  <2>2. buffer[n - Seen] = received[Seen + (n - Seen)] /\ buffer[n - Seen] # EndOfLine
    BY <1>f, <1>b, <2>1
  <2>3. QED  BY <2>1, <2>2
<1>4. /\ LinesTo(received, e) = LinesTo(received, Seen) \cup {<<Seen + 1, e>>}
      /\ <<Seen + 1, e>> \notin LinesTo(received, Seen)
  <2> DEFINE k == Seen
  <2>1. k \in 0 .. Len(received) /\ e \in k + 1 .. Len(received)
    BY <1>1
  <2>2. received[e] = EndOfLine /\ (k = 0 \/ received[k] = EndOfLine)
        /\ \A n \in k + 1 .. e - 1 : received[n] # EndOfLine
    BY <1>b, <1>2, <1>3
  <2> HIDE DEF k
  <2>3. /\ LinesTo(received, e) = LinesTo(received, k) \cup {<<k + 1, e>>}
        /\ <<k + 1, e>> \notin LinesTo(received, k)
    BY <1>t, <2>1, <2>2, NextLine
  <2>4. QED  BY <2>3 DEF k
<1>5. SubSeq(received, Seen + 1, e - 1) = SubSeq(buffer, 1, f - 1)
  <2> DEFINE u == SubSeq(received, Seen + 1, e - 1)
             v == SubSeq(buffer, 1, f - 1)
             w == f - 1
  <2>0. w \in Nat /\ e - 1 = Seen + w /\ Seen \in Nat /\ e - 1 <= Len(received)
        /\ w <= Len(buffer)
    BY <1>t, <1>f, <1>e, <1>1
  <2> HIDE DEF w
  <2>1. /\ v \in Seq(Chars) /\ Len(v) = w /\ \A i \in 1 .. w : v[i] = buffer[i]
    <3>1. \A i \in 1 .. w : buffer[i] \in Chars
      BY <1>t, <2>0
    <3>2. /\ SubSeq(buffer, 1, w) \in Seq(Chars)
          /\ Len(SubSeq(buffer, 1, w)) = IF 1 <= w THEN w - 1 + 1 ELSE 0
          /\ \A i \in 1 .. w - 1 + 1 : SubSeq(buffer, 1, w)[i] = buffer[1 + i - 1]
      BY <2>0, <3>1, SubSeqProperties
    <3>3. w - 1 + 1 = w /\ \A i \in 1 .. w : 1 + i - 1 = i
      BY <2>0
    <3>4. v = SubSeq(buffer, 1, w)
      BY DEF w
    <3> HIDE DEF v
    <3>5. \A i \in 1 .. w : v[i] = buffer[i]
      BY <3>2, <3>3, <3>4
    <3>6. QED  BY <2>0, <3>2, <3>4, <3>5
  <2>2. /\ u \in Seq(Chars) /\ Len(u) = w /\ \A i \in 1 .. w : u[i] = received[Seen + i]
    <3> DEFINE a == Seen + 1
               z == Seen + w
    <3>0. a \in Int /\ z \in Int /\ z - a + 1 = w /\ (a <= z <=> 1 <= w)
      BY <2>0
    <3>1. \A i \in a .. z : received[i] \in Chars
      BY <1>t, <2>0
    <3>4. u = SubSeq(received, a, z)
      BY <2>0
    <3>3. \A i \in 1 .. w : a + i - 1 = Seen + i
      BY <2>0
    <3> HIDE DEF a, z, u
    <3>2. /\ SubSeq(received, a, z) \in Seq(Chars)
          /\ Len(SubSeq(received, a, z)) = IF a <= z THEN z - a + 1 ELSE 0
          /\ \A i \in 1 .. z - a + 1 : SubSeq(received, a, z)[i] = received[a + i - 1]
      BY <3>0, <3>1, SubSeqProperties
    <3>5. \A i \in 1 .. w : u[i] = received[Seen + i]
      BY <3>0, <3>2, <3>3, <3>4
    <3>6. u \in Seq(Chars)
      BY <3>2, <3>4
    <3>7. w \in Nat
      BY <2>0
    <3>8. Len(u) = w
      BY <3>0, <3>2, <3>4, <3>7
    <3>9. QED  BY <3>5, <3>6, <3>8
  <2>3. \A i \in 1 .. w : u[i] = v[i]
    <3> HIDE DEF u, v
    <3> SUFFICES ASSUME NEW i \in 1 .. w PROVE u[i] = v[i]
      OBVIOUS
    <3>1. i \in 1 .. Len(buffer)
      BY <1>t, <2>0
    <3>2. QED  BY <1>b, <2>1, <2>2, <3>1
  <2> HIDE DEF u, v
  <2>4. u = v
    BY <2>1, <2>2, <2>3, SeqEqual
  <2>5. QED  BY <2>4 DEF u, v
<1>6. TextOf(received, <<Seen + 1, e>>) = m
  BY <1>5 DEF TextOf, f
<1>7. QED  BY <1>1, <1>2, <1>4, <1>6

LEMMA CollectSession ==
  ASSUME SampleInv, CollectLine
  PROVE  BufferInv' /\ CountInv'
<1> DEFINE f == FirstNewline(buffer)
           e == Seen + f
           m == SubSeq(buffer, 1, f - 1)
           new == <<Seen + 1, e>>
<1>t. /\ buffer \in Seq(Chars) /\ received \in Seq(Chars) /\ Len(buffer) \in Nat
      /\ Len(received) \in Nat /\ recorded \in Nat /\ lost \in Nat /\ movement_count \in Nat
  BY DEF SampleInv, SampleTypeOK
<1>1. /\ stage = "lines" /\ Newlines(buffer) # {} /\ buffer' = Rest(buffer)
      /\ UNCHANGED <<stage, recorded, lost, received, storedBefore>>
      /\ movement_count' = movement_count + (IF IsMovement(m) THEN 1 ELSE 0)
      /\ \/ IsTemperature(m) /\ stored' = Temperature(m)
         \/ IsTemperature(m) /\ stored' \in {stored, Empty} /\ missed'
         \/ ~IsTemperature(m) /\ stored' = stored /\ missed' = missed
  BY DEF CollectLine, Store
<1>2. BufferInv /\ CountInv
  BY <1>1 DEF SampleInv, InSession
<1>3. /\ Seen \in Nat /\ e \in Seen + 1 .. Len(received) /\ received[e] = EndOfLine
      /\ LinesTo(received, e) = LinesTo(received, Seen) \cup {new}
      /\ new \notin LinesTo(received, Seen)
      /\ TextOf(received, new) = m
  BY <1>1, NextIsFirst
<1>4. f \in 1 .. Len(buffer)
  BY <1>t, <1>1, FirstNewlineIs
<1>5. /\ Len(buffer') = Len(buffer) - f
      /\ \A i \in 1 .. Len(buffer) - f : buffer'[i] = buffer[f + i]
  BY <1>t, <1>1, RestIs
<1>n. new[2] = e
  OBVIOUS
<1>e. e = Seen + f
  OBVIOUS
<1> HIDE DEF f, e, m, new
<1>6. Seen' = e
  BY <1>t, <1>1, <1>4, <1>5, <1>e DEF Seen
<1>7. BufferInv'
  <2>1. Len(buffer') <= Len(received')
    BY <1>t, <1>1, <1>2, <1>4, <1>5 DEF BufferInv
  <2>2. ASSUME NEW i \in 1 .. Len(buffer') PROVE buffer'[i] = received'[Seen' + i]
    <3>1. f + i \in 1 .. Len(buffer) /\ Seen + (f + i) = e + i /\ i \in 1 .. Len(buffer) - f
      BY <1>t, <1>3, <1>4, <1>5, <1>e
    <3>2. buffer'[i] = buffer[f + i]
      BY <1>5, <3>1
    <3>3. buffer[f + i] = received[Seen + (f + i)]
      BY <1>2, <3>1 DEF BufferInv
    <3>4. QED  BY <1>1, <1>6, <3>1, <3>2, <3>3
  <2>3. QED  BY <1>1, <1>3, <1>6, <2>1, <2>2 DEF BufferInv
<1>8. recorded' + lost' + movement_count' = Cardinality(MovesTo(received', Seen'))
  <2>1. IsFiniteSet(MovesTo(received, Seen))
    BY <1>t, MovesFinite
  <2>2. recorded + lost + movement_count = Cardinality(MovesTo(received, Seen))
    BY <1>2 DEF CountInv
  <2>3. CASE IsMovement(m)
    <3>1. MovesTo(received, e) = MovesTo(received, Seen) \cup {new}
      BY <1>3, <2>3 DEF MovesTo
    <3>2. new \notin MovesTo(received, Seen)
      BY <1>3 DEF MovesTo
    <3>3. Cardinality(MovesTo(received, e)) = Cardinality(MovesTo(received, Seen)) + 1
      BY <2>1, <3>1, <3>2, FS_AddElement
    <3>4. QED  BY <1>t, <1>1, <1>6, <2>2, <2>3, <3>3
  <2>4. CASE ~IsMovement(m)
    <3>1. MovesTo(received, e) = MovesTo(received, Seen)
      BY <1>3, <2>4 DEF MovesTo
    <3>2. QED  BY <1>t, <1>1, <1>6, <2>2, <2>4, <3>1
  <2>5. QED  BY <2>3, <2>4
<1>9. StoredInv'
  <2>1. StoredInv
    BY <1>2 DEF CountInv
  <2>2. CASE IsTemperature(m)
    <3>1. TempsTo(received, e) = TempsTo(received, Seen) \cup {new}
      BY <1>3, <2>2 DEF TempsTo
    <3>2. \A l \in TempsTo(received, Seen) : ~(new[2] <= l[2])
      <4>1. \A l \in TempsTo(received, Seen) : l[2] <= Seen /\ l[2] \in Nat
        BY <1>t DEF TempsTo, LinesTo, LinesOf
      <4>2. QED  BY <1>3, <1>n, <4>1
    <3>3. \A l \in LastOf(TempsTo(received, e)) : l = new
      BY <3>1, <3>2 DEF LastOf
    <3>4. new \in TempsTo(received', Seen') /\ TextOf(received', new) = m
      BY <1>1, <1>3, <1>6, <3>1
    <3>5. \A l \in LastOf(TempsTo(received', Seen')) : l = new
      BY <1>1, <1>6, <3>3
    <3>6. CASE stored' = Temperature(m)
      BY <3>4, <3>5, <3>6 DEF StoredInv
    <3>7. CASE stored' \in {stored, Empty} /\ missed'
      <4>1. \A l \in TempsTo(received, Seen) : l \in TempsTo(received', Seen')
        BY <1>1, <1>6, <3>1
      <4>2. received' = received /\ storedBefore' = storedBefore
        BY <1>1
      <4>3. \/ stored' \in {Empty, storedBefore'}
            \/ \E l \in TempsTo(received', Seen') : stored' = Temperature(TextOf(received', l))
        BY <2>1, <3>7, <4>1, <4>2 DEF StoredInv
      <4>4. QED  BY <3>7, <4>3 DEF StoredInv
    <3>8. QED  BY <1>1, <2>2, <3>6, <3>7
  <2>3. CASE ~IsTemperature(m)
    <3>1. TempsTo(received, e) = TempsTo(received, Seen)
      BY <1>3, <2>3 DEF TempsTo
    <3>2. stored' = stored /\ UNCHANGED <<received, storedBefore, missed>> /\ Seen' = e
      BY <1>1, <1>6, <2>3
    <3>3. TempsTo(received', Seen') = TempsTo(received, Seen)
      BY <3>1, <3>2
    <3>4. QED  BY <2>1, <3>2, <3>3 DEF StoredInv
  <2>4. QED  BY <2>2, <2>3
<1>10. QED  BY <1>7, <1>8, <1>9 DEF CountInv

LEMMA RecordSession ==
  ASSUME SampleInv, Record
  PROVE  BufferInv' /\ CountInv'
<1>1. /\ UNCHANGED <<buffer, received, stored, missed, storedBefore>> /\ stage = "interval"
      /\ recorded' + lost' + movement_count' = recorded + lost + movement_count
  BY DEF Record, SampleInv, SampleTypeOK
<1>2. BufferInv /\ CountInv /\ Seen' = Seen
  BY <1>1 DEF SampleInv, InSession, Seen
<1>3. BufferInv'
  BY <1>1, <1>2 DEF BufferInv, Newlines
<1>4. CountInv'
  BY <1>1, <1>2 DEF CountInv, StoredInv
<1>5. QED  BY <1>3, <1>4

LEMMA StepSampled ==
  SampleInv /\ [SampleNext]_sampleVars => SampleInv'
<1> SUFFICES ASSUME SampleInv, [SampleNext]_sampleVars PROVE SampleInv'
  OBVIOUS
<1>1. SampleTypeOK' /\ StageInv'
  BY SampleStepTyped DEF SampleInv
<1>2. InSession' => BufferInv' /\ CountInv'
  <2> USE DEF local, remote, outputs
  <2>1. CASE Connect
    BY <2>1 DEF Connect, InSession
  <2>2. CASE Greet
    BY <2>2, GreetSession
  <2>3. CASE SelectReadable
    BY <2>3, SessionKept DEF SelectReadable, InSession
  <2>4. CASE SelectIdle
    BY <2>4, SessionKept DEF SelectIdle, InSession
  <2>5. CASE Receive
    BY <2>5, ReceiveSession
  <2>6. CASE CollectLine
    BY <2>6, CollectSession
  <2>7. CASE LinesDone
    BY <2>7, SessionKept DEF LinesDone, InSession
  <2>8. CASE Record
    BY <2>8, RecordSession
  <2>9. CASE Retry
    BY <2>9 DEF Retry, InSession
  <2>10. CASE Say \/ Drop \/ Return \/ Second
    <3>1. UNCHANGED <<stage, buffer, received, movement_count, outputs, storedBefore>>
      BY <2>10 DEF Say, Drop, Return, Second
    <3>2. QED  BY <3>1, SessionKept DEF InSession
  <2>11. CASE SampleKilled \/ UNCHANGED sampleVars
    <3>1. UNCHANGED <<stage, buffer, received, movement_count, outputs, storedBefore>>
      BY <2>11 DEF SampleKilled, sampleVars
    <3>2. QED  BY <3>1, SessionKept DEF InSession
  <2>12. QED
    BY <2>1, <2>2, <2>3, <2>4, <2>5, <2>6, <2>7, <2>8, <2>9, <2>10, <2>11
       DEF SampleNext, SampleStep
<1>3. QED  BY <1>1, <1>2 DEF SampleInv

(* With no newline in the buffer, all lines received have been cut off. *)
LEMMA SampledFromInv ==
  ASSUME SampleInv PROVE SamplesWhatWasSaid
<1> SUFFICES ASSUME stage \in {"select", "interval"}
             PROVE  /\ recorded + lost + movement_count =
                         Cardinality({ l \in LinesOf(received) : IsMovement(TextOf(received, l)) })
                    /\ LET temperatures ==
                             { l \in LinesOf(received) : IsTemperature(TextOf(received, l)) }
                       IN /\ ~missed =>
                               IF temperatures = {} THEN stored = storedBefore
                               ELSE \A l \in LastOf(temperatures) :
                                      stored = Temperature(TextOf(received, l))
                          /\ \/ stored \in {Empty, storedBefore}
                             \/ \E l \in temperatures : stored = Temperature(TextOf(received, l))
  BY DEF SamplesWhatWasSaid
<1>t. /\ buffer \in Seq(Chars) /\ received \in Seq(Chars) /\ Len(buffer) \in Nat
      /\ Len(received) \in Nat
  BY DEF SampleInv, SampleTypeOK
<1>1. BufferInv /\ CountInv /\ Newlines(buffer) = {}
  BY DEF SampleInv, InSession, BufferInv
<1>2. \A n \in 1 .. Len(buffer) : received[Seen + n] # EndOfLine
  BY <1>t, <1>1 DEF BufferInv, Newlines
<1>3. ASSUME NEW l \in LinesOf(received) PROVE l[2] <= Seen
  <2>1. l[2] \in 1 .. Len(received) /\ received[l[2]] = EndOfLine
    BY <1>t DEF LinesOf
  <2> SUFFICES ASSUME l[2] > Seen PROVE FALSE
    BY <1>t, <2>1 DEF Seen
  <2>2. l[2] - Seen \in 1 .. Len(buffer) /\ Seen + (l[2] - Seen) = l[2]
    BY <1>t, <2>1 DEF Seen
  <2>3. received[Seen + (l[2] - Seen)] # EndOfLine
    BY <1>2, <2>2
  <2>4. QED  BY <2>1, <2>2, <2>3
<1>4. LinesTo(received, Seen) = LinesOf(received)
  BY <1>3 DEF LinesTo
<1>5. QED  BY <1>1, <1>4 DEF CountInv, StoredInv, MovesTo, TempsTo

-----------------------------------------------------------------------------

(* The types, and the size of the buffer (SampleTypeOK). *)
THEOREM SampleTyped == SampleSpec => []SampleTypeOK
<1>1. SampleInit => SampleInv
  BY InitSampled
<1>2. SampleInv /\ [SampleNext]_sampleVars => SampleInv'
  BY StepSampled
<1>3. SampleInv => SampleTypeOK
  BY DEF SampleInv
<1>4. QED  BY <1>1, <1>2, <1>3, PTL DEF SampleSpec

(* Wherever the stream is cut, each movement is counted once, or goes with *)
(* an update that failed, and the file holds the last temperature unless   *)
(* storing it failed (SamplesWhatWasSaid).                                 *)
THEOREM CountsEachMovement == SampleSpec => []SamplesWhatWasSaid
<1>1. SampleInit => SampleInv
  BY InitSampled
<1>2. SampleInv /\ [SampleNext]_sampleVars => SampleInv'
  BY StepSampled
<1>3. SampleInv => SamplesWhatWasSaid
  BY SampledFromInv
<1>4. QED  BY <1>1, <1>2, <1>3, PTL DEF SampleSpec

LEMMA GivesUp ==
  ASSUME SampleInv, [SampleNext]_sampleVars, stage = "receive", stage' = "sleep"
  PROVE  \/ ~connected /\ wire = <<>>
         \/ \E n \in DOMAIN (received \o wire) :
              /\ n + BufferSize - 1 \in DOMAIN (received \o wire)
              /\ \A k \in n .. n + BufferSize - 1 : (received \o wire)[k] # EndOfLine
<1>t. /\ buffer \in Seq(Chars) /\ received \in Seq(Chars) /\ Len(buffer) \in Nat
      /\ Len(received) \in Nat /\ wire \in Seq(Chars) /\ Len(wire) \in Nat
      /\ BufferSize \in Nat \ {0}
  BY SampleAssumption DEF SampleInv, SampleTypeOK
<1>1. Receive
  BY DEF SampleNext, SampleStep, Connect, Greet, SelectReadable, SelectIdle, CollectLine,
         LinesDone, Record, Retry, SampleKilled, Say, Drop, Return, Second, sampleVars
<1>2. wire = <<>> \/ Room = 0
  BY <1>1 DEF Receive
<1>3. CASE wire = <<>>
  BY <1>3 DEF SampleInv, StageInv
<1>4. CASE Room = 0
  <2>1. BufferInv /\ Newlines(buffer) = {}
    BY DEF SampleInv, InSession, BufferInv
  <2> DEFINE u == received \o wire
  <2>2. /\ u \in Seq(Chars) /\ DOMAIN u = 1 .. Len(received) + Len(wire)
        /\ \A k \in 1 .. Len(received) : u[k] = received[k]
    BY <1>t, ConcatProperties
  <2> HIDE DEF u
  <2>3. Len(buffer) = BufferSize
    BY <1>t, <1>4 DEF Room
  <2>4. Seen + 1 \in 1 .. Len(received) /\ Seen + 1 + BufferSize - 1 = Len(received)
    BY <1>t, <2>1, <2>3 DEF Seen, BufferInv
  <2>5. ASSUME NEW k \in Seen + 1 .. Len(received) PROVE u[k] # EndOfLine
    <3>1. k - Seen \in 1 .. Len(buffer) /\ Seen + (k - Seen) = k /\ k \in 1 .. Len(received)
      BY <1>t, <2>4 DEF Seen
    <3>2. buffer[k - Seen] = received[Seen + (k - Seen)]
      BY <2>1, <3>1 DEF BufferInv
    <3>3. buffer[k - Seen] # EndOfLine
      BY <1>t, <2>1, <3>1 DEF Newlines
    <3>4. QED  BY <2>2, <3>1, <3>2, <3>3
  <2>6. /\ Seen + 1 \in DOMAIN u /\ Seen + 1 + BufferSize - 1 \in DOMAIN u
        /\ \A k \in Seen + 1 .. Seen + 1 + BufferSize - 1 : u[k] # EndOfLine
    BY <1>t, <2>2, <2>4, <2>5
  <2>7. QED  BY <2>6 DEF u
<1>5. QED  BY <1>2, <1>3, <1>4

(* sample_sensors leaves a connection only when the daemon has closed it   *)
(* or sent a line that does not fit the buffer (KeepsConnection).          *)
THEOREM LeavesWhenClosed == SampleSpec => KeepsConnection
<1> DEFINE A == stage = "receive" /\ stage' = "sleep" =>
                  \/ ~connected /\ wire = <<>>
                  \/ \E n \in DOMAIN (received \o wire) :
                       /\ n + BufferSize - 1 \in DOMAIN (received \o wire)
                       /\ \A k \in n .. n + BufferSize - 1 : (received \o wire)[k] # EndOfLine
<1>1. SampleInit => SampleInv
  BY InitSampled
<1>2. SampleInv /\ [SampleNext]_sampleVars => SampleInv'
  BY StepSampled
<1>3. SampleInv /\ [SampleNext]_sampleVars => A
  BY GivesUp
<1>4. [A]_sampleVars <=> A \/ UNCHANGED sampleVars
  OBVIOUS
<1> HIDE DEF A
<1>5. SampleSpec => [][A]_sampleVars
  BY <1>1, <1>2, <1>3, PTL DEF SampleSpec
<1>6. QED  BY <1>5 DEF KeepsConnection, A

-----------------------------------------------------------------------------
(* usocket and serial *)

TerminalSpec == TerminalInit /\ [][TerminalNext]_terminalVars

-----------------------------------------------------------------------------

TypeInv ==
  /\ {screen, line, sent, keyboard} \subseteq Seq(Nat)
  /\ {typed, said, dropped} \subseteq Nat

(* From the device to the screen: what waits is the last stretch of what   *)
(* was said, and what was shown came before it; on a stdout that takes what *)
(* it is given, right before it.                                           *)
FromDoor ==
  /\ dropped + Len(line) <= said
  /\ \A n \in 1 .. Len(line) : line[n] = said - Len(line) + n
  /\ \A n \in 1 .. Len(screen) : screen[n] <= said - Len(line)
  /\ \A j, k \in 1 .. Len(screen) : j < k => screen[j] < screen[k]
  /\ ~refuses => /\ dropped + Len(screen) + Len(line) = said
                 /\ \A n \in 1 .. Len(screen) : screen[n] = n + dropped
  /\ place \in {"open", "setup", "sleep"} => screen = <<>>

(* The other way: the keyboard holds the last stretch of what was typed. *)
FromKeyboard ==
  /\ Len(keyboard) <= typed
  /\ \A n \in 1 .. Len(keyboard) : keyboard[n] = typed - Len(keyboard) + n
  /\ \A n \in 1 .. Len(sent) : sent[n] <= typed - Len(keyboard)
  /\ \A j, k \in 1 .. Len(sent) : j < k => sent[j] < sent[k]
  /\ prog = "usocket" /\ place # "killed" =>
       /\ Len(sent) = typed - Len(keyboard)
       /\ \A n \in 1 .. Len(sent) : sent[n] = n

(* usocket ends well only after a hang-up or at the end of all its input. *)
EndInv ==
  /\ place \in {"setup", "raw", "restore"} => prog = "serial"
  /\ place = "door" => line # <<>> \/ gone
  /\ prog = "usocket" /\ (place = "shut" \/ (place = "exited" /\ ret = 0)) =>
       gone \/ (eof /\ keyboard = <<>>)

RelayInv == TypeInv /\ FromDoor /\ FromKeyboard /\ EndInv

-----------------------------------------------------------------------------

(* The numbers after d, one by one, and a sequence that holds them. *)
Run(d, m) == [n \in 1 .. m |-> n + d]
Holds(s, d) == \A n \in 1 .. Len(s) : s[n] = n + d

(* Two neighbouring stretches make one. *)
LEMMA Stretch ==
  ASSUME NEW s \in Seq(Nat), NEW t \in Seq(Nat), NEW d \in Nat,
         Holds(s, d), Holds(t, Len(s) + d)
  PROVE  s \o t = Run(d, Len(s) + Len(t))
<1> USE DEF Holds, Run
<1> DEFINE m == Len(s) + Len(t)
<1> DEFINE u == s \o t
           v == [n \in 1 .. m |-> n + d]
<1>1. /\ u \in Seq(Nat) /\ Len(u) = m
      /\ \A n \in 1 .. Len(u) : u[n] = IF n <= Len(s) THEN s[n] ELSE t[n - Len(s)]
  BY ConcatProperties
<1>2. v \in Seq(Nat) /\ Len(v) = m
  OBVIOUS
<1>3. ASSUME NEW n \in 1 .. m PROVE u[n] = v[n]
  <2>1. Len(s) \in Nat /\ Len(t) \in Nat
    OBVIOUS
  <2>2. CASE n <= Len(s)
    BY <1>1, <2>1, <2>2
  <2>3. CASE n > Len(s)
    <3>1. n - Len(s) \in 1 .. Len(t)
      BY <2>1, <2>3
    <3>2. t[n - Len(s)] = n + d
      BY <2>1, <3>1
    <3>3. QED  BY <1>1, <2>1, <2>3, <3>2
  <2>4. QED  BY <2>1, <2>2, <2>3
<1> HIDE DEF u, v
<1>4. u = v
  BY <1>1, <1>2, <1>3, SeqEqual
<1>5. QED  BY <1>4 DEF u, v

(* A stretch behind smaller numbers in order. *)
LEMMA Longer ==
  ASSUME NEW s \in Seq(Nat), NEW t \in Seq(Nat), NEW c \in Nat,
         \A n \in 1 .. Len(s) : s[n] <= c,
         \A j, k \in 1 .. Len(s) : j < k => s[j] < s[k],
         \A n \in 1 .. Len(t) : t[n] = c + n
  PROVE  /\ s \o t \in Seq(Nat) /\ Len(s \o t) = Len(s) + Len(t)
         /\ \A n \in 1 .. Len(s) + Len(t) : (s \o t)[n] <= c + Len(t)
         /\ \A j, k \in 1 .. Len(s) + Len(t) : j < k => (s \o t)[j] < (s \o t)[k]
<1> DEFINE u == s \o t
           m == Len(s) + Len(t)
<1>1. /\ u \in Seq(Nat) /\ Len(u) = m
      /\ \A n \in 1 .. m : u[n] = IF n <= Len(s) THEN s[n] ELSE t[n - Len(s)]
  BY ConcatProperties
<1>2. Len(s) \in Nat /\ Len(t) \in Nat /\ m \in Nat /\ m = Len(s) + Len(t)
  OBVIOUS
<1> HIDE DEF u, m
<1>3. ASSUME NEW n \in 1 .. m
      PROVE  \/ n \in 1 .. Len(s) /\ u[n] = s[n] /\ s[n] \in Nat
             \/ n > Len(s) /\ u[n] = c + (n - Len(s))
  <2>1. CASE n <= Len(s)
    <3>1. n \in 1 .. Len(s) /\ u[n] = s[n]
      BY <1>1, <1>2, <2>1
    <3>2. s[n] \in Nat
      BY <3>1
    <3>3. QED  BY <3>1, <3>2
  <2>2. CASE ~(n <= Len(s))
    <3>1. n - Len(s) \in 1 .. Len(t) /\ u[n] = t[n - Len(s)] /\ n > Len(s)
      BY <1>1, <1>2, <2>2
    <3>2. QED  BY <3>1
  <2>3. QED  BY <2>1, <2>2
<1>4. ASSUME NEW n \in 1 .. m PROVE u[n] <= c + Len(t)
  <2>1. CASE n \in 1 .. Len(s) /\ u[n] = s[n] /\ s[n] \in Nat
    <3>1. s[n] <= c
      BY <2>1
    <3>2. QED  BY <1>2, <2>1, <3>1
  <2>2. CASE n > Len(s) /\ u[n] = c + (n - Len(s))
    BY <1>2, <2>2
  <2>3. QED  BY <1>3, <2>1, <2>2
<1>5. ASSUME NEW j \in 1 .. m, NEW k \in 1 .. m, j < k PROVE u[j] < u[k]
  <2>1. CASE k \in 1 .. Len(s) /\ u[k] = s[k]
    <3>1. j \in 1 .. Len(s)
      BY <1>2, <1>5, <2>1
    <3>2. u[j] = s[j]
      BY <1>2, <1>3, <3>1
    <3>3. s[j] < s[k]
      BY <1>5, <2>1, <3>1
    <3>4. QED  BY <2>1, <3>2, <3>3
  <2>2. CASE k > Len(s) /\ u[k] = c + (k - Len(s))
    <3>1. CASE j \in 1 .. Len(s) /\ u[j] = s[j] /\ s[j] \in Nat
      <4>1. s[j] <= c
        BY <3>1
      <4>2. QED  BY <1>2, <2>2, <3>1, <4>1
    <3>2. CASE j > Len(s) /\ u[j] = c + (j - Len(s))
      BY <1>2, <1>5, <2>2, <3>2
    <3>3. QED  BY <1>3, <3>1, <3>2
  <2>3. QED  BY <1>3, <2>1, <2>2
<1>6. QED  BY <1>1, <1>4, <1>5 DEF u, m

(* The invariant gives the property: the second stretch of each sequence   *)
(* begins where the first one ends.                                        *)
LEMMA RelayedFromInv ==
  ASSUME RelayInv PROVE RelayedInOrder
<1> USE DEF RelayInv
<1>t. /\ screen \in Seq(Nat) /\ line \in Seq(Nat) /\ sent \in Seq(Nat) /\ keyboard \in Seq(Nat)
      /\ typed \in Nat /\ said \in Nat /\ dropped \in Nat
  BY DEF TypeInv
<1>l. /\ Len(screen) \in Nat /\ Len(line) \in Nat /\ Len(sent) \in Nat /\ Len(keyboard) \in Nat
      /\ DOMAIN sent = 1 .. Len(sent)
  BY <1>t
<1>0. \A j, k \in DOMAIN (screen \o line) : j < k => (screen \o line)[j] < (screen \o line)[k]
  <2> DEFINE c == said - Len(line)
             u == screen \o line
  <2>1. c \in Nat
    BY <1>t, <1>l DEF FromDoor
  <2>2. /\ \A n \in 1 .. Len(screen) : screen[n] <= c
        /\ \A j, k \in 1 .. Len(screen) : j < k => screen[j] < screen[k]
        /\ \A n \in 1 .. Len(line) : line[n] = c + n
    BY DEF FromDoor
  <2> HIDE DEF c
  <2>3. /\ u \in Seq(Nat) /\ Len(u) = Len(screen) + Len(line)
        /\ \A j, k \in 1 .. Len(screen) + Len(line) : j < k => u[j] < u[k]
    BY <1>t, <2>1, <2>2, Longer
  <2> HIDE DEF u
  <2>4. DOMAIN u = 1 .. Len(screen) + Len(line)
    BY <2>3
  <2>5. QED  BY <2>3, <2>4 DEF u
<1>1. ~refuses => screen \o line = [n \in 1 .. said - dropped |-> n + dropped]
  <2> SUFFICES ASSUME ~refuses PROVE screen \o line = [n \in 1 .. said - dropped |-> n + dropped]
    OBVIOUS
  <2>0. /\ dropped + Len(screen) + Len(line) = said
        /\ \A n \in 1 .. Len(screen) : screen[n] = n + dropped
        /\ \A n \in 1 .. Len(line) : line[n] = said - Len(line) + n
    BY DEF FromDoor
  <2>1. Holds(screen, dropped) /\ Holds(line, Len(screen) + dropped)
    <3>1. said - Len(line) = Len(screen) + dropped
      BY <1>t, <1>l, <2>0
    <3>2. \A n \in 1 .. Len(line) : line[n] = n + (Len(screen) + dropped)
      <4> SUFFICES ASSUME NEW n \in 1 .. Len(line)
                   PROVE  line[n] = n + (Len(screen) + dropped)
        OBVIOUS
      <4>1. line[n] = (Len(screen) + dropped) + n /\ n \in Nat
        BY <1>l, <2>0, <3>1
      <4>2. QED  BY <1>t, <1>l, <4>1
    <3>3. QED  BY <2>0, <3>2 DEF Holds
  <2>2. screen \o line = Run(dropped, Len(screen) + Len(line))
    BY <1>t, <2>1, Stretch
  <2>3. Len(screen) + Len(line) = said - dropped
    BY <1>t, <1>l, <2>0
  <2>4. QED  BY <2>2, <2>3 DEF Run
<1>2. prog = "usocket" /\ place # "killed" => sent \o keyboard = Count(typed)
  <2> SUFFICES ASSUME prog = "usocket", place # "killed" PROVE sent \o keyboard = Count(typed)
    OBVIOUS
  <2>1. /\ Len(sent) + Len(keyboard) = typed
        /\ Holds(sent, 0) /\ Holds(keyboard, Len(sent) + 0)
    BY <1>t, <1>l DEF FromKeyboard, Holds
  <2>2. sent \o keyboard = Run(0, Len(sent) + Len(keyboard))
    BY <1>t, <2>1, Stretch
  <2>3. Run(0, typed) = Count(typed)
    BY <1>t DEF Run, Count
  <2>4. QED  BY <2>1, <2>2, <2>3
<1>3. \A j, k \in DOMAIN sent : j < k => sent[j] < sent[k]
  BY <1>l DEF FromKeyboard
<1>4. prog = "usocket" /\ place = "exited" /\ ret = 0 /\ ~gone => sent = Count(typed)
  <2> SUFFICES ASSUME prog = "usocket", place = "exited", ret = 0, ~gone
               PROVE  sent = Count(typed)
    OBVIOUS
  <2>1. keyboard = <<>>
    BY DEF EndInv
  <2>2. sent \o keyboard = sent
    BY <1>t, <2>1
  <2>3. place # "killed"
    OBVIOUS
  <2>4. QED  BY <1>2, <2>2, <2>3
<1>5. QED  BY <1>0, <1>1, <1>2, <1>3, <1>4 DEF RelayedInOrder

-----------------------------------------------------------------------------

LEMMA InitRelay ==
  TerminalInit => RelayInv
<1> SUFFICES ASSUME TerminalInit PROVE RelayInv
  OBVIOUS
<1> USE DEF TerminalInit
<1>1. TypeInv /\ Len(screen) = 0 /\ Len(line) = 0 /\ Len(sent) = 0 /\ Len(keyboard) = 0
  BY DEF TypeInv
<1>2. FromDoor
  <2>1. said = 0 /\ dropped = 0 /\ screen = <<>> /\ Len(screen) = 0 /\ Len(line) = 0
    BY <1>1
  <2> HIDE DEF TerminalInit
  <2>2. QED  BY <2>1 DEF FromDoor
<1>3. FromKeyboard
  <2>1. typed = 0 /\ Len(sent) = 0 /\ Len(keyboard) = 0
    BY <1>1
  <2> HIDE DEF TerminalInit
  <2>2. QED  BY <2>1 DEF FromKeyboard
<1>4. EndInv
  BY DEF EndInv
<1>5. QED  BY <1>1, <1>2, <1>3, <1>4 DEF RelayInv

(* The parts of the invariant depend on a few variables each. *)
LEMMA DoorKept ==
  ASSUME RelayInv, UNCHANGED <<screen, line, said, dropped, refuses>>,
         place' \in {"open", "setup", "sleep"} => screen = <<>>
  PROVE  FromDoor'
BY DEF RelayInv, FromDoor

LEMMA KeyboardKept ==
  ASSUME RelayInv, UNCHANGED <<keyboard, typed, sent, prog>>,
         place = "killed" => place' = "killed" \/ prog # "usocket"
  PROVE  FromKeyboard'
BY DEF RelayInv, FromKeyboard

LEMMA TypesKept ==
  ASSUME RelayInv, UNCHANGED <<screen, line, sent, keyboard, typed, said, dropped>>
  PROVE  TypeInv'
BY DEF RelayInv, TypeInv

LEMMA Appended ==
  ASSUME NEW s \in Seq(Nat), NEW x \in Nat
  PROVE  /\ Append(s, x) \in Seq(Nat) /\ Len(Append(s, x)) = Len(s) + 1
         /\ \A i \in 1 .. Len(s) + 1 :
              Append(s, x)[i] = IF i = Len(s) + 1 THEN x ELSE s[i]
BY AppendProperties

LEMMA RestOf ==
  ASSUME NEW s \in Seq(Nat), NEW n \in 1 .. Len(s)
  PROVE  LET t == SubSeq(s, n + 1, Len(s))
         IN /\ t \in Seq(Nat) /\ Len(t) = Len(s) - n
            /\ \A i \in 1 .. Len(s) - n : t[i] = s[n + i]
<1>1. Len(s) \in Nat /\ n + 1 \in 1 .. Len(s) + 1
  OBVIOUS
<1>2. Len(s) - (n + 1) + 1 = Len(s) - n
  BY <1>1
<1>3. \A i \in 1 .. Len(s) - n : (n + 1) + i - 1 = n + i
  BY <1>1
<1> DEFINE t == SubSeq(s, n + 1, Len(s))
<1>4. \A i \in n + 1 .. Len(s) : s[i] \in Nat
  BY <1>1
<1>5. /\ t \in Seq(Nat)
      /\ Len(t) = IF n + 1 <= Len(s) THEN Len(s) - (n + 1) + 1 ELSE 0
      /\ \A i \in 1 .. Len(s) - (n + 1) + 1 : t[i] = s[(n + 1) + i - 1]
  BY <1>1, <1>4, SubSeqProperties
<1> HIDE DEF t
<1>6. Len(t) = Len(s) - n
  BY <1>1, <1>5, SMTT(30)
<1>7. \A i \in 1 .. Len(s) - n : t[i] = s[n + i]
  BY <1>2, <1>3, <1>5
<1>8. QED  BY <1>5, <1>6, <1>7 DEF t

LEMMA Joined ==
  ASSUME NEW s \in Seq(Nat), NEW t \in Seq(Nat)
  PROVE  /\ s \o t \in Seq(Nat) /\ Len(s \o t) = Len(s) + Len(t)
         /\ \A i \in 1 .. Len(s) + Len(t) :
              (s \o t)[i] = IF i <= Len(s) THEN s[i] ELSE t[i - Len(s)]
BY ConcatProperties

(* What has been drained before the first character is shown only counts. *)
LEMMA Drained ==
  ASSUME RelayInv, screen = <<>>, screen' = screen, said' = said, refuses' = refuses,
         line' = <<>>, dropped' = dropped + Len(line)
  PROVE  FromDoor' /\ dropped' \in Nat
<1>1. /\ line \in Seq(Nat) /\ said \in Nat /\ dropped \in Nat /\ Len(line) \in Nat
      /\ Len(screen) = 0 /\ Len(line') = 0
  BY DEF RelayInv, TypeInv
<1>2. /\ dropped' \in Nat /\ dropped' <= said /\ said' = said /\ Len(screen') = 0
      /\ ~refuses => dropped' = said
  BY <1>1 DEF RelayInv, FromDoor
<1>3. QED  BY <1>1, <1>2 DEF FromDoor

LEMMA NextRelay ==
  RelayInv /\ [TerminalNext]_terminalVars => RelayInv'
<1> SUFFICES ASSUME RelayInv, [TerminalNext]_terminalVars PROVE RelayInv'
  OBVIOUS
<1> USE DEF settings, user, other, passed, Left
<1>t. /\ screen \in Seq(Nat) /\ line \in Seq(Nat) /\ sent \in Seq(Nat) /\ keyboard \in Seq(Nat)
      /\ typed \in Nat /\ said \in Nat /\ dropped \in Nat
  BY DEF RelayInv, TypeInv
<1>n. /\ Len(screen) \in Nat /\ Len(line) \in Nat /\ Len(sent) \in Nat /\ Len(keyboard) \in Nat
      /\ typed \in Nat /\ said \in Nat /\ dropped \in Nat
  BY <1>t
<1>d. /\ dropped + Len(line) <= said
      /\ \A n \in 1 .. Len(line) : line[n] = said - Len(line) + n
      /\ \A n \in 1 .. Len(screen) : screen[n] <= said - Len(line)
      /\ \A j, k \in 1 .. Len(screen) : j < k => screen[j] < screen[k]
  BY DEF RelayInv, FromDoor
<1>k. /\ Len(keyboard) <= typed
      /\ \A n \in 1 .. Len(keyboard) : keyboard[n] = typed - Len(keyboard) + n
      /\ \A n \in 1 .. Len(sent) : sent[n] <= typed - Len(keyboard)
  BY DEF RelayInv, FromKeyboard
<1>1. CASE Open
  <2>1. TypeInv' /\ FromDoor' /\ FromKeyboard'
    BY <1>1, TypesKept, DoorKept, KeyboardKept DEF Open, Trouble, RelayInv, FromDoor
  <2>2. EndInv'
    BY <1>1 DEF Open, Trouble, RelayInv, EndInv
  <2>3. QED  BY <2>1, <2>2 DEF RelayInv
<1>2. CASE Setup
  <2>1. screen = <<>> /\ UNCHANGED <<screen, sent, keyboard, typed, said, prog, refuses>>
    BY <1>2 DEF Setup, RelayInv, FromDoor
  <2>2. FromDoor' /\ dropped' \in Nat /\ line' \in Seq(Nat)
    <3>1. CASE line' = <<>> /\ dropped' = dropped + Len(line)
      BY <2>1, <3>1, Drained
    <3>2. CASE UNCHANGED <<line, dropped>>
      BY <2>1, <3>2, <1>t, DoorKept
    <3>3. QED  BY <1>2, <3>1, <3>2 DEF Setup
  <2>3. TypeInv'
    BY <2>1, <2>2, <1>t DEF TypeInv
  <2>4. FromKeyboard'
    BY <1>2, <2>1, KeyboardKept DEF Setup
  <2>5. EndInv'
    BY <1>2 DEF Setup, Trouble, RelayInv, EndInv
  <2>6. QED  BY <2>2, <2>3, <2>4, <2>5 DEF RelayInv
<1>3. CASE SetRaw
  <2>1. TypeInv' /\ FromDoor' /\ FromKeyboard'
    BY <1>3, TypesKept, DoorKept, KeyboardKept DEF SetRaw
  <2>2. EndInv'
    BY <1>3 DEF SetRaw, RelayInv, EndInv
  <2>3. QED  BY <2>1, <2>2 DEF RelayInv
<1>4. CASE TryAgain
  <2>1. screen = <<>> /\ UNCHANGED <<screen, sent, keyboard, typed, said, prog, refuses>>
    BY <1>4 DEF TryAgain, RelayInv, FromDoor
  <2>2. FromDoor' /\ dropped' \in Nat /\ line' = <<>>
    BY <1>4, <2>1, Drained DEF TryAgain
  <2>3. TypeInv'
    BY <2>1, <2>2, <1>t DEF TypeInv
  <2>4. FromKeyboard'
    BY <1>4, <2>1, KeyboardKept DEF TryAgain
  <2>5. EndInv'
    BY <1>4 DEF TryAgain, RelayInv, EndInv
  <2>6. QED  BY <2>2, <2>3, <2>4, <2>5 DEF RelayInv
<1>5. CASE SelectFds
  <2>1. TypeInv' /\ FromDoor' /\ FromKeyboard'
    BY <1>5, TypesKept, DoorKept, KeyboardKept DEF SelectFds
  <2>2. EndInv'
    BY <1>5 DEF SelectFds, ReadableFds, RelayInv, EndInv
  <2>3. QED  BY <2>1, <2>2 DEF RelayInv
<1>6. CASE Show
  <2>0. /\ UNCHANGED <<sent, keyboard, typed, said, dropped, prog, refuses, gone, eof, ret>>
        /\ place = "door"
    BY <1>6 DEF Show
  <2>1. FromKeyboard' /\ (place' = "stdin" \/ place' = "select" \/ place' = Left)
    BY <1>6, <2>0, KeyboardKept DEF Show
  <2>2. CASE line = <<>>
    <3>1. place' = Left /\ UNCHANGED <<line, screen>>
      BY <1>6, <2>2 DEF Show
    <3>2. TypeInv' /\ FromDoor'
      BY <2>0, <3>1, TypesKept, DoorKept
    <3>3. gone
      BY <2>0, <2>2 DEF RelayInv, EndInv
    <3>4. EndInv'
      BY <2>0, <3>1, <3>3 DEF EndInv
    <3>5. QED  BY <2>1, <3>2, <3>4 DEF RelayInv
  <2>3. CASE line # <<>>
    <3> DEFINE n == IF prog = "serial" THEN 1 ELSE Len(line)
    <3>1. PICK m \in 0 .. n :
            /\ m = n \/ refuses
            /\ screen' = screen \o SubSeq(line, 1, m) /\ line' = SubSeq(line, n + 1, Len(line))
            /\ place' \in {"stdin", "select"}
      BY <1>6, <2>3 DEF Show
    <3>2. n \in 1 .. Len(line)
      BY <2>3, <1>t
    <3> HIDE DEF n
    <3> DEFINE t == SubSeq(line, 1, m)
               c == said - Len(line)
    <3>3. /\ t \in Seq(Nat) /\ Len(t) = m /\ m \in Nat /\ n \in Nat /\ m <= n
          /\ \A i \in 1 .. m : t[i] = line[i]
      BY <1>t, <3>2
    <3>4. /\ line' \in Seq(Nat) /\ Len(line') = Len(line) - n
          /\ \A i \in 1 .. Len(line) - n : line'[i] = line[n + i]
      BY <1>t, <3>1, <3>2, RestOf
    <3>5. c \in Nat /\ \A i \in 1 .. m : t[i] = c + i
      <4>1. c \in Nat
        BY <1>n, <1>d
      <4>2. ASSUME NEW i \in 1 .. m PROVE t[i] = c + i
        <5>1. i \in 1 .. Len(line)
          BY <1>n, <3>2, <3>3
        <5>2. QED  BY <1>d, <3>3, <5>1
      <4>3. QED  BY <4>1, <4>2
    <3>6. /\ c = said - Len(line) /\ screen' = screen \o t
          /\ \A i \in 1 .. Len(screen) : screen[i] <= c
          /\ \A i, k \in 1 .. Len(screen) : i < k => screen[i] < screen[k]
      BY <1>d, <3>1
    <3> HIDE DEF t, c
    <3>7. /\ screen' \in Seq(Nat) /\ Len(screen') = Len(screen) + m
          /\ \A i \in 1 .. Len(screen') : screen'[i] <= c + m
          /\ \A i, k \in 1 .. Len(screen') : i < k => screen'[i] < screen'[k]
      <4>1. \A i \in 1 .. Len(t) : t[i] = c + i
        BY <3>3, <3>5
      <4>2. /\ screen \o t \in Seq(Nat) /\ Len(screen \o t) = Len(screen) + Len(t)
            /\ \A i \in 1 .. Len(screen) + Len(t) : (screen \o t)[i] <= c + Len(t)
            /\ \A i, k \in 1 .. Len(screen) + Len(t) :
                 i < k => (screen \o t)[i] < (screen \o t)[k]
        BY <1>t, <3>3, <3>5, <3>6, <4>1, Longer
      <4>3. QED  BY <3>3, <3>6, <4>2
    <3>8. FromDoor'
      <4>1. dropped' + Len(line') <= said'
        BY <1>n, <1>d, <2>0, <3>3, <3>4
      <4>2. ASSUME NEW i \in 1 .. Len(line') PROVE line'[i] = said' - Len(line') + i
        <5>1. n + i \in 1 .. Len(line) /\ line'[i] = line[n + i]
          BY <1>n, <3>2, <3>3, <3>4
        <5>2. line[n + i] = said - Len(line) + (n + i)
          BY <1>d, <5>1
        <5>3. QED  BY <1>n, <2>0, <3>3, <3>4, <5>1, <5>2
      <4>3. ASSUME NEW i \in 1 .. Len(screen') PROVE screen'[i] <= said' - Len(line')
        <5>1. screen'[i] \in Nat /\ screen'[i] <= c + m
          BY <3>7
        <5>2. said' - Len(line') = c + n
          BY <1>n, <2>0, <3>3, <3>4, <3>6
        <5>3. QED  BY <3>3, <3>5, <5>1, <5>2
      <4>4. ASSUME ~refuses'
            PROVE  /\ dropped' + Len(screen') + Len(line') = said'
                   /\ \A i \in 1 .. Len(screen') : screen'[i] = i + dropped'
        <5>1. m = n
          BY <2>0, <3>1, <4>4
        <5>2. /\ dropped + Len(screen) + Len(line) = said
              /\ \A i \in 1 .. Len(screen) : screen[i] = i + dropped
          BY <2>0, <4>4 DEF RelayInv, FromDoor
        <5>3. \A i \in 1 .. Len(screen) + m :
                screen'[i] = IF i <= Len(screen) THEN screen[i] ELSE t[i - Len(screen)]
          BY <1>t, <3>3, <3>6, Joined
        <5>4. ASSUME NEW i \in 1 .. Len(screen') PROVE screen'[i] = i + dropped'
          <6>1. i \in 1 .. Len(screen) + m
            BY <3>7
          <6>2. CASE i <= Len(screen)
            <7>1. i \in 1 .. Len(screen) /\ screen'[i] = screen[i]
              BY <1>n, <5>3, <6>1, <6>2
            <7>2. QED  BY <2>0, <5>2, <7>1
          <6>3. CASE ~(i <= Len(screen))
            <7>1. i - Len(screen) \in 1 .. m /\ screen'[i] = t[i - Len(screen)]
              BY <1>n, <3>3, <5>3, <6>1, <6>3
            <7>2. screen'[i] = c + (i - Len(screen)) /\ c = dropped + Len(screen)
              BY <1>n, <3>5, <3>6, <5>2, <7>1
            <7>3. i \in Nat /\ dropped' = dropped
              BY <1>n, <2>0, <3>3, <6>1
            <7>4. QED  BY <1>n, <7>2, <7>3
          <6>4. QED  BY <6>2, <6>3
        <5>5. dropped' + Len(screen') + Len(line') = said'
          <6>1. /\ Len(screen') = Len(screen) + n /\ Len(line') = Len(line) - n /\ n \in Nat
                /\ dropped' = dropped /\ said' = said
                /\ dropped + Len(screen) + Len(line) = said
            BY <2>0, <3>3, <3>4, <3>7, <5>1, <5>2
          <6>2. QED  BY <1>n, <6>1
        <5>6. QED  BY <5>4, <5>5
      <4>5. place' \notin {"open", "setup", "sleep"}
        BY <3>1
      <4>6. QED  BY <3>7, <4>1, <4>2, <4>3, <4>4, <4>5 DEF FromDoor
    <3>10. TypeInv'
      BY <1>t, <2>0, <3>4, <3>7 DEF TypeInv
    <3>11. EndInv'
      BY <3>1 DEF EndInv
    <3>12. QED  BY <2>1, <3>8, <3>10, <3>11 DEF RelayInv
  <2>4. QED  BY <2>2, <2>3
<1>7. CASE PassOn
  <2>0. /\ keyboard' = <<>> /\ UNCHANGED <<typed, said, line, screen, dropped, refuses, prog, gone, eof,
                                            ret>>
        /\ place' \in {"stdin", "killed"} /\ place = "stdin"
        /\ Len(keyboard') = 0
    BY <1>7 DEF PassOn
  <2>1. FromDoor'
    BY <2>0, DoorKept
  <2>2. EndInv'
    BY <2>0 DEF EndInv
  <2>3. sent' \in Seq(Nat) /\ FromKeyboard'
    <3>1. CASE place' = "killed"
      <4>1. sent' = sent
        BY <1>7, <2>0, <3>1 DEF PassOn
      <4>2. QED  BY <1>t, <2>0, <3>1, <4>1 DEF RelayInv, FromKeyboard
    <3>2. CASE place' = "stdin"
      <4>1. PICK n \in 0 .. Len(keyboard) :
              /\ sent' = sent \o SubSeq(keyboard, 1, n)
              /\ prog = "usocket" => n = Len(keyboard)
        <5>1. PICK s \in Passed : sent' = sent \o s
          BY <1>7, <2>0, <3>2 DEF PassOn
        <5>2. CASE prog = "serial"
          <6>1. PICK m \in 0 .. Len(keyboard) : s = SubSeq(keyboard, 1, m)
            BY <5>1, <5>2 DEF Passed
          <6>2. QED  BY <5>1, <5>2, <6>1
        <5>3. CASE prog # "serial"
          <6>1. s = SubSeq(keyboard, 1, Len(keyboard))
            BY <1>t, <5>1, <5>3, SubSeqFull DEF Passed
          <6>3. Len(keyboard) \in 0 .. Len(keyboard)
            BY <1>n
          <6>4. QED  BY <5>1, <6>1, <6>3
        <5>4. QED  BY <5>2, <5>3
      <4>2. /\ SubSeq(keyboard, 1, n) \in Seq(Nat) /\ Len(SubSeq(keyboard, 1, n)) = n
            /\ \A i \in 1 .. n : SubSeq(keyboard, 1, n)[i] = keyboard[i]
        BY <1>t
      <4>3. /\ sent' \in Seq(Nat) /\ Len(sent') = Len(sent) + n
            /\ \A i \in 1 .. Len(sent) + n :
                 sent'[i] = IF i <= Len(sent) THEN sent[i] ELSE keyboard[i - Len(sent)]
        <5>1. /\ sent \o SubSeq(keyboard, 1, n) \in Seq(Nat)
              /\ Len(sent \o SubSeq(keyboard, 1, n)) = Len(sent) + n
              /\ \A i \in 1 .. Len(sent) + n :
                   (sent \o SubSeq(keyboard, 1, n))[i]
                     = IF i <= Len(sent) THEN sent[i] ELSE SubSeq(keyboard, 1, n)[i - Len(sent)]
          BY <1>t, <4>2, Joined
        <5>2. \A i \in 1 .. Len(sent) + n : ~(i <= Len(sent)) => i - Len(sent) \in 1 .. n
          BY <1>n
        <5>3. QED  BY <4>1, <4>2, <5>1, <5>2
      <4> DEFINE before == typed - Len(keyboard)
      <4>4. before \in Nat /\ before + Len(keyboard) = typed
        BY <1>t DEF RelayInv, FromKeyboard
      <4>5. \A i \in 1 .. Len(sent') :
              \/ i <= Len(sent) /\ sent'[i] = sent[i] /\ sent[i] \in Nat /\ sent[i] <= before
              \/ i > Len(sent) /\ sent'[i] = before + (i - Len(sent))
        <5> SUFFICES ASSUME NEW i \in 1 .. Len(sent')
                     PROVE  \/ i <= Len(sent) /\ sent'[i] = sent[i] /\ sent[i] \in Nat
                               /\ sent[i] <= before
                            \/ i > Len(sent) /\ sent'[i] = before + (i - Len(sent))
          OBVIOUS
        <5>1. i \in 1 .. Len(sent) + n
          BY <4>3
        <5>2. CASE i <= Len(sent)
          <6>1. i \in 1 .. Len(sent)
            BY <1>n, <5>1, <5>2
          <6>2. sent[i] \in Nat
            BY <1>t, <6>1
          <6>3. QED  BY <1>k, <4>3, <5>1, <5>2, <6>1, <6>2
        <5>3. CASE i > Len(sent)
          <6>1. i - Len(sent) \in 1 .. Len(keyboard) /\ sent'[i] = keyboard[i - Len(sent)]
            BY <1>n, <4>3, <5>1, <5>3
          <6>2. keyboard[i - Len(sent)] = before + (i - Len(sent))
            BY <1>k, <6>1
          <6>3. QED  BY <5>3, <6>1, <6>2
        <5>4. QED  BY <1>n, <5>1, <5>2, <5>3
      <4>6. \A i, k \in 1 .. Len(sent) : i < k => sent[i] < sent[k]
        BY DEF RelayInv, FromKeyboard
      <4> HIDE DEF before
      <4>7. \A i \in 1 .. Len(sent') : sent'[i] <= typed
        <5> SUFFICES ASSUME NEW i \in 1 .. Len(sent') PROVE sent'[i] <= typed
          OBVIOUS
        <5>1. n <= Len(keyboard) /\ i <= Len(sent) + n /\ n \in Nat /\ i \in Nat
          BY <1>n, <4>3
        <5>2. QED  BY <1>n, <4>4, <4>5, <5>1
      <4>8. \A i, k \in 1 .. Len(sent') : i < k => sent'[i] < sent'[k]
        <5> SUFFICES ASSUME NEW i \in 1 .. Len(sent'), NEW k \in 1 .. Len(sent'), i < k
                     PROVE  sent'[i] < sent'[k]
          OBVIOUS
        <5>1. i \in Nat /\ k \in Nat /\ 1 <= i
          BY <1>n, <4>3
        <5>2. CASE k <= Len(sent)
          <6>1. i \in 1 .. Len(sent) /\ k \in 1 .. Len(sent)
            BY <1>n, <5>1, <5>2
          <6>2. sent[i] < sent[k]
            BY <4>6, <6>1
          <6>3. sent'[i] = sent[i] /\ sent'[k] = sent[k]
            BY <1>n, <4>5, <5>1, <5>2
          <6>4. QED  BY <6>2, <6>3
        <5>3. CASE k > Len(sent)
          <6>1. sent'[k] = before + (k - Len(sent))
            BY <1>n, <4>5, <5>1, <5>3
          <6>2. QED  BY <1>n, <4>4, <4>5, <5>1, <5>3, <6>1
        <5>4. QED  BY <1>n, <5>1, <5>2, <5>3
      <4>9. prog = "usocket" => /\ Len(sent') = typed
                                /\ \A i \in 1 .. Len(sent') : sent'[i] = i
        <5> SUFFICES ASSUME prog = "usocket" PROVE Len(sent') = typed
                              /\ \A i \in 1 .. Len(sent') : sent'[i] = i
          OBVIOUS
        <5>1. /\ Len(sent) = before /\ \A i \in 1 .. Len(sent) : sent[i] = i
          BY <2>0 DEF RelayInv, FromKeyboard, before
        <5>2. n = Len(keyboard) /\ Len(sent') = typed
          BY <1>n, <4>1, <4>3, <4>4, <5>1
        <5>3. ASSUME NEW i \in 1 .. Len(sent') PROVE sent'[i] = i
          <6>1. i \in Nat /\ 1 <= i
            BY <1>n, <5>2
          <6>2. CASE i <= Len(sent)
            BY <1>n, <4>5, <5>1, <6>1, <6>2
          <6>3. CASE i > Len(sent)
            BY <1>n, <4>4, <4>5, <5>1, <6>1, <6>3
          <6>4. QED  BY <1>n, <6>1, <6>2, <6>3
        <5>4. QED  BY <5>2, <5>3
      <4>10. QED  BY <1>t, <2>0, <4>3, <4>7, <4>8, <4>9 DEF FromKeyboard
    <3>3. QED  BY <2>0, <3>1, <3>2
  <2>4. TypeInv'
    BY <1>t, <2>0, <2>3 DEF TypeInv
  <2>5. QED  BY <2>1, <2>2, <2>3, <2>4 DEF RelayInv
<1>8. CASE StdinDone
  <2>1. TypeInv' /\ FromDoor' /\ FromKeyboard'
    BY <1>8, TypesKept, DoorKept, KeyboardKept DEF StdinDone, AtEof
  <2>2. EndInv'
    BY <1>8 DEF StdinDone, AtEof, RelayInv, EndInv
  <2>3. QED  BY <2>1, <2>2 DEF RelayInv
<1>9. CASE RestoreTty
  <2>1. TypeInv' /\ FromDoor' /\ FromKeyboard'
    BY <1>9, TypesKept, DoorKept, KeyboardKept DEF RestoreTty
  <2>2. EndInv'
    BY <1>9 DEF RestoreTty, RelayInv, EndInv
  <2>3. QED  BY <2>1, <2>2 DEF RelayInv
<1>10. CASE Shut
  <2>1. TypeInv' /\ FromDoor' /\ FromKeyboard'
    BY <1>10, TypesKept, DoorKept, KeyboardKept DEF Shut
  <2>2. EndInv'
    BY <1>10 DEF Shut, RelayInv, EndInv
  <2>3. QED  BY <2>1, <2>2 DEF RelayInv
<1>11. CASE Type
  <2>0. /\ keyboard' = Append(keyboard, typed + 1) /\ typed' = typed + 1 /\ ~eof
        /\ UNCHANGED <<place, prog, refuses, sent, screen, line, said, dropped, gone, eof, ret>>
    BY <1>11 DEF Type
  <2>1. /\ keyboard' \in Seq(Nat) /\ Len(keyboard') = Len(keyboard) + 1
        /\ \A i \in 1 .. Len(keyboard) + 1 :
             keyboard'[i] = IF i = Len(keyboard) + 1 THEN typed + 1 ELSE keyboard[i]
    <3>1. typed + 1 \in Nat
      BY <1>n
    <3>2. QED  BY <1>t, <2>0, <3>1, Appended
  <2>2. TypeInv' /\ FromDoor'
    <3>1. FromDoor'
      BY <2>0, DoorKept DEF RelayInv, FromDoor
    <3>2. QED  BY <1>t, <2>0, <2>1, <3>1 DEF TypeInv
  <2>3. typed' - Len(keyboard') = typed - Len(keyboard)
    BY <1>t, <2>0, <2>1
  <2>4. FromKeyboard'
    <3>1. \A i \in 1 .. Len(keyboard') : keyboard'[i] = typed' - Len(keyboard') + i
      BY <1>n, <1>k, <2>0, <2>1
    <3>2. Len(keyboard') <= typed'
      BY <1>n, <1>k, <2>0, <2>1
    <3>3. QED  BY <2>0, <2>3, <3>1, <3>2 DEF RelayInv, FromKeyboard
  <2>5. EndInv'
    <3>1. /\ UNCHANGED <<place, prog, ret, gone, line, eof>> /\ ~eof
      BY <2>0
    <3>2. QED  BY <3>1 DEF RelayInv, EndInv
  <2>6. QED  BY <2>2, <2>4, <2>5 DEF RelayInv
<1>12. CASE EndOfInput
  <2>1. TypeInv' /\ FromDoor' /\ FromKeyboard'
    BY <1>12, TypesKept, DoorKept, KeyboardKept DEF EndOfInput, RelayInv, FromDoor
  <2>2. EndInv'
    BY <1>12 DEF EndOfInput, RelayInv, EndInv
  <2>3. QED  BY <2>1, <2>2 DEF RelayInv
<1>13. CASE Speak
  <2>0. /\ line' = Append(line, said + 1) /\ said' = said + 1
        /\ UNCHANGED <<place, prog, refuses, sent, screen, keyboard, typed, dropped, gone, eof, ret>>
    BY <1>13 DEF Speak
  <2>1. /\ line' \in Seq(Nat) /\ Len(line') = Len(line) + 1
        /\ \A i \in 1 .. Len(line) + 1 :
             line'[i] = IF i = Len(line) + 1 THEN said + 1 ELSE line[i]
    <3>1. said + 1 \in Nat
      BY <1>n
    <3>2. QED  BY <1>t, <2>0, <3>1, Appended
  <2>2. TypeInv'
    BY <1>t, <2>0, <2>1 DEF TypeInv
  <2>3. FromDoor'
    <3>1. said' - Len(line') = said - Len(line) /\ dropped' + Len(line') <= said'
      BY <1>n, <1>d, <2>0, <2>1
    <3>2. \A i \in 1 .. Len(line') : line'[i] = said' - Len(line') + i
      <4> SUFFICES ASSUME NEW i \in 1 .. Len(line')
                   PROVE  line'[i] = said' - Len(line') + i
        OBVIOUS
      <4>1. i \in 1 .. Len(line) + 1
        BY <2>1
      <4>2. CASE i = Len(line) + 1
        BY <1>n, <2>0, <2>1, <3>1, <4>1, <4>2
      <4>3. CASE i # Len(line) + 1
        <5>1. i \in 1 .. Len(line) /\ line'[i] = line[i]
          BY <1>n, <2>1, <4>1, <4>3
        <5>2. QED  BY <1>d, <3>1, <5>1
      <4>4. QED  BY <4>2, <4>3
    <3>3. ~refuses => dropped' + Len(screen') + Len(line') = said'
      <4>1. /\ Len(screen') = Len(screen) /\ Len(line') = Len(line) + 1
            /\ dropped' = dropped /\ said' = said + 1
            /\ ~refuses => dropped + Len(screen) + Len(line) = said
        BY <2>0, <2>1 DEF RelayInv, FromDoor
      <4>2. QED  BY <1>n, <4>1
    <3>4. /\ \A i \in 1 .. Len(screen') : screen'[i] <= said' - Len(line')
          /\ \A i, k \in 1 .. Len(screen') : i < k => screen'[i] < screen'[k]
      BY <1>d, <2>0, <3>1
    <3>5. QED  BY <2>0, <3>1, <3>2, <3>3, <3>4 DEF RelayInv, FromDoor
  <2>4. FromKeyboard'
    BY <2>0, KeyboardKept
  <2>5. EndInv'
    <3>1. line' # <<>>
      <4>1. Len(line') # 0
        BY <1>n, <2>1
      <4>2. QED  BY <4>1
    <3>2. QED  BY <2>0, <3>1 DEF RelayInv, EndInv
  <2>6. QED  BY <2>2, <2>3, <2>4, <2>5 DEF RelayInv
<1>14. CASE HangUp
  <2>1. TypeInv' /\ FromDoor' /\ FromKeyboard'
    BY <1>14, TypesKept, DoorKept, KeyboardKept DEF HangUp, RelayInv, FromDoor
  <2>2. EndInv'
    BY <1>14 DEF HangUp, RelayInv, EndInv
  <2>3. QED  BY <2>1, <2>2 DEF RelayInv
<1>15. CASE TerminalEnded \/ UNCHANGED terminalVars
  <2>0. UNCHANGED terminalVars
    BY <1>15 DEF TerminalEnded
  <2>1. TypeInv' /\ FromDoor' /\ FromKeyboard'
    BY <2>0, TypesKept, DoorKept, KeyboardKept DEF terminalVars, RelayInv, FromDoor
  <2>2. EndInv'
    BY <2>0 DEF terminalVars, RelayInv, EndInv
  <2>3. QED  BY <2>1, <2>2 DEF RelayInv
<1>16. QED
  BY <1>1, <1>2, <1>3, <1>4, <1>5, <1>6, <1>7, <1>8, <1>9, <1>10, <1>11, <1>12, <1>13, <1>14,
     <1>15 DEF TerminalNext, TerminalStep

(* What the device says arrives at most once and in order, and all of it   *)
(* on a stdout that takes what it is given; what is typed arrives in order, *)
(* with usocket all of it, which quits at the end of its input only when   *)
(* it has passed on the last character (RelayedInOrder).                   *)
THEOREM InOrder == TerminalSpec => []RelayedInOrder
<1>1. TerminalInit => RelayInv
  BY InitRelay
<1>2. RelayInv /\ [TerminalNext]_terminalVars => RelayInv'
  BY NextRelay
<1>3. RelayInv => RelayedInOrder
  BY RelayedFromInv
<1>4. QED  BY <1>1, <1>2, <1>3, PTL DEF TerminalSpec

-----------------------------------------------------------------------------
(* The types of the three programs. *)

(* The device is open from Open on and until it is given up. *)
DoorsInv ==
  /\ place = "open" => doors = 0
  /\ place \in {"setup", "raw"} => doors = 1

LEMMA InitTerminalTyped ==
  TerminalInit => TerminalTypeOK /\ DoorsInv
<1> SUFFICES ASSUME TerminalInit PROVE TerminalTypeOK /\ DoorsInv
  OBVIOUS
<1>1. {stdin_valid_fd, quit_on_eof_, named, refuses, raw, eof, gone} \subseteq BOOLEAN
  BY DEF TerminalInit
<1>2. QED  BY <1>1 DEF TerminalInit, TerminalTypeOK, DoorsInv

LEMMA StepTerminalTyped ==
  TerminalTypeOK /\ DoorsInv /\ [TerminalNext]_terminalVars => (TerminalTypeOK /\ DoorsInv)'
<1> SUFFICES ASSUME TerminalTypeOK, DoorsInv, [TerminalNext]_terminalVars
             PROVE  TerminalTypeOK' /\ DoorsInv'
  OBVIOUS
<1> USE DEF settings, user, other, passed, Left, TerminalTypeOK, DoorsInv
<1>1. CASE Open
  <2>1. UNCHANGED <<tmpfds, stdin_valid_fd, quit_on_eof_, named, refuses, raw, eof, gone>>
    BY <1>1 DEF Open
  <2>2. doors = 0 /\ doors' \in {0, 1} /\ ret' \in {-1, 0, 2}
    BY <1>1 DEF Open, Trouble
  <2>3. place' \in {"select", "exited", "sleep"} \/ (place' = "setup" /\ doors' = 1)
    <3>1. CASE doors' = doors + 1 /\ place' = IF prog = "serial" THEN "setup" ELSE "select"
      BY <2>2, <3>1
    <3>2. CASE place' = (IF prog = "serial" THEN "sleep" ELSE "exited") \/ place' = "sleep"
      BY <3>2
    <3>3. QED  BY <1>1, <3>1, <3>2 DEF Open
  <2>4. QED  BY <2>1, <2>2, <2>3
<1>2. CASE Setup
  BY <1>2 DEF Setup, Trouble
<1>3. CASE SetRaw
  <2>1. UNCHANGED <<tmpfds, stdin_valid_fd, quit_on_eof_, named, refuses, eof, gone>>
    BY <1>3 DEF SetRaw
  <2>2. /\ raw' = raw \/ raw' = TRUE
        /\ doors' = doors \/ doors' = doors - 1
        /\ ret' = ret \/ ret' = -1
    BY <1>3 DEF SetRaw
  <2>5. raw' \in BOOLEAN
    BY <2>2
  <2>6. doors = 1 /\ doors' \in {0, 1} /\ ret' \in {-1, 0, 2}
    BY <1>3, <2>2 DEF SetRaw
  <2>3. place' \in {"select", "exited"}
    BY <1>3 DEF SetRaw
  <2>4. QED  BY <2>1, <2>3, <2>5, <2>6
<1>4. CASE TryAgain
  BY <1>4 DEF TryAgain
<1>5. CASE SelectFds
  BY <1>5 DEF SelectFds, ReadableFds
<1>6. CASE Show
  BY <1>6 DEF Show
<1>7. CASE PassOn
  BY <1>7 DEF PassOn
<1>8. CASE StdinDone
  BY <1>8 DEF StdinDone, AtEof
<1>9. CASE RestoreTty
  BY <1>9 DEF RestoreTty
<1>10. CASE Shut
  BY <1>10 DEF Shut
<1>11. CASE Type \/ EndOfInput \/ Speak \/ HangUp
  BY <1>11 DEF Type, EndOfInput, Speak, HangUp
<1>12. CASE TerminalEnded \/ UNCHANGED terminalVars
  BY <1>12 DEF TerminalEnded, terminalVars
<1>13. QED
  BY <1>1, <1>2, <1>3, <1>4, <1>5, <1>6, <1>7, <1>8, <1>9, <1>10, <1>11, <1>12
     DEF TerminalNext, TerminalStep

(* usocket and serial never have the device open twice (TerminalTypeOK).   *)
THEOREM TerminalTyped == TerminalSpec => []TerminalTypeOK
<1>1. TerminalInit => TerminalTypeOK /\ DoorsInv
  BY InitTerminalTyped
<1>2. TerminalTypeOK /\ DoorsInv /\ [TerminalNext]_terminalVars => (TerminalTypeOK /\ DoorsInv)'
  BY StepTerminalTyped
<1>3. QED  BY <1>1, <1>2, PTL DEF TerminalSpec

(* Each of the programs keeps to its own specification while the others    *)
(* stay as they are.                                                       *)
LEMMA OneRuns ==
  [MCNext]_<<vars, sampleVars, terminalVars, running>> =>
    [Next]_vars /\ [SampleNext]_sampleVars /\ [TerminalNext]_terminalVars
BY DEF MCNext, InAutosample, InSampling, InTerminal

(* Every variable of the programs keeps its type, so counters stay below   *)
(* their rates, buffers within their size, and no device is opened twice   *)
(* (TypesOK).                                                              *)
THEOREM ProgramsTyped == MCSpec => []TypesOK
<1>1. MCInit => Init /\ SampleInit /\ TerminalInit
  BY DEF MCInit
<1>2. Init => TypeOK
  BY InitTyped
<1>3. TypeOK /\ [Next]_vars => TypeOK'
  BY StepTyped
<1>4. SampleInit => SampleInv
  BY InitSampled
<1>5. SampleInv /\ [SampleNext]_sampleVars => SampleInv'
  BY StepSampled
<1>6. TerminalInit => TerminalTypeOK /\ DoorsInv
  BY InitTerminalTyped
<1>7. TerminalTypeOK /\ DoorsInv /\ [TerminalNext]_terminalVars => (TerminalTypeOK /\ DoorsInv)'
  BY StepTerminalTyped
<1>8. TypeOK /\ SampleInv /\ TerminalTypeOK => TypesOK
  BY DEF SampleInv, TypesOK
<1>9. QED
  BY <1>1, <1>2, <1>3, <1>4, <1>5, <1>6, <1>7, <1>8, OneRuns, PTL DEF MCSpec

=============================================================================
