---------------------------- MODULE Forwarder_proofs ----------------------------
(***************************************************************************)
(* Proofs about Forwarder: what the follower reads, hands over and marks   *)
(* as done, for any number of lines, rotations, truncations, crashes and   *)
(* losses of power, and any size of the read buffer.                       *)
(***************************************************************************)
EXTENDS Forwarder, NaturalsInduction, WellFoundedInduction, FiniteSetTheorems, TLAPS

-----------------------------------------------------------------------------
(* The inductive invariant *)

Typed ==
    /\ TypeOK
    /\ rotations \in 0..MaxRotations /\ truncations \in Nat /\ crashes \in Nat
    /\ half => line \in Lines
    /\ pc # "down" => file \in Inodes

\* A file alternates between the two halves of a line; only the one that is
\* written to ends in a half, and its second half comes next.
Halves(c) ==
    \A k \in 1..Len(c) : IF k % 2 = 1 THEN ~c[k].nl
                         ELSE c[k].nl /\ c[k].line = c[k - 1].line
FileShape ==
    \A i \in Inodes :
       /\ Halves(content[i])
       /\ IF half /\ i = writer
          THEN Size(i) % 2 = 1 /\ content[i][Size(i)].line = line
          ELSE Size(i) % 2 = 0

\* No file was truncated: what was read of a file is still in it.
Intact  == truncations = 0
Running == pc # "down"

\* pending is what lies between the two offsets, and the committed one is the
\* end of a line.
PendingInv ==
    Intact /\ Running =>
      /\ readOffset <= Size(file) /\ committedOffset % 2 = 0
      /\ \A j \in 1..Len(pending) : pending[j] = content[file][committedOffset + j]

\* What is handed over is the line that ends at the committed offset.
CurInv ==
    Intact /\ Delivering =>
      committedOffset >= 2 /\ Whole(cur) /\ CurLine = content[file][committedOffset].line

\* The line has a fate that the checkpoint may count on.
Done(l) ==
    fate[l] \cap ({"stored", "dead", "erased"} \cup (IF InFormat(l) THEN {} ELSE {"dropped"})) # {}

\* Every line that ends within the first n units of file i is done.
Covered(i, n) == \A k \in 1..n : content[i][k].nl => Done(content[i][k].line)

DoneInv ==
    Intact /\ Running =>
      Covered(file, IF Delivering THEN committedOffset - 2 ELSE committedOffset)

\* The same of a checkpoint, on disk or durable.
CheckpointInv(c) ==
    Intact => c.offset % 2 = 0 /\ (c.inode # NoFile => c.offset <= Size(c.inode) /\ Covered(c.inode, c.offset))

IInv == /\ Typed /\ FileShape /\ OffsetsAgree /\ OnlyWholeLines
        /\ PendingInv /\ CurInv /\ DoneInv
        /\ CheckpointInv(checkpoint) /\ CheckpointInv(durable)

LEMMA Constants ==
  /\ Inodes = 1..(MaxRotations + 1) /\ 1 \in Inodes /\ MaxRotations \in Nat
  /\ Len(LineKinds) \in Nat /\ Lines = 1..Len(LineKinds)
  /\ NoFile \notin Inodes /\ BufUnits \in Nat \ {0}
BY ForwarderAssumption DEF Inodes, Lines

LEMMA Parity ==
  ASSUME NEW n \in Int
  PROVE  /\ n % 2 \in {0, 1} /\ (n + 2) % 2 = n % 2
         /\ n % 2 = 0 <=> (n + 1) % 2 = 1
         /\ n % 2 = 1 <=> (n + 1) % 2 = 0
OBVIOUS

LEMMA LeastNat ==
  ASSUME NEW S \in SUBSET Nat, NEW s \in S
  PROVE  \E m \in S : \A k \in S : m <= k
<1>1. IsWellFoundedOn(OpToRel(<, Nat), Nat)
  BY NatLessThanWellFounded
<1>2. PICK m \in S : \A k \in S : ~(<<k, m>> \in OpToRel(<, Nat))
  BY <1>1, WFMin, Zenon
<1>3. ASSUME NEW k \in S PROVE m <= k
  <2>1. k \in Nat /\ m \in Nat
    OBVIOUS
  <2>2. (k < m) => <<k, m>> \in OpToRel(<, Nat)
    BY <2>1 DEF OpToRel
  <2>3. ~(k < m)
    BY <1>2, <2>2, Zenon
  <2> QED BY <2>1, <2>3
<1> QED BY <1>3

LEMMA SubSeqAt ==
  ASSUME NEW S, NEW s \in Seq(S), NEW m \in Nat, NEW n \in Nat, m <= n, n <= Len(s)
  PROVE  /\ SubSeq(s, m + 1, n) \in Seq(S) /\ Len(SubSeq(s, m + 1, n)) = n - m
         /\ \A j \in 1..(n - m) : SubSeq(s, m + 1, n)[j] = s[m + j]
<1>1. Len(SubSeq(s, m + 1, n)) = n - m
  OBVIOUS
<1>2. \A j \in 1..(n - m) : SubSeq(s, m + 1, n)[j] = s[m + j]
  OBVIOUS
<1>3. SubSeq(s, m + 1, n) \in Seq(S)
  BY \A j \in (m + 1)..n : s[j] \in S
<1> QED BY <1>1, <1>2, <1>3

LEMMA ConcatAt ==
  ASSUME NEW S, NEW s \in Seq(S), NEW t \in Seq(S)
  PROVE  /\ s \o t \in Seq(S) /\ Len(s \o t) = Len(s) + Len(t)
         /\ \A j \in 1..Len(s) : (s \o t)[j] = s[j]
         /\ \A j \in 1..Len(t) : (s \o t)[Len(s) + j] = t[j]
OBVIOUS

LEMMA InitIInv == Init => IInv
<1> SUFFICES ASSUME Init PROVE IInv
  OBVIOUS
<1>1. gentle \in BOOLEAN
  BY ForwarderAssumption DEF Init
<1>2. /\ content = [i \in Inodes |-> <<>>] /\ path = 1 /\ writer = 1 /\ line = 1 /\ half = FALSE
      /\ rotations = 0 /\ truncations = 0 /\ crashes = 0
      /\ checkpoint = NoCheckpoint /\ durable = NoCheckpoint /\ pc = "down" /\ ctxDone = FALSE
      /\ file = NoFile /\ readOffset = 0 /\ committedOffset = 0 /\ pending = <<>> /\ cur = <<>>
      /\ handled = [l \in Lines |-> 0] /\ fate = [l \in Lines |-> {}] /\ torn = FALSE
  BY DEF Init
<1>3. content \in [Inodes -> Seq(Units)]
  BY <1>2
<1>4. NoCheckpoint \in [inode : Inodes \cup {NoFile}, offset : Nat]
      /\ NoCheckpoint.inode = NoFile /\ NoCheckpoint.offset = 0
  BY DEF NoCheckpoint
<1>5. Typed
  <2>1. half \in BOOLEAN /\ ctxDone \in BOOLEAN
    BY <1>2, Zenon
  <2>2. handled \in [Lines -> Nat] /\ fate \in [Lines -> SUBSET Fates]
    BY <1>2
  <2>3. pending \in Seq(Units) /\ cur \in Seq(Units)
    BY <1>2
  <2>4. /\ path \in Inodes \cup {NoFile} /\ writer \in Inodes /\ file \in Inodes \cup {NoFile}
        /\ line \in 1..(Len(LineKinds) + 1) /\ readOffset \in Nat /\ committedOffset \in Nat
        /\ rotations \in 0..MaxRotations /\ truncations \in Nat /\ crashes \in Nat
    BY <1>2, Constants
  <2> QED BY <1>1, <1>2, <1>3, <1>4, <2>1, <2>2, <2>3, <2>4 DEF Typed, TypeOK
<1>6. FileShape
  <2>1. \A i \in Inodes : content[i] = <<>> /\ Len(content[i]) = 0
    BY <1>2
  <2> QED BY <1>2, <2>1 DEF FileShape, Halves, Size
<1>7. OffsetsAgree /\ OnlyWholeLines /\ PendingInv /\ CurInv /\ DoneInv
  BY <1>2 DEF OffsetsAgree, OnlyWholeLines, PendingInv, CurInv, DoneInv, Delivering, Running
<1>8. CheckpointInv(checkpoint) /\ CheckpointInv(durable)
  BY <1>2, <1>4 DEF CheckpointInv
<1> QED BY <1>5, <1>6, <1>7, <1>8 DEF IInv

-----------------------------------------------------------------------------
(* The world: files only grow, but for a truncation *)

\* The follower does not feel that a file grew.
LEMMA Grown ==
  ASSUME IInv, UNCHANGED forwarder,
         Intact' => /\ Intact
                    /\ \A i \in Inodes : /\ Size(i)' \in Nat /\ Size(i) <= Size(i)'
                                         /\ \A k \in 1..Size(i) : content'[i][k] = content[i][k]
  PROVE  /\ OffsetsAgree' /\ OnlyWholeLines' /\ PendingInv' /\ CurInv' /\ DoneInv'
         /\ CheckpointInv(checkpoint)' /\ CheckpointInv(durable)'
<1> USE DEF IInv, forwarder, follower, history, setting
<1>1. \A i \in Inodes : Size(i) \in Nat
  BY DEF Typed, TypeOK, Size
<1>2. \A l : Done(l)' <=> Done(l)
  BY DEF Done, InFormat
<1>3. ASSUME Intact' PROVE \A i \in Inodes : \A n \in Int : n <= Size(i) /\ Covered(i, n) => Covered(i, n)'
  BY <1>1, <1>2, <1>3 DEF Covered
<1>4. readOffset \in Nat /\ committedOffset \in Nat /\ (Running => file \in Inodes) /\ Len(pending) \in Nat
  BY DEF Typed, TypeOK, Running
<1>5. ASSUME Intact', Running
      PROVE  Intact /\ readOffset <= Size(file) /\ committedOffset <= Size(file) /\ file \in Inodes
  BY <1>1, <1>4, <1>5 DEF PendingInv, OffsetsAgree
<1>6. OffsetsAgree' /\ OnlyWholeLines'
  BY DEF OffsetsAgree, OnlyWholeLines, Intact
<1>7. PendingInv'
  <2> SUFFICES ASSUME Intact', Running'
               PROVE  /\ readOffset' <= Size(file)' /\ committedOffset' % 2 = 0
                      /\ \A j \in 1..Len(pending') : pending'[j] = content'[file'][committedOffset' + j]
    BY DEF PendingInv
  <2>1. Running
    BY DEF Running
  <2>2. readOffset' <= Size(file)' /\ committedOffset' % 2 = 0
    BY <1>1, <1>4, <1>5, <2>1 DEF PendingInv, Size
  <2>3. \A j \in 1..Len(pending) : committedOffset + j \in 1..Size(file)
    BY <1>1, <1>4, <1>5, <2>1 DEF OffsetsAgree
  <2> QED BY <1>5, <2>1, <2>2, <2>3 DEF PendingInv
<1>8. CurInv'
  <2> SUFFICES ASSUME Intact', Delivering' PROVE CurInv'
    BY DEF CurInv
  <2>1. Running /\ Delivering
    BY DEF Running, Delivering
  <2>2. committedOffset >= 2 /\ Whole(cur) /\ CurLine = content[file][committedOffset].line
    BY <1>5, <2>1 DEF CurInv
  <2>3. content'[file][committedOffset] = content[file][committedOffset]
    BY <1>1, <1>4, <1>5, <2>1, <2>2
  <2>4. Whole(cur)' /\ CurLine' = CurLine
    BY <2>2 DEF Whole, CurLine
  <2> QED BY <2>2, <2>3, <2>4 DEF CurInv
<1>9. DoneInv'
  <2> SUFFICES ASSUME Intact', Running' PROVE DoneInv'
    BY DEF DoneInv
  <2> DEFINE n == IF Delivering THEN committedOffset - 2 ELSE committedOffset
  <2>1. Running /\ Intact /\ n' = n /\ n \in Int /\ n <= Size(file)
    BY <1>1, <1>4, <1>5 DEF Running, Delivering
  <2>2. Covered(file, n)
    BY <2>1 DEF DoneInv
  <2> HIDE DEF n
  <2>3. Covered(file, n)'
    BY <1>1, <1>2, <1>5, <2>1, <2>2 DEF Covered
  <2> QED BY <2>3 DEF DoneInv, n
<1>10. ASSUME NEW c \in [inode : Inodes \cup {NoFile}, offset : Nat], CheckpointInv(c)
       PROVE  CheckpointInv(c)'
  <2> SUFFICES ASSUME Intact' PROVE CheckpointInv(c)'
    BY DEF CheckpointInv
  <2>1. CASE c.inode = NoFile
    BY <1>10, <2>1 DEF CheckpointInv
  <2>2. CASE c.inode # NoFile
    <3>1. c.inode \in Inodes /\ c.offset \in Nat /\ c.offset <= Size(c.inode) /\ Covered(c.inode, c.offset)
      BY <1>10, <2>2 DEF CheckpointInv
    <3>2. c.offset <= Size(c.inode)'
      BY <1>1, <3>1
    <3>3. Covered(c.inode, c.offset)'
      BY <1>3, <3>1
    <3> QED BY <1>10, <3>2, <3>3 DEF CheckpointInv
  <2> QED BY <2>1, <2>2
<1>11. CheckpointInv(checkpoint)' /\ CheckpointInv(durable)'
  <2>1. {checkpoint, durable} \subseteq [inode : Inodes \cup {NoFile}, offset : Nat]
    BY DEF Typed, TypeOK
  <2>2. PICK c : c = checkpoint /\ CheckpointInv(c)'
    BY <1>10, <2>1
  <2>3. PICK d : d = durable /\ CheckpointInv(d)'
    BY <1>10, <2>1
  <2> QED BY <2>2, <2>3 DEF CheckpointInv
<1> QED BY <1>6, <1>7, <1>8, <1>9, <1>11

\* The application appends the first or the second half of its line.
LEMMA Appended ==
  ASSUME IInv, WriteFirstHalf \/ WriteSecondHalf
  PROVE  /\ line \in Lines /\ UNCHANGED forwarder /\ UNCHANGED <<path, writer, rotations, truncations>>
         /\ IF half THEN half' = FALSE /\ line' = line + 1 ELSE half' = TRUE /\ line' = line
         /\ content' \in [Inodes -> Seq(Units)]
         /\ \A i \in Inodes : i # writer => content'[i] = content[i]
         /\ Len(content'[writer]) = Size(writer) + 1
         /\ content'[writer][Size(writer) + 1] = [line |-> line, nl |-> half]
         /\ \A k \in 1..Size(writer) : content'[writer][k] = content[writer][k]
<1> USE DEF IInv
<1> DEFINE u == [line |-> line, nl |-> half]
           old == content[writer]
           n == Len(old)
<1>1. /\ line \in Lines /\ UNCHANGED forwarder /\ UNCHANGED <<path, writer, rotations, truncations>>
      /\ content' = [content EXCEPT ![writer] = Append(@, u)]
      /\ IF half THEN half' = FALSE /\ line' = line + 1 ELSE half' = TRUE /\ line' = line
  <2>1. CASE WriteFirstHalf
    <3>1. half = FALSE
      BY <2>1 DEF WriteFirstHalf, Typed, TypeOK
    <3> QED BY <2>1, <3>1 DEF WriteFirstHalf, Put
  <2>2. CASE WriteSecondHalf
    <3>1. half = TRUE /\ line \in Lines
      BY <2>2 DEF WriteSecondHalf, Typed, TypeOK
    <3>2. content' = [content EXCEPT ![writer] = Append(@, u)]
      BY <2>2, <3>1 DEF WriteSecondHalf, Put
    <3> QED BY <2>2, <3>1, <3>2 DEF WriteSecondHalf
  <2> QED BY <2>1, <2>2
<1>2. /\ writer \in Inodes /\ old \in Seq(Units) /\ n \in Nat /\ half \in BOOLEAN
      /\ \A i \in Inodes : content[i] \in Seq(Units) /\ Size(i) \in Nat
  BY DEF Typed, TypeOK, Size
<1>3. u \in Units /\ u.line = line /\ (u.nl <=> half)
  BY <1>1, <1>2 DEF Units
<1> HIDE DEF u
<1>4. /\ content'[writer] = Append(old, u) /\ content' \in [Inodes -> Seq(Units)]
      /\ \A i \in Inodes : i # writer => content'[i] = content[i]
  <2>1. content \in [Inodes -> Seq(Units)]
    BY DEF Typed, TypeOK
  <2> DEFINE new == Append(old, u)
  <2>2. new \in Seq(Units) /\ content' = [content EXCEPT ![writer] = new]
    BY <1>1, <1>2, <1>3
  <2> HIDE DEF new
  <2>3. content'[writer] = new /\ content' \in [Inodes -> Seq(Units)]
        /\ \A i \in Inodes : i # writer => content'[i] = content[i]
    BY <1>2, <2>1, <2>2
  <2> QED BY <2>3 DEF new
<1>5. /\ Len(content'[writer]) = n + 1 /\ content'[writer][n + 1] = u
      /\ \A k \in 1..n : content'[writer][k] = old[k]
  BY <1>2, <1>3, <1>4
<1> QED BY <1>1, <1>4, <1>5 DEF Size, u

LEMMA WriteKeeps ==
  ASSUME IInv, WriteFirstHalf \/ WriteSecondHalf
  PROVE  IInv'
<1> USE DEF IInv
<1> DEFINE u == [line |-> line, nl |-> half]
           old == content[writer]
           n == Len(old)
<1>1. /\ line \in Lines /\ UNCHANGED forwarder /\ UNCHANGED <<path, writer, rotations, truncations>>
      /\ IF half THEN half' = FALSE /\ line' = line + 1 ELSE half' = TRUE /\ line' = line
  BY Appended
<1>2. /\ writer \in Inodes /\ old \in Seq(Units) /\ n \in Nat /\ half \in BOOLEAN
      /\ \A i \in Inodes : content[i] \in Seq(Units) /\ Size(i) \in Nat
  BY DEF Typed, TypeOK, Size
<1>3. u.line = line /\ (u.nl <=> half)
  BY <1>2
<1> HIDE DEF u
<1>4. /\ content' \in [Inodes -> Seq(Units)]
      /\ \A i \in Inodes : i # writer => content'[i] = content[i]
  BY Appended
<1>5. /\ Len(content'[writer]) = n + 1 /\ content'[writer][n + 1] = u
      /\ \A k \in 1..n : content'[writer][k] = old[k]
  BY Appended DEF Size, u
<1>6. \A i \in Inodes : /\ Size(i)' \in Nat /\ Size(i) <= Size(i)'
                        /\ \A k \in 1..Size(i) : content'[i][k] = content[i][k]
  BY <1>2, <1>4, <1>5 DEF Size
<1>7. Typed'
  <2>1. half' \in BOOLEAN
    BY <1>1, Zenon
  <2>2. line' \in 1..(Len(LineKinds) + 1)
    <3>1. line \in 1..Len(LineKinds) /\ Len(LineKinds) \in Nat /\ (line' = line \/ line' = line + 1)
      BY <1>1, Constants
    <3> HIDE DEF IInv
    <3> QED BY <3>1
  <2>3. half' => line' \in Lines
    BY <1>1
  <2> QED BY <1>1, <1>4, <2>1, <2>2, <2>3 DEF Typed, TypeOK, forwarder, setting, follower, history
<1>8. FileShape'
  <2>1. /\ Halves(old)
        /\ IF half THEN n % 2 = 1 /\ old[n].line = line ELSE n % 2 = 0
    BY <1>2 DEF FileShape, Size
  <2> HIDE DEF old, n
  <2>p. (n % 2 = 0 => (n + 1) % 2 = 1) /\ (n % 2 = 1 => (n + 1) % 2 = 0)
    BY <1>2, Parity
  <2>2. Halves(content'[writer])
    <3> SUFFICES ASSUME NEW k \in 1..(n + 1)
                 PROVE  IF k % 2 = 1 THEN ~content'[writer][k].nl
                        ELSE content'[writer][k].nl /\ content'[writer][k].line = content'[writer][k - 1].line
      BY <1>5 DEF Halves
    <3>1. CASE k \in 1..n
      <4>1. content'[writer][k] = old[k] /\ (k % 2 # 1 => content'[writer][k - 1] = old[k - 1])
        BY <1>2, <1>5, <3>1
      <4> QED BY <2>1, <3>1, <4>1 DEF Halves, n
    <3>2. CASE k = n + 1
      <4>1. CASE half
        <5>1. k % 2 # 1 /\ content'[writer][k] = u /\ content'[writer][k - 1] = old[n]
          BY <1>2, <1>5, <2>1, <2>p, <3>2, <4>1
        <5> QED BY <1>3, <2>1, <4>1, <5>1
      <4>2. CASE ~half
        <5>1. k % 2 = 1
          BY <1>2, <2>1, <2>p, <3>2, <4>2
        <5> QED BY <1>3, <1>5, <3>2, <4>2, <5>1
      <4> QED BY <4>1, <4>2
    <3> QED BY <1>2, <3>1, <3>2
  <2>3. IF half' THEN (n + 1) % 2 = 1 /\ content'[writer][n + 1].line = line' ELSE (n + 1) % 2 = 0
    BY <1>1, <1>2, <1>3, <1>5, <2>1, <2>p
  <2>4. ASSUME NEW i \in Inodes
        PROVE  /\ Halves(content'[i])
               /\ IF half' /\ i = writer
                  THEN Len(content'[i]) % 2 = 1 /\ content'[i][Len(content'[i])].line = line'
                  ELSE Len(content'[i]) % 2 = 0
    <3>1. CASE i = writer
      BY <1>5, <2>2, <2>3, <3>1
    <3>2. CASE i # writer
      BY <1>4, <3>2 DEF FileShape, Size
    <3> QED BY <3>1, <3>2
  <2> QED BY <1>1, <2>4 DEF FileShape, Size, Halves
<1>9. Intact' => Intact
  BY <1>1 DEF Intact
<1> QED BY <1>1, <1>6, <1>7, <1>8, <1>9, Grown

\* Rotation, recreation and truncation, and the application that follows.
LEMMA RotationKeeps ==
  ASSUME IInv, Rename \/ Create \/ Reopen \/ Truncate
  PROVE  IInv'
<1> USE DEF IInv
<1>1. /\ UNCHANGED forwarder /\ UNCHANGED <<line, half>>
  BY DEF Rename, Create, Reopen, Truncate
<1>2. /\ writer' = writer \/ (half = FALSE /\ writer' \in Inodes)
      /\ path' \in Inodes \cup {NoFile} /\ rotations' \in 0..MaxRotations
      /\ truncations' \in Nat
  <2>1. half \in BOOLEAN /\ gentle \in BOOLEAN
    BY DEF Typed, TypeOK
  <2>2. rotations + 1 \in Inodes
    BY Constants DEF Typed
  <2>3. writer' = writer \/ (half = FALSE /\ writer' \in Inodes)
    BY <2>1, <2>2 DEF Rename, Create, Reopen, Truncate, Typed, TypeOK
  <2>4. path' \in Inodes \cup {NoFile}
    BY <2>2 DEF Rename, Create, Reopen, Truncate, Typed, TypeOK
  <2>5. rotations' \in 0..MaxRotations /\ truncations' \in Nat
    BY Constants DEF Rename, Create, Reopen, Truncate, Typed
  <2> QED BY <2>3, <2>4, <2>5
<1>3. \/ content' = content /\ truncations' = truncations
      \/ /\ content' = [content EXCEPT ![path] = <<>>] /\ path \in Inodes /\ half = FALSE
         /\ truncations' # 0
  BY DEF Rename, Create, Reopen, Truncate, Typed, TypeOK
<1>4. /\ content \in [Inodes -> Seq(Units)] /\ content' \in [Inodes -> Seq(Units)]
      /\ \A i \in Inodes : Size(i) \in Nat
  <2>1. content \in [Inodes -> Seq(Units)] /\ \A i \in Inodes : Size(i) \in Nat
    BY DEF Typed, TypeOK, Size
  <2>2. <<>> \in Seq(Units)
    OBVIOUS
  <2> QED BY <1>3, <2>1, <2>2
<1>5. Typed'
  BY <1>1, <1>2, <1>4 DEF Typed, TypeOK, forwarder, setting, follower, history
<1>6. FileShape'
  <2> SUFFICES ASSUME NEW i \in Inodes
               PROVE  /\ Halves(content'[i])
                      /\ IF half' /\ i = writer'
                         THEN Len(content'[i]) % 2 = 1 /\ content'[i][Len(content'[i])].line = line'
                         ELSE Len(content'[i]) % 2 = 0
    BY DEF FileShape, Size, Halves
  <2>1. /\ Halves(content[i])
        /\ IF half /\ i = writer
           THEN Len(content[i]) % 2 = 1 /\ content[i][Len(content[i])].line = line
           ELSE Len(content[i]) % 2 = 0
    BY DEF FileShape, Size
  <2>2. (half /\ i = writer) <=> (half' /\ i = writer')
    BY <1>1, <1>2
  <2>3. CASE content'[i] = content[i]
    BY <1>1, <2>1, <2>2, <2>3
  <2>4. CASE content'[i] # content[i]
    <3>1. content'[i] = <<>> /\ half = FALSE
      BY <1>3, <1>4, <2>4
    <3>2. Len(content'[i]) = 0 /\ Halves(content'[i])
      BY <3>1 DEF Halves
    <3> QED BY <1>1, <3>1, <3>2
  <2> QED BY <2>3, <2>4
<1>7. Intact' => /\ Intact
                 /\ \A i \in Inodes : /\ Size(i)' \in Nat /\ Size(i) <= Size(i)'
                                      /\ \A k \in 1..Size(i) : content'[i][k] = content[i][k]
  BY <1>3, <1>4 DEF Intact, Size
<1> QED BY <1>1, <1>5, <1>6, <1>7, Grown

-----------------------------------------------------------------------------
(* The follower: files stay as they are, and what is done stays done *)

LEMMA Undisturbed ==
  ASSUME IInv, UNCHANGED world, \A l \in Lines : Done(l) => Done(l)'
  PROVE  /\ FileShape' /\ (Intact' <=> Intact)
         /\ \A i \in Inodes : \A n \in Int : n <= Size(i) /\ Covered(i, n) => Covered(i, n)'
         /\ \A c \in [inode : Inodes \cup {NoFile}, offset : Nat] :
               CheckpointInv(c) => CheckpointInv(c)'
<1> USE DEF IInv, world, setting
<1>1. FileShape' /\ (Intact' <=> Intact) /\ (\A i : Size(i)' = Size(i))
  BY DEF FileShape, Halves, Size, Intact
<1>2. \A i \in Inodes : /\ Size(i) \in Nat
                        /\ \A k \in 1..Size(i) : content[i][k].line \in Lines
  <2>1. \A i \in Inodes : content[i] \in Seq(Units)
    BY DEF Typed, TypeOK
  <2>2. \A i \in Inodes : Size(i) \in Nat /\ \A k \in 1..Size(i) : content[i][k] \in Units
    BY <2>1 DEF Size
  <2> QED BY <2>2 DEF Units
<1>3. ASSUME NEW i \in Inodes, NEW n \in Int, n <= Size(i), Covered(i, n) PROVE Covered(i, n)'
  <2> SUFFICES ASSUME NEW k \in 1..n, content[i][k].nl PROVE Done(content[i][k].line)'
    BY DEF Covered
  <2>1. content[i][k].line \in Lines /\ Done(content[i][k].line)
    BY <1>2, <1>3 DEF Covered
  <2>2. PICK l \in Lines : l = content[i][k].line /\ Done(l)'
    BY <2>1
  <2> QED BY <2>2 DEF Done, InFormat
<1>4. ASSUME NEW c \in [inode : Inodes \cup {NoFile}, offset : Nat], CheckpointInv(c)
      PROVE  CheckpointInv(c)'
  <2> SUFFICES ASSUME Intact PROVE CheckpointInv(c)'
    BY <1>1 DEF CheckpointInv
  <2>1. CASE c.inode = NoFile
    BY <1>4, <2>1 DEF CheckpointInv
  <2>2. CASE c.inode # NoFile
    <3>1. c.inode \in Inodes /\ c.offset \in Nat /\ c.offset <= Size(c.inode) /\ Covered(c.inode, c.offset)
      BY <1>4, <2>2 DEF CheckpointInv
    <3>2. Covered(c.inode, c.offset)'
      BY <1>3, <3>1
    <3> QED BY <1>1, <1>4, <3>1, <3>2 DEF CheckpointInv
  <2> QED BY <2>1, <2>2
<1> QED BY <1>1, <1>3, <1>4

\* The part of the invariant that is about the process.
ProcessInv == OffsetsAgree /\ OnlyWholeLines /\ PendingInv /\ CurInv /\ DoneInv

LEMMA DoneUnchanged ==
  ASSUME UNCHANGED <<config, fate>>
  PROVE  \A l \in Lines : Done(l) => Done(l)'
BY DEF Done, InFormat

\* The process goes on from one place to the next.
LEMMA MovesOn ==
  ASSUME IInv, UNCHANGED <<world, follower, history>>, Running, Running', ~Delivering, ~Delivering'
  PROVE  ProcessInv'
<1> USE DEF IInv, world, setting, follower, history
<1>1. OffsetsAgree' /\ OnlyWholeLines' /\ CurInv'
  BY DEF OffsetsAgree, OnlyWholeLines, CurInv
<1>2. PendingInv'
  BY DEF PendingInv, Intact, Size
<1>3. DoneInv'
  BY DEF DoneInv, Intact, Covered, Done, InFormat
<1> QED BY <1>1, <1>2, <1>3 DEF ProcessInv

\* The process ends.
LEMMA Ends ==
  ASSUME IInv, Exit, UNCHANGED <<world, torn>>
  PROVE  ProcessInv'
<1>1. pc' = "down" /\ readOffset' = 0 /\ committedOffset' = 0 /\ pending' = <<>>
  BY DEF Exit
<1>2. OffsetsAgree' /\ OnlyWholeLines'
  BY <1>1 DEF OffsetsAgree, OnlyWholeLines, IInv, world
<1>3. ~Running' /\ ~Delivering'
  BY <1>1 DEF Running, Delivering
<1> QED BY <1>2, <1>3 DEF ProcessInv, PendingInv, CurInv, DoneInv

\* A file is opened at the end of a line up to which all is done.
LEMMA Opens ==
  ASSUME IInv, UNCHANGED <<world, history>>, path \in Inodes, NEW offset \in Nat, OpenAt(offset),
         Running', ~Delivering',
         Intact => offset <= Size(path) /\ offset % 2 = 0 /\ Covered(path, offset)
  PROVE  ProcessInv'
<1> USE DEF IInv, world, setting, history
<1>1. file' = path /\ readOffset' = offset /\ committedOffset' = offset /\ pending' = <<>>
  BY DEF OpenAt
<1>2. OffsetsAgree' /\ OnlyWholeLines' /\ CurInv'
  BY <1>1 DEF OffsetsAgree, OnlyWholeLines, CurInv
<1>3. PendingInv'
  BY <1>1 DEF PendingInv, Intact, Size
<1>4. DoneInv'
  <2> SUFFICES ASSUME Intact PROVE Covered(path, offset)'
    BY <1>1 DEF DoneInv, Intact, Covered, Done, InFormat
  <2> QED BY DEF Covered, Done, InFormat
<1> QED BY <1>2, <1>3, <1>4 DEF ProcessInv

LEMMA Pcs == DOMAIN AfterSync = {"synced", "drainsynced", "waitsynced"}
             /\ AfterSync["synced"] = "lines" /\ AfterSync["drainsynced"] = "drainlines"
             /\ AfterSync["waitsynced"] = "wait"
BY DEF AfterSync

\* LoadConfig rejects a configuration whose source file is not there.
LEMMA SourceThere ==
  ASSUME NEW c, NEW there, Accepted(c, there)
  PROVE  there
<1> SUFFICES ASSUME ~there PROVE FALSE
  OBVIOUS
<1>1. Problems(c, there) = {}
  BY DEF Accepted
<1>2. CASE "source_file" \in c.strings
  <2>1. "source_file_inaccessible" \in Problems(c, there)
    BY <1>2 DEF Problems
  <2> QED BY <1>1, <2>1
<1>3. CASE "source_file" \notin c.strings
  <2>1. "source_file" \in Problems(c, there)
    BY <1>3 DEF Problems, RequiredStrings
  <2> QED BY <1>1, <2>1
<1> QED BY <1>2, <1>3

LEMMA OpenKeeps == ASSUME IInv, openFromCheckpoint PROVE IInv'
<1> USE DEF IInv
<1> DEFINE offset == ResumeOffset(path)
<1>1. path \in Inodes
  BY SourceThere DEF openFromCheckpoint, Typed, TypeOK
<1>2. /\ UNCHANGED <<world, history>> /\ OpenAt(offset) /\ pc' = "read"
      /\ UNCHANGED <<crashes, checkpoint, durable, ctxDone, cur>>
  BY DEF openFromCheckpoint, Goto
<1>3. checkpoint.offset \in Nat /\ offset \in Nat /\ Size(path) \in Nat
  BY <1>1 DEF Typed, TypeOK, ResumeOffset, Size
<1>4. Intact => offset <= Size(path) /\ offset % 2 = 0 /\ Covered(path, offset)
  <2>1. CASE offset = 0
    BY <1>3, <2>1 DEF Covered
  <2>2. CASE offset # 0
    <3>1. offset = checkpoint.offset /\ checkpoint.inode = path /\ offset <= Size(path)
      BY <2>2 DEF ResumeOffset
    <3>2. checkpoint.inode # NoFile
      BY <1>1, <3>1, Constants
    <3> HIDE DEF offset
    <3> QED BY <3>1, <3>2 DEF CheckpointInv
  <2> QED BY <2>1, <2>2
<1>5. Running' /\ ~Delivering'
  BY <1>2 DEF Running, Delivering
<1> HIDE DEF offset
<1>6. PICK o \in Nat : o = offset
  BY <1>3
<1>7. ProcessInv'
  BY <1>1, <1>2, <1>4, <1>5, <1>6, Opens
<1>8. /\ FileShape'
      /\ \A c \in [inode : Inodes \cup {NoFile}, offset : Nat] : CheckpointInv(c) => CheckpointInv(c)'
  BY <1>2, DoneUnchanged, Undisturbed DEF world, setting, history
<1>9. CheckpointInv(checkpoint)' /\ CheckpointInv(durable)'
  BY <1>2, <1>8 DEF Typed, TypeOK, CheckpointInv
<1>10. Typed'
  BY <1>1, <1>2, <1>3 DEF Typed, TypeOK, OpenAt, world, setting, history
<1> QED BY <1>7, <1>8, <1>9, <1>10 DEF ProcessInv

\* What a Read that is not at the end of the file adds to pending.
LEMMA Got ==
  ASSUME IInv, Read, readOffset' # readOffset
  PROVE  /\ pc' \in {"lines", "drainlines"} /\ (pc = "read" => pc' = "lines")
         /\ readOffset' \in Nat /\ readOffset < readOffset' /\ readOffset' <= Size(file)
         /\ pending' \in Seq(Units) /\ Len(pending') = Len(pending) + (readOffset' - readOffset)
         /\ \A j \in 1..Len(pending) : pending'[j] = pending[j]
         /\ \A j \in 1..(readOffset' - readOffset) : pending'[Len(pending) + j] = content[file][readOffset + j]
<1> USE DEF IInv
<1>1. pc \in {"read", "drain"} /\ file \in Inodes
  BY DEF Read, Typed
<1> DEFINE size == Size(file)
           end == IF readOffset + BufUnits < size THEN readOffset + BufUnits ELSE size
           got == SubSeq(content[file], readOffset + 1, end)
<1>2. /\ size \in Nat /\ content[file] \in Seq(Units) /\ size = Len(content[file])
      /\ readOffset \in Nat /\ pending \in Seq(Units) /\ Len(pending) \in Nat /\ BufUnits \in Nat \ {0}
  BY <1>1, Constants DEF Typed, TypeOK, Size
<1>3. /\ readOffset < end /\ pending' = pending \o got /\ readOffset' = end
      /\ pc' = IF pc = "read" THEN "lines" ELSE "drainlines"
  BY DEF Read, Goto
<1>4. end \in Nat /\ end <= size
  BY <1>2
<1> HIDE DEF end
<1>5. /\ got \in Seq(Units) /\ Len(got) = end - readOffset
      /\ \A j \in 1..Len(got) : got[j] = content[file][readOffset + j]
  <2>1. readOffset <= end /\ end <= Len(content[file])
    BY <1>2, <1>3, <1>4
  <2> QED BY <1>2, <1>4, <2>1, SubSeqAt
<1> HIDE DEF got
<1>6. /\ pending' \in Seq(Units) /\ Len(pending') = Len(pending) + Len(got)
      /\ \A j \in 1..Len(pending) : pending'[j] = pending[j]
      /\ \A j \in 1..Len(got) : pending'[Len(pending) + j] = got[j]
  <2>1. pending \in Seq(Units) /\ got \in Seq(Units)
    BY <1>2, <1>5
  <2>2. /\ pending \o got \in Seq(Units) /\ Len(pending \o got) = Len(pending) + Len(got)
        /\ \A j \in 1..Len(pending) : (pending \o got)[j] = pending[j]
        /\ \A j \in 1..Len(got) : (pending \o got)[Len(pending) + j] = got[j]
    BY <2>1, ConcatAt
  <2> QED BY <1>3, <2>2, Zenon
<1> QED BY <1>1, <1>3, <1>4, <1>5, <1>6

LEMMA ReadKeeps == ASSUME IInv, Read PROVE IInv'
<1> USE DEF IInv
<1>1. /\ pc \in {"read", "drain"} /\ Running /\ ~Delivering /\ file \in Inodes
      /\ UNCHANGED <<world, crashes, checkpoint, durable, ctxDone, file, committedOffset, cur, history>>
  BY DEF Read, Running, Delivering, Typed
<1>2. /\ FileShape' /\ (Intact' <=> Intact)
      /\ \A c \in [inode : Inodes \cup {NoFile}, offset : Nat] : CheckpointInv(c) => CheckpointInv(c)'
  BY <1>1, DoneUnchanged, Undisturbed DEF world, setting, history
<1>3. CheckpointInv(checkpoint)' /\ CheckpointInv(durable)'
  BY <1>1, <1>2 DEF Typed, TypeOK, CheckpointInv
<1> DEFINE size == Size(file)
           end == IF readOffset + BufUnits < size THEN readOffset + BufUnits ELSE size
<1>4. /\ size \in Nat /\ content[file] \in Seq(Units) /\ size = Len(content[file])
      /\ readOffset \in Nat /\ committedOffset \in Nat
      /\ pending \in Seq(Units) /\ Len(pending) \in Nat /\ BufUnits \in Nat \ {0}
  BY <1>1, Constants DEF Typed, TypeOK, Size
<1>5. CASE ~(readOffset < end)
  <2>1. UNCHANGED <<pending, readOffset>> /\ pc' \in {"stat", "reopen"}
    BY <1>1, <1>5 DEF Read, Goto
  <2>2. Running' /\ ~Delivering'
    BY <2>1 DEF Running, Delivering
  <2>3. ProcessInv'
    BY <1>1, <2>1, <2>2, MovesOn DEF follower
  <2>4. Typed'
    BY <1>1, <2>1 DEF Typed, TypeOK, world, setting, history
  <2> QED BY <1>2, <1>3, <2>3, <2>4 DEF ProcessInv
<1>6. CASE readOffset < end
  <2> DEFINE m == end - readOffset
  <2>1. readOffset' = end /\ pc' \in {"lines", "drainlines"}
    BY <1>1, <1>6 DEF Read, Goto
  <2>2. end \in Nat /\ end <= size
    BY <1>4
  <2> HIDE DEF end
  <2>3. m \in Nat /\ readOffset' # readOffset
    BY <1>4, <1>6, <2>1, <2>2
  <2>4. /\ pending' \in Seq(Units) /\ Len(pending') = Len(pending) + m
        /\ \A j \in 1..Len(pending) : pending'[j] = pending[j]
        /\ \A j \in 1..m : pending'[Len(pending) + j] = content[file][readOffset + j]
    BY <2>1, <2>3, Got
  <2>5. Typed'
    BY <1>1, <2>1, <2>2, <2>4 DEF Typed, TypeOK, world, setting, history
  <2>6. OffsetsAgree'
    BY <1>1, <1>4, <2>1, <2>2, <2>3, <2>4 DEF OffsetsAgree
  <2>7. OnlyWholeLines' /\ CurInv' /\ Running' /\ ~Delivering'
    BY <1>1, <2>1 DEF OnlyWholeLines, CurInv, Delivering, Running, world, history
  <2>8. PendingInv'
    <3> SUFFICES ASSUME Intact
                 PROVE  /\ readOffset' <= Size(file)' /\ committedOffset' % 2 = 0
                        /\ \A j \in 1..Len(pending') : pending'[j] = content'[file'][committedOffset' + j]
      BY <1>2 DEF PendingInv
    <3>1. /\ committedOffset % 2 = 0
          /\ \A j \in 1..Len(pending) : pending[j] = content[file][committedOffset + j]
      BY <1>1 DEF PendingInv
    <3>2. Size(file)' = size
      BY <1>1 DEF Size, world
    <3>3. ASSUME NEW j \in 1..Len(pending') PROVE pending'[j] = content[file][committedOffset + j]
      <4> HIDE DEF size
      <4>0. j \in Int /\ j >= 1 /\ j <= Len(pending) + m
        BY <1>4, <2>3, <2>4
      <4>1. CASE j <= Len(pending)
        <5>1. j \in 1..Len(pending)
          BY <1>4, <4>0, <4>1
        <5> QED BY <2>4, <3>1, <5>1
      <4>2. CASE ~(j <= Len(pending))
        <5>1. PICK k \in 1..m : j = Len(pending) + k
          <6>1. j - Len(pending) \in 1..m /\ j = Len(pending) + (j - Len(pending))
            BY <1>4, <2>3, <4>0, <4>2
          <6> QED BY <6>1
        <5>2. pending'[j] = content[file][readOffset + k]
          BY <2>4, <5>1
        <5>3. readOffset + k = committedOffset + j
          BY <1>4, <5>1 DEF OffsetsAgree
        <5> QED BY <5>2, <5>3
      <4> QED BY <4>1, <4>2
    <3> QED BY <1>1, <2>1, <2>2, <3>1, <3>2, <3>3 DEF world
  <2>9. DoneInv'
    <3> SUFFICES ASSUME Intact PROVE Covered(file, committedOffset)'
      BY <1>2, <2>7 DEF DoneInv
    <3>1. Covered(file, committedOffset)
      BY <1>1 DEF DoneInv
    <3> QED BY <1>1, <3>1 DEF Covered, Done, InFormat, world, setting, history
  <2> QED BY <1>2, <1>3, <2>5, <2>6, <2>7, <2>8, <2>9
<1> QED BY <1>5, <1>6

\* While files are intact the first newline ends the line at the committed offset.
LEMMA NextLine ==
  ASSUME IInv, Intact, Running, NEW i \in NewlineAt, \A j \in NewlineAt : i <= j
  PROVE  /\ i = 2 /\ Len(pending) >= 2 /\ committedOffset + 2 <= Size(file)
         /\ pending[1].nl = FALSE /\ pending[2].nl = TRUE /\ pending[1].line = pending[2].line
         /\ pending[1] = content[file][committedOffset + 1]
         /\ pending[2] = content[file][committedOffset + 2]
<1> USE DEF IInv
<1>1. /\ pending \in Seq(Units) /\ committedOffset \in Nat /\ readOffset \in Nat /\ Len(pending) \in Nat
      /\ file \in Inodes /\ content[file] \in Seq(Units) /\ Size(file) = Len(content[file])
      /\ Size(file) \in Nat
  BY DEF Typed, TypeOK, Running, Size
<1>2. /\ readOffset <= Size(file) /\ committedOffset % 2 = 0
      /\ \A j \in 1..Len(pending) : pending[j] = content[file][committedOffset + j]
  BY DEF PendingInv
<1>3. i \in 1..Len(pending) /\ pending[i].nl
  BY <1>1 DEF NewlineAt
<1>4. committedOffset + Len(pending) <= Size(file)
  BY <1>1, <1>2 DEF OffsetsAgree
<1>5. Halves(content[file])
  BY <1>1 DEF FileShape
<1>6. (committedOffset + 1) % 2 = 1 /\ (committedOffset + 2) % 2 = 0
  BY <1>1, <1>2, Parity
<1>7. /\ ~content[file][committedOffset + 1].nl /\ i # 1
      /\ pending[1] = content[file][committedOffset + 1]
  <2>1. committedOffset + 1 \in 1..Len(content[file]) /\ 1 \in 1..Len(pending)
    BY <1>1, <1>3, <1>4
  <2>2. ~content[file][committedOffset + 1].nl
    BY <1>5, <1>6, <2>1 DEF Halves
  <2> QED BY <1>2, <1>3, <2>1, <2>2
<1>8. Len(pending) >= 2 /\ 2 \in 1..Len(pending) /\ committedOffset + 2 \in 1..Len(content[file])
  BY <1>1, <1>3, <1>4, <1>7
<1>9. /\ content[file][committedOffset + 2].nl
      /\ content[file][committedOffset + 2].line = content[file][committedOffset + 1].line
  <2>1. (committedOffset + 2) - 1 = committedOffset + 1
    BY <1>1
  <2> QED BY <1>5, <1>6, <1>8, <2>1 DEF Halves
<1>10. pending[2] = content[file][committedOffset + 2]
  BY <1>2, <1>8
<1>11. 2 \in NewlineAt
  BY <1>1, <1>8, <1>9, <1>10 DEF NewlineAt
<1>12. i = 2
  BY <1>1, <1>3, <1>7, <1>11
<1>13. pending[1] \in Units /\ pending[2] \in Units
  BY <1>1, <1>8
<1>14. pending[1].nl = FALSE /\ pending[2].nl = TRUE
  BY <1>7, <1>9, <1>10, <1>13 DEF Units
<1> QED BY <1>7, <1>8, <1>9, <1>10, <1>12, <1>14, <1>1

\* The line that CutLine cuts off pending when there is one.
LEMMA CutOff ==
  ASSUME IInv, CutLine, NewlineAt # {}
  PROVE  \E idx \in NewlineAt :
           /\ \A j \in NewlineAt : idx <= j
           /\ idx \in 1..Len(pending) /\ idx \in Nat
           /\ cur' \in Seq(Units) /\ Len(cur') = idx /\ \A j \in 1..idx : cur'[j] = pending[j]
           /\ pending' \in Seq(Units) /\ Len(pending') = Len(pending) - idx
           /\ \A j \in 1..(Len(pending) - idx) : pending'[j] = pending[idx + j]
           /\ committedOffset' = committedOffset + idx /\ pc' \in {"deliver", "draindeliver"}
           /\ (pc = "lines" => pc' = "deliver")
<1> USE DEF IInv
<1> DEFINE idx == CHOOSE i \in NewlineAt : \A j \in NewlineAt : i <= j
           n == Len(pending)
<1>1. /\ cur' = SubSeq(pending, 1, idx) /\ pending' = SubSeq(pending, idx + 1, n)
      /\ committedOffset' = committedOffset + idx /\ pc' \in {"deliver", "draindeliver"}
  BY DEF CutLine, Goto
<1>2. pending \in Seq(Units) /\ n \in Nat /\ committedOffset \in Nat /\ readOffset \in Nat
  BY DEF Typed, TypeOK
<1>3. idx \in NewlineAt /\ \A j \in NewlineAt : idx <= j
  <2>1. NewlineAt \in SUBSET Nat
    BY <1>2 DEF NewlineAt
  <2>2. \E m \in NewlineAt : \A k \in NewlineAt : m <= k
    BY <2>1, LeastNat
  <2> QED BY <2>2
<1> HIDE DEF idx
<1>4. idx \in 1..n /\ idx \in Nat
  BY <1>2, <1>3 DEF NewlineAt
<1> HIDE DEF n
<1>5. /\ cur' \in Seq(Units) /\ Len(cur') = idx /\ \A j \in 1..idx : cur'[j] = pending[j]
  <2>1. /\ SubSeq(pending, 0 + 1, idx) \in Seq(Units) /\ Len(SubSeq(pending, 0 + 1, idx)) = idx - 0
        /\ \A j \in 1..(idx - 0) : SubSeq(pending, 0 + 1, idx)[j] = pending[0 + j]
    BY <1>2, <1>4, SubSeqAt DEF n
  <2> QED BY <1>1, <1>4, <2>1
<1>6. /\ pending' \in Seq(Units) /\ Len(pending') = n - idx
      /\ \A j \in 1..(n - idx) : pending'[j] = pending[idx + j]
  <2>1. /\ SubSeq(pending, idx + 1, n) \in Seq(Units) /\ Len(SubSeq(pending, idx + 1, n)) = n - idx
        /\ \A j \in 1..(n - idx) : SubSeq(pending, idx + 1, n)[j] = pending[idx + j]
    BY <1>2, <1>4, SubSeqAt DEF n
  <2> QED BY <1>1, <2>1, Zenon
<1>7. pc \in {"lines", "drainlines"} /\ (pc = "lines" => pc' = "deliver")
  BY DEF CutLine, Goto
<1> QED BY <1>1, <1>3, <1>4, <1>5, <1>6, <1>7 DEF n

LEMMA CutKeeps == ASSUME IInv, CutLine PROVE IInv'
<1> USE DEF IInv
<1>1. /\ pc \in {"lines", "drainlines"} /\ Running /\ ~Delivering /\ file \in Inodes
      /\ UNCHANGED <<world, crashes, checkpoint, durable, ctxDone, file, readOffset, history>>
  BY DEF CutLine, Running, Delivering, Typed
<1>2. /\ FileShape' /\ (Intact' <=> Intact)
      /\ \A c \in [inode : Inodes \cup {NoFile}, offset : Nat] : CheckpointInv(c) => CheckpointInv(c)'
  BY <1>1, DoneUnchanged, Undisturbed DEF world, setting, history
<1>3. CheckpointInv(checkpoint)' /\ CheckpointInv(durable)'
  BY <1>1, <1>2 DEF Typed, TypeOK, CheckpointInv
<1>4. CASE NewlineAt = {}
  <2>1. UNCHANGED <<pending, committedOffset, cur>> /\ pc' \in {"read", "drain"}
    BY <1>1, <1>4 DEF CutLine, Goto
  <2>2. Running' /\ ~Delivering'
    BY <2>1 DEF Running, Delivering
  <2>3. ProcessInv'
    BY <1>1, <2>1, <2>2, MovesOn DEF follower
  <2>4. Typed'
    BY <1>1, <2>1 DEF Typed, TypeOK, world, setting, history
  <2> QED BY <1>2, <1>3, <2>3, <2>4 DEF ProcessInv
<1>5. CASE NewlineAt # {}
  <2> DEFINE n == Len(pending)
  <2>1. PICK idx \in NewlineAt :
           /\ \A j \in NewlineAt : idx <= j
           /\ idx \in 1..Len(pending) /\ idx \in Nat
           /\ cur' \in Seq(Units) /\ Len(cur') = idx /\ \A j \in 1..idx : cur'[j] = pending[j]
           /\ pending' \in Seq(Units) /\ Len(pending') = Len(pending) - idx
           /\ \A j \in 1..(Len(pending) - idx) : pending'[j] = pending[idx + j]
           /\ committedOffset' = committedOffset + idx /\ pc' \in {"deliver", "draindeliver"}
    BY <1>5, CutOff
  <2>2. pending \in Seq(Units) /\ n \in Nat /\ committedOffset \in Nat /\ readOffset \in Nat
    BY DEF Typed, TypeOK
  <2>3. \A j \in NewlineAt : idx <= j
    BY <2>1
  <2>4. idx \in 1..n /\ idx \in Nat
    BY <2>1
  <2>5. cur' \in Seq(Units) /\ Len(cur') = idx /\ \A j \in 1..idx : cur'[j] = pending[j]
    BY <2>1
  <2>6. /\ pending' \in Seq(Units) /\ Len(pending') = n - idx
        /\ \A j \in 1..(n - idx) : pending'[j] = pending[idx + j]
    BY <2>1
  <2> HIDE DEF n
  <2>7. Typed'
    <3>1. /\ cur' \in Seq(Units) /\ pending' \in Seq(Units) /\ committedOffset' \in Nat
          /\ pc' \in {"deliver", "draindeliver"}
      BY <2>1, <2>2, <2>4, <2>5, <2>6
    <3> QED BY <1>1, <3>1 DEF Typed, TypeOK, world, setting, history
  <2>8. OffsetsAgree' /\ OnlyWholeLines'
    <3>1. OnlyWholeLines'
      BY <1>1 DEF OnlyWholeLines, world, history
    <3>2. readOffset' = readOffset /\ readOffset = committedOffset + n
      BY <1>1 DEF OffsetsAgree, n
    <3>3. committedOffset' = committedOffset + idx /\ Len(pending') = n - idx
      BY <2>1, <2>6
    <3>4. n \in Nat /\ idx \in Nat /\ committedOffset \in Nat
      BY <2>2, <2>4
    <3>5. readOffset' = committedOffset' + Len(pending')
      BY <3>2, <3>3, <3>4
    <3> QED BY <3>1, <3>5 DEF OffsetsAgree
  <2>9. Running' /\ Delivering'
    BY <2>1 DEF Running, Delivering
  <2>10. ASSUME Intact
         PROVE  /\ idx = 2 /\ n >= 2 /\ committedOffset + 2 <= Size(file)
                /\ pending[1].nl = FALSE /\ pending[2].nl = TRUE /\ pending[1].line = pending[2].line
                /\ pending[2] = content[file][committedOffset + 2]
                /\ pending[1] \in Units /\ pending[2] \in Units
    <3>1. n >= 2 => pending[1] \in Units /\ pending[2] \in Units
      BY <2>2 DEF n
    <3> QED BY <1>1, <2>3, <2>10, <3>1, NextLine DEF n
  <2>11. PendingInv'
    <3> SUFFICES ASSUME Intact
                 PROVE  /\ readOffset <= Size(file)' /\ committedOffset' % 2 = 0
                        /\ \A j \in 1..Len(pending') : pending'[j] = content'[file'][committedOffset' + j]
      BY <1>1, <1>2 DEF PendingInv
    <3>1. /\ readOffset <= Size(file) /\ committedOffset % 2 = 0
          /\ \A j \in 1..n : pending[j] = content[file][committedOffset + j]
      BY <1>1 DEF PendingInv, n
    <3>2. committedOffset' % 2 = 0
      BY <2>1, <2>2, <2>10, <3>1, Parity
    <3>3. ASSUME NEW j \in 1..(n - idx) PROVE pending'[j] = content[file][committedOffset' + j]
      <4>1. idx + j \in 1..n /\ committedOffset' + j = committedOffset + (idx + j)
        BY <2>1, <2>2, <2>4
      <4> QED BY <2>6, <3>1, <4>1
    <3>4. Size(file)' = Size(file)
      BY <1>1 DEF Size, world
    <3> QED BY <1>1, <2>6, <3>1, <3>2, <3>3, <3>4 DEF world
  <2>12. CurInv'
    <3> SUFFICES ASSUME Intact PROVE committedOffset' >= 2 /\ Whole(cur)' /\ CurLine' = content'[file'][committedOffset'].line
      BY <1>2 DEF CurInv
    <3>1. committedOffset' = committedOffset + 2 /\ committedOffset' >= 2
      BY <2>1, <2>2, <2>10
    <3>2. cur' \in Seq(Units) /\ Len(cur') = 2 /\ cur'[1] = pending[1] /\ cur'[2] = pending[2]
      BY <2>5, <2>10
    <3> DEFINE l == pending[1].line
    <3>3. /\ l \in Lines /\ pending[1] = [line |-> l, nl |-> FALSE]
          /\ pending[2] = [line |-> l, nl |-> TRUE]
      BY <2>10 DEF Units
    <3>4. cur' = <<pending[1], pending[2]>>
      BY <3>2
    <3>5. Whole(cur)'
      BY <3>3, <3>4 DEF Whole
    <3>6. CurLine' = content[file][committedOffset + 2].line
      BY <2>10, <3>2 DEF CurLine
    <3> QED BY <1>1, <3>1, <3>5, <3>6 DEF world
  <2>13. DoneInv'
    <3> SUFFICES ASSUME Intact PROVE Covered(file, committedOffset - 2)'
      BY <1>2, <2>9 DEF DoneInv
    <3>1. Covered(file, committedOffset) /\ committedOffset' - 2 = committedOffset
      BY <1>1, <2>1, <2>2, <2>10 DEF DoneInv
    <3> QED BY <1>1, <3>1 DEF Covered, Done, InFormat, world, setting, history
  <2> QED BY <1>2, <1>3, <2>7, <2>8, <2>11, <2>12, <2>13
<1> QED BY <1>4, <1>5

\* The callback returned nil for the line: whatever became of it, the line is done.
LEMMA HandleKeeps ==
  ASSUME IInv, Delivering, NEW outcome \in SUBSET {"stored", "dead", "dropped"},
         Handle(outcome),
         Whole(cur) => outcome \cap ({"stored", "dead"} \cup
                          (IF InFormat(CurLine) THEN {} ELSE {"dropped"})) # {}
  PROVE  IInv'
<1> USE DEF IInv
<1>1. /\ Running /\ file \in Inodes /\ pc' \in {"save", "drainsave"}
      /\ UNCHANGED <<world, crashes, checkpoint, durable, ctxDone, follower, cur>>
  BY DEF Handle, Goto, Delivering, Running, Typed
<1>2. Running' /\ ~Delivering'
  BY <1>1 DEF Running, Delivering
<1>3. Whole(cur) => CurLine \in Lines
  BY DEF Whole, CurLine
<1>4. handled \in [Lines -> Nat] /\ fate \in [Lines -> SUBSET Fates] /\ outcome \subseteq Fates
  BY DEF Typed, TypeOK, Fates
<1>5. IF Whole(cur)
      THEN /\ handled' = [handled EXCEPT ![CurLine] = @ + 1]
           /\ fate' = [fate EXCEPT ![CurLine] = @ \cup outcome] /\ torn' = torn
      ELSE torn' = TRUE /\ handled' = handled /\ fate' = fate
  BY DEF Handle
<1>6. handled' \in [Lines -> Nat] /\ fate' \in [Lines -> SUBSET Fates]
  <2>1. CASE Whole(cur)
    <3>1. CurLine \in Lines /\ handled[CurLine] + 1 \in Nat /\ fate[CurLine] \cup outcome \in SUBSET Fates
      <4>1. CurLine \in Lines
        BY <1>3, <2>1
      <4>2. handled[CurLine] \in Nat /\ fate[CurLine] \in SUBSET Fates
        BY <1>4, <4>1
      <4>3. fate[CurLine] \cup outcome \in SUBSET Fates
        BY <1>4, <4>2, Zenon
      <4> QED BY <4>1, <4>2, <4>3
    <3>2. handled' = [handled EXCEPT ![CurLine] = handled[CurLine] + 1]
          /\ fate' = [fate EXCEPT ![CurLine] = fate[CurLine] \cup outcome]
      BY <1>5, <2>1
    <3> QED BY <1>4, <3>1, <3>2
  <2>2. CASE ~Whole(cur)
    BY <1>4, <1>5, <2>2
  <2> QED BY <2>1, <2>2
<1>7. \A l \in Lines : fate[l] \subseteq fate'[l]
  BY <1>3, <1>4, <1>5
<1>8. \A l \in Lines : InFormat(l)' <=> InFormat(l)
  BY <1>1 DEF InFormat, world, setting
<1>9. \A l \in Lines : Done(l) => Done(l)'
  <2> SUFFICES ASSUME NEW l \in Lines, Done(l) PROVE Done(l)'
    OBVIOUS
  <2>1. fate[l] \subseteq fate'[l] /\ (InFormat(l)' <=> InFormat(l))
    BY <1>7, <1>8
  <2> QED BY <2>1 DEF Done
<1>10. Whole(cur) => \E l \in Lines : l = CurLine /\ Done(l)'
  <2> SUFFICES ASSUME Whole(cur) PROVE \E l \in Lines : l = CurLine /\ Done(l)'
    OBVIOUS
  <2>1. PICK l \in Lines : l = CurLine
    BY <1>3
  <2>2. outcome \subseteq fate'[l]
    BY <1>4, <1>5, <2>1
  <2>3. outcome \cap ({"stored", "dead"} \cup (IF InFormat(l) THEN {} ELSE {"dropped"})) # {}
    BY <2>1
  <2>4. Done(l)'
    BY <1>8, <2>2, <2>3 DEF Done
  <2> QED BY <2>1, <2>4
<1>11. /\ FileShape' /\ (Intact' <=> Intact)
       /\ \A i \in Inodes : \A n \in Int : n <= Size(i) /\ Covered(i, n) => Covered(i, n)'
       /\ \A c \in [inode : Inodes \cup {NoFile}, offset : Nat] : CheckpointInv(c) => CheckpointInv(c)'
  BY <1>1, <1>9, Undisturbed
<1>12. CheckpointInv(checkpoint)' /\ CheckpointInv(durable)'
  BY <1>1, <1>11 DEF Typed, TypeOK, CheckpointInv
<1>13. Typed'
  BY <1>1, <1>6 DEF Typed, TypeOK, world, setting, follower
<1>14. OffsetsAgree' /\ CurInv'
  BY <1>1, <1>2 DEF OffsetsAgree, CurInv, follower
<1>15. PendingInv'
  BY <1>1, <1>2, <1>11 DEF PendingInv, follower, world, Size
<1>16. OnlyWholeLines'
  <2> SUFFICES ASSUME Intact PROVE ~torn'
    BY <1>11 DEF OnlyWholeLines, Intact
  <2>1. Whole(cur) /\ ~torn
    BY DEF CurInv, OnlyWholeLines, Intact
  <2> QED BY <1>5, <2>1
<1>17. DoneInv'
  <2> SUFFICES ASSUME Intact PROVE Covered(file, committedOffset)'
    BY <1>2, <1>11 DEF DoneInv
  <2>1. /\ committedOffset >= 2 /\ Whole(cur) /\ CurLine = content[file][committedOffset].line
        /\ Covered(file, committedOffset - 2) /\ committedOffset % 2 = 0
        /\ readOffset <= Size(file)
    BY <1>1 DEF CurInv, DoneInv, PendingInv
  <2>2. /\ committedOffset \in Nat /\ readOffset \in Nat /\ Len(pending) \in Nat
        /\ Size(file) \in Nat /\ committedOffset <= Size(file)
    <3>1. /\ committedOffset \in Nat /\ readOffset \in Nat
          /\ pending \in Seq(Units) /\ content[file] \in Seq(Units)
      BY <1>1 DEF Typed, TypeOK
    <3>2. Len(pending) \in Nat /\ Size(file) \in Nat
      BY <3>1 DEF Size
    <3>3. readOffset = committedOffset + Len(pending)
      BY DEF OffsetsAgree
    <3> QED BY <2>1, <3>1, <3>2, <3>3
  <2>3. ASSUME NEW k \in 1..(committedOffset - 2), content[file][k].nl
        PROVE  \E l : l = content[file][k].line /\ Done(l)'
    <3>1. content[file] \in Seq(Units) /\ Len(content[file]) = Size(file)
      BY <1>1 DEF Typed, TypeOK, Size
    <3>2. content[file][k] \in Units
      BY <2>2, <3>1
    <3>3. content[file][k].line \in Lines /\ Done(content[file][k].line)
      BY <2>1, <2>3, <3>2 DEF Covered, Units
    <3> QED BY <1>9, <3>3
  <2>4. (committedOffset - 1) % 2 = 1
    <3>1. ((committedOffset - 1) + 1) % 2 = 0 /\ committedOffset - 1 \in Int
      BY <2>1, <2>2
    <3> QED BY <3>1, Parity
  <2>5. ~content[file][committedOffset - 1].nl
    <3>1. Halves(content[file])
      BY <1>1 DEF FileShape
    <3>2. committedOffset - 1 \in 1..Size(file)
      BY <2>1, <2>2
    <3> QED BY <2>4, <3>1, <3>2 DEF Halves, Size
  <2>6. \E l : l = content[file][committedOffset].line /\ Done(l)'
    BY <1>10, <2>1
  <2>7. ASSUME NEW k \in 1..committedOffset, content[file][k].nl
        PROVE  \E l : l = content[file][k].line /\ Done(l)'
    <3>1. k \in 1..(committedOffset - 2) \/ k = committedOffset - 1 \/ k = committedOffset
      BY <2>2
    <3>2. CASE k \in 1..(committedOffset - 2)
      BY <2>3, <2>7, <3>2
    <3> QED BY <2>5, <2>6, <2>7, <3>1, <3>2
  <2> QED BY <1>1, <2>7 DEF Covered, Done, InFormat, world, setting, follower
<1> QED BY <1>11, <1>12, <1>13, <1>14, <1>15, <1>16, <1>17

LEMMA DeliverKeeps == ASSUME IInv, ParseFails \/ Delivered \/ DeliveryFails PROVE IInv'
<1> DEFINE Fits(o) == Whole(cur) => o \cap ({"stored", "dead"} \cup
                          (IF InFormat(CurLine) THEN {} ELSE {"dropped"})) # {}
<1>1. CASE ParseFails
  <2>1. Delivering /\ "error" \in Parsed /\ Handle({"dropped"})
    BY <1>1 DEF ParseFails
  <2>2. Whole(cur) => ~InFormat(CurLine)
    <3> SUFFICES ASSUME Whole(cur) PROVE ~InFormat(CurLine)
      OBVIOUS
    <3>1. Parse(config, LineKinds[CurLine]) = "error"
      BY <2>1 DEF Parsed
    <3> QED BY <3>1 DEF Parse, InFormat, tryJSON, tryRegex, Compiled
  <2>3. Fits({"dropped"})
    BY <2>2
  <2> QED BY <2>1, <2>3, HandleKeeps
<1>2. CASE Delivered \/ DeliveryFails
  <2>1. PICK o \in {{"stored"}, {"dead"}, {"dead", "stored"}} : Delivering /\ Handle(o)
    BY <1>2 DEF Delivered, DeliveryFails
  <2>2. Fits(o) /\ o \in SUBSET {"stored", "dead", "dropped"}
    OBVIOUS
  <2> QED BY <2>1, <2>2, HandleKeeps
<1> QED BY <1>1, <1>2

LEMMA SaveKeeps == ASSUME IInv, SaveAfterLine PROVE IInv'
<1> USE DEF IInv
<1>1. /\ pc \in {"save", "drainsave"} /\ Running /\ ~Delivering /\ file \in Inodes
      /\ pc' \in {"synced", "drainsynced"} /\ cur' = <<>>
      /\ checkpoint' = [inode |-> file, offset |-> committedOffset]
      /\ UNCHANGED <<world, crashes, durable, ctxDone, follower, history>>
  BY DEF SaveAfterLine, SaveCheckpoint, Goto, Running, Delivering, Typed
<1>2. Running' /\ ~Delivering'
  BY <1>1 DEF Running, Delivering
<1>3. ProcessInv'
  BY <1>1, <1>2, MovesOn
<1>4. /\ FileShape' /\ (Intact' <=> Intact)
      /\ \A c \in [inode : Inodes \cup {NoFile}, offset : Nat] : CheckpointInv(c) => CheckpointInv(c)'
  BY <1>1, DoneUnchanged, Undisturbed DEF world, setting, history
<1>5. PICK c \in [inode : Inodes \cup {NoFile}, offset : Nat] :
        c = checkpoint' /\ c.inode = file /\ c.offset = committedOffset
  <2>1. committedOffset \in Nat
    BY DEF Typed, TypeOK
  <2> QED BY <1>1, <2>1
<1>6. CheckpointInv(c)
  <2> SUFFICES ASSUME Intact
               PROVE  committedOffset % 2 = 0 /\ committedOffset <= Size(file) /\ Covered(file, committedOffset)
    BY <1>5 DEF CheckpointInv
  <2>1. committedOffset \in Nat /\ readOffset \in Nat /\ Len(pending) \in Nat /\ Size(file) \in Nat
    BY <1>1 DEF Typed, TypeOK, Size
  <2> QED BY <1>1, <2>1 DEF PendingInv, DoneInv, OffsetsAgree
<1>7. CheckpointInv(checkpoint)'
  BY <1>4, <1>5, <1>6 DEF CheckpointInv
<1>8. CheckpointInv(durable)'
  BY <1>1, <1>4 DEF Typed, TypeOK, CheckpointInv
<1>9. Typed'
  BY <1>1, <1>5 DEF Typed, TypeOK, world, setting, follower, history, AfterSync
<1> QED BY <1>3, <1>4, <1>7, <1>8, <1>9 DEF ProcessInv

LEMMA SyncKeeps == ASSUME IInv, SyncDirectory PROVE IInv'
<1> USE DEF IInv
<1>1. /\ pc \in {"synced", "drainsynced", "waitsynced"} /\ Running /\ ~Delivering
      /\ pc' \in {"lines", "drainlines", "wait"} /\ durable' = checkpoint
      /\ UNCHANGED <<world, crashes, checkpoint, ctxDone, follower, cur, history>>
  BY Pcs DEF SyncDirectory, Goto, Running, Delivering
<1>2. Running' /\ ~Delivering'
  BY <1>1 DEF Running, Delivering
<1>3. ProcessInv'
  BY <1>1, <1>2, MovesOn
<1>4. /\ FileShape'
      /\ \A c \in [inode : Inodes \cup {NoFile}, offset : Nat] : CheckpointInv(c) => CheckpointInv(c)'
  BY <1>1, DoneUnchanged, Undisturbed DEF world, setting, history
<1>5. CheckpointInv(checkpoint)' /\ CheckpointInv(durable)'
  BY <1>1, <1>4 DEF Typed, TypeOK, CheckpointInv
<1>6. Typed'
  BY <1>1 DEF Typed, TypeOK, world, setting, follower, history, Running
<1> QED BY <1>3, <1>4, <1>5, <1>6 DEF ProcessInv

\* A file that shrank is read from its start again, and so is a new one.
LEMMA RestartKeeps ==
  ASSUME IInv, path \in Inodes, OpenAt(0), checkpoint' = [inode |-> path, offset |-> 0],
         pc' = "waitsynced", UNCHANGED <<world, crashes, durable, ctxDone, cur, history>>
  PROVE  IInv'
<1> USE DEF IInv
<1>1. Running' /\ ~Delivering'
  BY DEF Running, Delivering
<1>2. Size(path) \in Nat
  BY DEF Typed, TypeOK, Size
<1>3. 0 \in Nat /\ 0 <= Size(path) /\ 0 % 2 = 0 /\ Covered(path, 0)
  BY <1>2 DEF Covered
<1>4. ProcessInv'
  BY <1>1, <1>3, Opens
<1>5. /\ FileShape' /\ (Intact' <=> Intact)
      /\ \A c \in [inode : Inodes \cup {NoFile}, offset : Nat] : CheckpointInv(c) => CheckpointInv(c)'
  BY DoneUnchanged, Undisturbed DEF world, setting, history
<1>6. PICK c \in [inode : Inodes \cup {NoFile}, offset : Nat] :
        c = checkpoint' /\ c.inode = path /\ c.offset = 0
  OBVIOUS
<1>7. CheckpointInv(c)
  BY <1>3, <1>6 DEF CheckpointInv
<1>8. CheckpointInv(checkpoint)' /\ CheckpointInv(durable)'
  BY <1>5, <1>6, <1>7 DEF Typed, TypeOK, CheckpointInv
<1>9. Typed'
  BY <1>6 DEF Typed, TypeOK, OpenAt, world, setting, history, AfterSync
<1> QED BY <1>4, <1>5, <1>8, <1>9 DEF ProcessInv

\* The process ends, of itself or by a crash or a loss of power.
LEMMA EndKeeps ==
  ASSUME IInv, Exit, UNCHANGED <<world, handled, torn>>, crashes' \in Nat,
         checkpoint' \in {checkpoint, durable}, durable' \in {checkpoint, durable},
         fate' \in [Lines -> SUBSET Fates], \A l \in Lines : Done(l) => Done(l)'
  PROVE  IInv'
<1> USE DEF IInv
<1>1. ProcessInv'
  BY Ends
<1>2. /\ FileShape'
      /\ \A c \in [inode : Inodes \cup {NoFile}, offset : Nat] : CheckpointInv(c) => CheckpointInv(c)'
  BY Undisturbed
<1>3. {checkpoint, durable} \subseteq [inode : Inodes \cup {NoFile}, offset : Nat]
  BY DEF Typed, TypeOK
<1>4. CheckpointInv(checkpoint)' /\ CheckpointInv(durable)'
  BY <1>2, <1>3 DEF CheckpointInv
<1>5. ctxDone' \in BOOLEAN
  BY Zenon DEF Exit
<1>6. {checkpoint', durable'} \subseteq [inode : Inodes \cup {NoFile}, offset : Nat]
  BY <1>3
<1>7. pending' \in Seq(Units) /\ cur' \in Seq(Units)
  BY DEF Exit
<1>8. Typed'
  BY <1>5, <1>6, <1>7 DEF Typed, TypeOK, Exit, world, setting
<1> QED BY <1>1, <1>2, <1>4, <1>8 DEF ProcessInv

LEMMA NextIInv == IInv /\ [Next]_vars => IInv'
<1> SUFFICES ASSUME IInv, [Next]_vars PROVE IInv'
  OBVIOUS
<1>e. fate \in [Lines -> SUBSET Fates] /\ crashes \in Nat /\ crashes + 1 \in Nat
  BY DEF IInv, Typed, TypeOK
<1>1. CASE openFromCheckpoint \/ Read \/ CutLine
  BY <1>1, OpenKeeps, ReadKeeps, CutKeeps
<1>2. CASE ParseFails \/ Delivered \/ DeliveryFails
  BY <1>2, DeliverKeeps
<1>3. CASE SaveAfterLine \/ SyncDirectory
  BY <1>3, SaveKeeps, SyncKeeps
<1>4. CASE World
  BY <1>4, WriteKeeps, RotationKeeps DEF World
<1>5. ASSUME Exit, UNCHANGED <<world, checkpoint, durable, history>>, crashes' \in Nat PROVE IInv'
  <2>1. UNCHANGED <<config, fate, handled, torn>>
    BY <1>5 DEF world, setting, history
  <2> QED BY <1>e, <1>5, <2>1, EndKeeps, DoneUnchanged
<1>6. ASSUME Running, Running', ~Delivering, ~Delivering', ctxDone' = ctxDone, pc' \in {"wait", "drain", "read"},
             UNCHANGED <<world, crashes, checkpoint, durable, follower, cur, history>>
      PROVE  IInv'
  <2>1. ProcessInv'
    BY <1>6, MovesOn
  <2>2. /\ FileShape'
        /\ \A c \in [inode : Inodes \cup {NoFile}, offset : Nat] : CheckpointInv(c) => CheckpointInv(c)'
    BY <1>6, DoneUnchanged, Undisturbed DEF world, setting, history
  <2>3. CheckpointInv(checkpoint)' /\ CheckpointInv(durable)'
    BY <1>6, <2>2 DEF IInv, Typed, TypeOK, CheckpointInv
  <2>4. Typed'
    BY <1>6 DEF IInv, Typed, TypeOK, world, setting, follower, history, Running
  <2> QED BY <2>1, <2>2, <2>3, <2>4 DEF IInv, ProcessInv
<1>7. CASE StatFile
  <2>1. /\ pc = "stat" /\ file \in Inodes /\ Running /\ ~Delivering
        /\ UNCHANGED <<world, crashes, durable, ctxDone, cur, history>>
    BY <1>7 DEF StatFile, IInv, Typed, Running, Delivering
  <2>2. CASE path = file /\ OpenAt(0) /\ SaveCheckpoint(file, 0, "waitsynced")
    BY <2>1, <2>2, RestartKeeps DEF SaveCheckpoint, Goto
  <2>3. CASE pc' \in {"wait", "drain"} /\ UNCHANGED <<checkpoint, follower>>
    <3>1. Running' /\ ~Delivering'
      BY <2>3 DEF Running, Delivering
    <3> QED BY <1>6, <2>1, <2>3, <3>1
  <2> QED BY <1>7, <2>2, <2>3 DEF StatFile, Goto
<1>8. CASE SwitchFile
  <2>1. CASE path = NoFile
    BY <1>e, <1>5, <1>8, <2>1 DEF SwitchFile
  <2>2. CASE path # NoFile
    <3>1. path \in Inodes
      BY <2>2 DEF IInv, Typed, TypeOK
    <3> QED BY <1>8, <2>2, <3>1, RestartKeeps DEF SwitchFile, SaveCheckpoint, Goto
  <2> QED BY <2>1, <2>2
<1>9. CASE Tick
  <2>1. CASE Exit
    BY <1>e, <1>5, <1>9, <2>1 DEF Tick
  <2>2. CASE ~Exit
    <3>1. /\ pc = "wait" /\ pc' = "read"
          /\ UNCHANGED <<world, crashes, checkpoint, durable, ctxDone, follower, cur, history>>
      BY <1>9, <2>2 DEF Tick, Goto
    <3>2. Running /\ Running' /\ ~Delivering /\ ~Delivering'
      BY <3>1 DEF Running, Delivering
    <3> QED BY <1>6, <3>1, <3>2
  <2> QED BY <2>1, <2>2
<1>10. CASE DeadLetterFails \/ Crash
  BY <1>e, <1>5, <1>10 DEF DeadLetterFails, Crash
<1>11. CASE PowerLoss
  <2>1. /\ Exit /\ UNCHANGED <<world, handled, torn>> /\ crashes' = crashes + 1
        /\ checkpoint' \in {checkpoint, durable} /\ durable' \in {checkpoint, durable}
        /\ config' = config
    BY <1>11 DEF PowerLoss, Renamed, world, setting
  <2>2. /\ fate' \in [Lines -> SUBSET Fates]
        /\ \A l \in Lines : \/ fate'[l] = fate[l]
                            \/ "erased" \in fate'[l]
    BY <1>e, <1>11 DEF PowerLoss, Fates
  <2>3. \A l \in Lines : Done(l) => Done(l)'
    BY <2>1, <2>2 DEF Done, InFormat
  <2> QED BY <1>e, <2>1, <2>2, <2>3, EndKeeps
<1>12. CASE Interrupt \/ UNCHANGED vars
  <2>1. /\ UNCHANGED <<world, checkpoint, durable, pc, follower, cur, history>>
        /\ crashes' \in Nat
    BY <1>e, <1>12 DEF Interrupt, vars, world, setting, follower, history
  <2>2. ctxDone' \in BOOLEAN
    BY <1>12, Zenon DEF Interrupt, vars, IInv, Typed, TypeOK
  <2>3. Typed'
    BY <2>1, <2>2 DEF IInv, Typed, TypeOK, world, setting, follower, history
  <2>4. FileShape' /\ OffsetsAgree' /\ OnlyWholeLines' /\ PendingInv'
    BY <2>1 DEF IInv, FileShape, OffsetsAgree, OnlyWholeLines, PendingInv, Halves, Size, Intact,
                Running, world, setting, follower, history
  <2>5. CurInv'
    BY <2>1 DEF IInv, CurInv, Intact, Delivering, Whole, CurLine, world, follower
  <2>6. DoneInv'
    BY <2>1 DEF IInv, DoneInv, Intact, Running, Delivering, Covered, Done, InFormat, world, setting,
                follower, history
  <2>7. CheckpointInv(checkpoint)' /\ CheckpointInv(durable)'
    BY <2>1 DEF IInv, CheckpointInv, Intact, Covered, Done, InFormat, Size, world, setting, history
  <2> QED BY <2>3, <2>4, <2>5, <2>6, <2>7 DEF IInv
<1> QED
  BY <1>1, <1>2, <1>3, <1>4, <1>7, <1>8, <1>9, <1>10, <1>11, <1>12 DEF Next, Step

LEMMA IInvHolds == Spec => []IInv
BY InitIInv, NextIInv, PTL DEF Spec

-----------------------------------------------------------------------------
(* Few lines are sent again *)

\* The lines that end after the first n units of c.
EndAfter(c, n) == {c[k].line : k \in {j \in 1..Len(c) : j > n /\ c[j].nl}}

\* A line ends in one place of one file only.
LinesOnce ==
    \A i, j \in Inodes : \A k \in 1..Size(i), m \in 1..Size(j) :
       content[i][k].nl /\ content[j][m].nl /\ content[i][k].line = content[j][m].line => i = j /\ k = m

\* What was completed, is pending or was handled is behind the line that is
\* written next.
LinesPast ==
    /\ \A i \in Inodes : \A k \in 1..Size(i) : content[i][k].nl => content[i][k].line < line
    /\ \A j \in 1..Len(pending) : pending[j].nl => pending[j].line < line
    /\ Delivering /\ Whole(cur) => CurLine < line
    /\ \A l \in Lines : handled[l] > 0 => l < line

\* A pending line is there once; where a file still has it, the file is the one
\* followed, it did not shrink, and it is not ahead of what was read.
PendingApart ==
    /\ \A a, b \in 1..Len(pending) :
          pending[a].nl /\ pending[b].nl /\ pending[a].line = pending[b].line => a = b
    /\ \A j \in 1..Len(pending), i \in Inodes : \A k \in 1..Size(i) :
          pending[j].nl /\ content[i][k].nl /\ pending[j].line = content[i][k].line =>
            i = file /\ k <= committedOffset + j /\ readOffset <= Size(file)

\* The same of the line that is handed over, which is no longer pending.
CurApart ==
    Delivering /\ Whole(cur) =>
      /\ \A a \in 1..Len(pending) : pending[a].nl => pending[a].line # CurLine
      /\ \A i \in Inodes : \A k \in 1..Size(i) :
            content[i][k].nl /\ CurLine = content[i][k].line =>
              i = file /\ k <= committedOffset /\ readOffset <= Size(file)

Distinct == LinesOnce /\ LinesPast /\ PendingApart /\ CurApart

\* The newest inode there is.
Newest == IF path = NoFile THEN rotations ELSE rotations + 1

Draining == pc \in {"drain", "drainlines", "draindeliver", "drainsave", "drainsynced", "reopen"}

\* The path is only ever given to a new inode: no checkpoint names it before the
\* follower has opened it, and nothing was written to it before it is there.
Placed ==
    /\ path \in {NoFile, rotations + 1} /\ writer <= Newest
    /\ file \in Inodes => file <= Newest
    /\ checkpoint.inode \in Inodes => checkpoint.inode <= Newest
    /\ durable.inode \in Inodes => durable.inode <= Newest
    /\ \A j \in Inodes : j > Newest => content[j] = <<>>
    /\ Running /\ path \notin {file, NoFile} => checkpoint.inode # path
    /\ Draining => path # file

\* The lines this process has still to read.
Unread ==
    IF Running THEN EndAfter(content[file], IF readOffset <= Size(file) THEN committedOffset ELSE 0)
               ELSE {}

\* The lines that a process would read that resumes at c now.
Again(c) ==
    IF path = NoFile THEN {}
    ELSE EndAfter(content[path], IF c.inode = path /\ c.offset <= Size(path) THEN c.offset ELSE 0)

Handing == IF Delivering /\ Whole(cur) THEN {CurLine} ELSE {}

\* All that may be handed over by this process or after a crash, and what is
\* left of it once the line at hand is checkpointed for good.
Open == Unread \cup EndAfter(pending, 0) \cup Handing \cup Again(checkpoint) \cup Again(durable)
Left == Unread \cup EndAfter(pending, 0) \cup Again([inode |-> file, offset |-> committedOffset])

\* The lines sent again so far, and those of S that would be.
Sent(h, S) == {l \in Lines : h[l] > 1 \/ (h[l] > 0 /\ l \in S)}

\* A line was handled and is not yet checkpointed for good.
Unsynced == pc \in {"save", "drainsave", "synced", "drainsynced"}

\* The lines that were or could be sent again are paid for by crashes; only the
\* one at hand is not, and it stops counting when its checkpoint is synced.
DebtInv ==
    /\ Cardinality(Sent(handled, Open)) <= crashes + (IF Unsynced THEN 1 ELSE 0)
    /\ Unsynced => Cardinality(Sent(handled, Left)) <= crashes
    /\ pc \in {"synced", "drainsynced"} => checkpoint = [inode |-> file, offset |-> committedOffset]

FewInv == Distinct /\ Placed /\ DebtInv

LEMMA EndsIn ==
  ASSUME NEW c, NEW n, NEW l
  PROVE  l \in EndAfter(c, n) <=> \E k \in 1..Len(c) : k > n /\ c[k].nl /\ l = c[k].line
BY DEF EndAfter

LEMMA EndsMore ==
  ASSUME NEW c, NEW n \in Int, NEW m \in Int, m <= n
  PROVE  EndAfter(c, n) \subseteq EndAfter(c, m)
<1> SUFFICES ASSUME NEW l \in EndAfter(c, n) PROVE l \in EndAfter(c, m)
  OBVIOUS
<1>1. PICK k \in 1..Len(c) : k > n /\ c[k].nl /\ l = c[k].line
  BY EndsIn
<1>2. k > m
  BY <1>1
<1> QED BY <1>1, <1>2, EndsIn

LEMMA NothingEnds == \A n : EndAfter(<<>>, n) = {}
BY DEF EndAfter

LEMMA SentFinite ==
  ASSUME NEW h, NEW S
  PROVE  IsFiniteSet(Sent(h, S)) /\ Cardinality(Sent(h, S)) \in Nat
<1>1. IsFiniteSet(Lines)
  BY Constants, FS_Interval
<1>2. Sent(h, S) \in SUBSET Lines
  BY DEF Sent
<1>3. IsFiniteSet(Sent(h, S))
  BY <1>1, <1>2, FS_Subset
<1> QED BY <1>3, FS_CardinalityType

LEMMA SentLess ==
  ASSUME NEW h, NEW S, NEW T, \A l \in Lines : h[l] > 0 /\ l \in S => l \in T
  PROVE  Cardinality(Sent(h, S)) <= Cardinality(Sent(h, T))
<1>1. Sent(h, S) \in SUBSET Sent(h, T)
  BY DEF Sent
<1> QED BY <1>1, SentFinite, FS_Subset

\* What the types say about the parts of the state used here.
LEMMA Shapes ==
  ASSUME IInv
  PROVE  /\ \A i \in Inodes : content[i] \in Seq(Units) /\ Size(i) \in Nat /\ Len(content[i]) = Size(i)
         /\ pending \in Seq(Units) /\ Len(pending) \in Nat
         /\ readOffset \in Nat /\ committedOffset \in Nat /\ readOffset = committedOffset + Len(pending)
         /\ path \in Inodes \cup {NoFile} /\ writer \in Inodes /\ rotations \in Nat /\ line \in Nat
         /\ crashes \in Nat /\ handled \in [Lines -> Nat] /\ (Running => file \in Inodes)
         /\ file \in Inodes \cup {NoFile}
         /\ {checkpoint, durable} \subseteq [inode : Inodes \cup {NoFile}, offset : Nat]
         /\ \A i \in Inodes : i \in Nat
<1>1. readOffset = committedOffset + Len(pending)
  BY DEF IInv, OffsetsAgree
<1>2. \A i \in Inodes : content[i] \in Seq(Units) /\ Size(i) \in Nat /\ Len(content[i]) = Size(i)
  BY DEF IInv, Typed, TypeOK, Size
<1>3. line \in Nat /\ rotations \in Nat /\ \A i \in Inodes : i \in Nat
  BY Constants DEF IInv, Typed, TypeOK
<1>4. /\ pending \in Seq(Units) /\ readOffset \in Nat /\ committedOffset \in Nat
      /\ path \in Inodes \cup {NoFile} /\ writer \in Inodes
      /\ crashes \in Nat /\ handled \in [Lines -> Nat] /\ (Running => file \in Inodes)
      /\ file \in Inodes \cup {NoFile}
      /\ {checkpoint, durable} \subseteq [inode : Inodes \cup {NoFile}, offset : Nat]
  BY DEF IInv, Typed, TypeOK, Running
<1>5. Len(pending) \in Nat
  BY <1>4
<1> QED BY <1>1, <1>2, <1>3, <1>4, <1>5, Zenon

LEMMA Numbers ==
  ASSUME IInv
  PROVE  /\ \A i \in Inodes : \A k \in 1..Size(i) : content[i][k].line \in Nat
         /\ \A j \in 1..Len(pending) : pending[j].line \in Nat
         /\ (Whole(cur) => CurLine \in Nat) /\ (\A l \in Lines : l \in Nat) /\ line \in Nat
<1>1. \A l \in Lines : l \in Nat
  BY Constants
<1>2. \A u \in Units : u.line \in Nat
  BY <1>1 DEF Units
<1>3. ASSUME NEW i \in Inodes, NEW k \in 1..Size(i) PROVE content[i][k].line \in Nat
  <2>1. content[i] \in Seq(Units) /\ Len(content[i]) = Size(i)
    BY Shapes
  <2> QED BY <1>2, <2>1
<1>4. ASSUME NEW j \in 1..Len(pending) PROVE pending[j].line \in Nat
  <2>1. pending \in Seq(Units)
    BY Shapes
  <2> QED BY <1>2, <2>1
<1>5. Whole(cur) => CurLine \in Nat
  BY <1>1 DEF Whole, CurLine
<1> QED BY <1>1, <1>3, <1>4, <1>5, Shapes

\* What is left after the line at hand is among all that is open.
LEMMA LeftOpen ==
  ASSUME IInv, Placed, Running
  PROVE  Left \subseteq Open
<1> DEFINE here == [inode |-> file, offset |-> committedOffset]
<1>1. here.inode = file /\ here.offset = committedOffset
  OBVIOUS
<1> HIDE DEF here
<1>2. CASE path = NoFile
  <2>1. Again(here) = {}
    BY <1>2 DEF Again
  <2> QED BY <2>1 DEF Left, Open, here
<1>3. CASE path = file
  <2> DEFINE n == IF readOffset <= Size(file) THEN committedOffset ELSE 0
             m == IF committedOffset <= Size(file) THEN committedOffset ELSE 0
  <2>1. Unread = EndAfter(content[file], n) /\ path # NoFile
    BY <1>3, Constants, Shapes DEF Unread
  <2>2. Again(here) = EndAfter(content[file], m)
    BY <1>1, <1>3, <2>1 DEF Again
  <2>3. n \in Int /\ m \in Int /\ n <= m
    <3>1. /\ readOffset \in Nat /\ committedOffset \in Nat /\ Len(pending) \in Nat
          /\ readOffset = committedOffset + Len(pending)
      BY Shapes
    <3>2. Size(file) \in Nat
      BY Shapes
    <3> QED BY <3>1, <3>2
  <2> HIDE DEF n, m
  <2>4. Again(here) \subseteq Unread
    BY <2>1, <2>2, <2>3, EndsMore
  <2> QED BY <2>4 DEF Left, Open, here
<1>4. CASE path \notin {file, NoFile}
  <2>1. Again(here) = EndAfter(content[path], 0) /\ Again(checkpoint) = EndAfter(content[path], 0)
    BY <1>1, <1>4 DEF Again, Placed
  <2> QED BY <2>1 DEF Left, Open, here
<1> QED BY <1>2, <1>3, <1>4

LEMMA InitFew == Init => FewInv
<1> SUFFICES ASSUME Init PROVE FewInv
  OBVIOUS
<1>1. /\ content = [i \in Inodes |-> <<>>] /\ path = 1 /\ writer = 1 /\ rotations = 0 /\ crashes = 0
      /\ checkpoint = NoCheckpoint /\ durable = NoCheckpoint /\ pc = "down" /\ file = NoFile
      /\ pending = <<>> /\ handled = [l \in Lines |-> 0]
  BY DEF Init
<1>2. \A i \in Inodes : content[i] = <<>> /\ Size(i) = 0
  BY <1>1 DEF Size
<1>3. ~Running /\ ~Delivering /\ ~Draining /\ ~Unsynced /\ Len(pending) = 0
  BY <1>1 DEF Running, Delivering, Draining, Unsynced
<1>4. \A l \in Lines : handled[l] = 0
  BY <1>1
<1>5. Distinct
  BY <1>2, <1>3, <1>4 DEF Distinct, LinesOnce, LinesPast, PendingApart, CurApart
<1>6. Placed
  <2>1. NoCheckpoint.inode = NoFile /\ 1 # NoFile /\ NoFile \notin Inodes
    BY Constants DEF NoCheckpoint
  <2>2. Newest = 1
    BY <1>1, <2>1 DEF Newest
  <2> QED BY <1>1, <1>2, <1>3, <2>1, <2>2 DEF Placed
<1>7. DebtInv
  <2>1. Sent(handled, Open) = {}
    BY <1>4 DEF Sent
  <2> QED BY <1>1, <1>3, <2>1, FS_EmptySet DEF DebtInv
<1> QED BY <1>5, <1>6, <1>7 DEF FewInv

\* The world changes little: a file keeps what it had, but for a truncation, the
\* only new end of a line is the one just written, and a new path is empty.
LEMMA WorldFew ==
  ASSUME IInv, Distinct, DebtInv, UNCHANGED forwarder, line' \in Nat, line <= line',
         \A i \in Inodes : Size(i)' \in Nat /\ Len(content'[i]) = Size(i)',
         \A i \in Inodes : Size(i) <= Size(i)' \/ Size(i)' = 0,
         \A i \in Inodes : \A k \in 1..Size(i)' : content'[i][k].nl =>
            \/ k <= Size(i) /\ content'[i][k] = content[i][k]
            \/ /\ i = writer /\ k = Size(writer) + 1
               /\ content'[i][k].line = line /\ line' = line + 1,
         path' = path \/ path' = NoFile \/ (path' \in Inodes /\ content'[path'] = <<>>)
  PROVE  Distinct' /\ DebtInv'
<1> USE DEF forwarder, follower, history
<1>1. /\ UNCHANGED <<crashes, checkpoint, durable, pc, file, readOffset, committedOffset, pending, cur, handled>>
      /\ (Running' <=> Running) /\ (Delivering' <=> Delivering) /\ (Unsynced' <=> Unsynced)
      /\ (Whole(cur)' <=> Whole(cur)) /\ CurLine' = CurLine
  BY DEF Running, Delivering, Unsynced, Whole, CurLine
<1>2. \A i \in Inodes : Size(i) \in Nat
  BY Shapes
<1>3. LinesOnce'
  <2> SUFFICES ASSUME NEW i \in Inodes, NEW j \in Inodes, NEW k \in 1..Size(i)', NEW m \in 1..Size(j)',
                      content'[i][k].nl, content'[j][m].nl, content'[i][k].line = content'[j][m].line
               PROVE  i = j /\ k = m
    BY DEF LinesOnce
  <2>1. \A a \in Inodes : \A b \in 1..Size(a) : content[a][b].nl => content[a][b].line < line
    BY DEF Distinct, LinesPast
  <2>2. CASE k <= Size(i) /\ content'[i][k] = content[i][k] /\ m <= Size(j) /\ content'[j][m] = content[j][m]
    <3>1. k \in 1..Size(i) /\ m \in 1..Size(j)
      BY <1>2, <2>2
    <3> QED BY <2>2, <3>1 DEF Distinct, LinesOnce
  <2>3. CASE content'[i][k].line = line /\ m <= Size(j) /\ content'[j][m] = content[j][m]
    <3>1. m \in 1..Size(j)
      BY <1>2, <2>3
    <3>2. content[j][m].nl /\ content[j][m].line = line
      BY <2>3
    <3>3. content[j][m].line < line
      BY <2>1, <3>1, <3>2, Zenon
    <3>4. line \in Nat /\ line < line
      BY <3>2, <3>3, Numbers, Zenon
    <3> QED BY <3>4
  <2>4. CASE content'[j][m].line = line /\ k <= Size(i) /\ content'[i][k] = content[i][k]
    <3>1. k \in 1..Size(i)
      BY <1>2, <2>4
    <3>2. content[i][k].nl /\ content[i][k].line = line
      BY <2>4
    <3>3. content[i][k].line < line
      BY <2>1, <3>1, <3>2, Zenon
    <3>4. line \in Nat /\ line < line
      BY <3>2, <3>3, Numbers, Zenon
    <3> QED BY <3>4
  <2> QED BY <2>2, <2>3, <2>4
<1>4. ASSUME NEW i \in Inodes, NEW k \in 1..Size(i)', content'[i][k].nl
      PROVE  /\ content'[i][k].line < line'
             /\ (k \in 1..Size(i) /\ content'[i][k] = content[i][k]) \/ content'[i][k].line = line
  <2>1. CASE k <= Size(i) /\ content'[i][k] = content[i][k]
    <3>1. k \in 1..Size(i)
      BY <1>2, <2>1
    <3>2. content[i][k].line < line
      BY <1>4, <2>1, <3>1 DEF Distinct, LinesPast
    <3>3. content[i][k].line \in Nat /\ line \in Nat
      BY <3>1, Numbers
    <3>4. content[i][k].line < line'
      BY <3>2, <3>3
    <3> QED BY <2>1, <3>1, <3>4
  <2>2. CASE content'[i][k].line = line /\ line' = line + 1
    BY <2>2, Numbers
  <2> QED BY <1>4, <2>1, <2>2
<1>5. (\A l \in Lines : l \in Nat) /\ line \in Nat
  BY Numbers
<1>6. LinesPast'
  <2>1. \A j \in 1..Len(pending) : pending[j].nl => pending[j].line < line'
    <3> SUFFICES ASSUME NEW j \in 1..Len(pending), pending[j].nl PROVE pending[j].line < line'
      OBVIOUS
    <3>1. pending[j].line < line /\ pending[j].line \in Nat
      BY Numbers DEF Distinct, LinesPast
    <3> QED BY <1>5, <3>1
  <2>2. Delivering /\ Whole(cur) => CurLine < line'
    <3> SUFFICES ASSUME Delivering, Whole(cur) PROVE CurLine < line'
      OBVIOUS
    <3>1. CurLine < line /\ CurLine \in Nat
      BY Numbers DEF Distinct, LinesPast
    <3> QED BY <1>5, <3>1
  <2>3. \A l \in Lines : handled[l] > 0 => l < line'
    <3> SUFFICES ASSUME NEW l \in Lines, handled[l] > 0 PROVE l < line'
      OBVIOUS
    <3>1. l < line
      BY DEF Distinct, LinesPast
    <3> QED BY <1>5, <3>1
  <2>4. \A i \in Inodes : \A k \in 1..Size(i)' : content'[i][k].nl => content'[i][k].line < line'
    BY <1>4
  <2> QED BY <1>1, <2>1, <2>2, <2>3, <2>4 DEF LinesPast
<1>7. \A j \in 1..Len(pending) : pending[j].nl => pending[j].line # line
  <2> SUFFICES ASSUME NEW j \in 1..Len(pending), pending[j].nl PROVE pending[j].line # line
    OBVIOUS
  <2>1. pending[j].line < line
    BY DEF Distinct, LinesPast
  <2> QED BY <1>5, <2>1
<1>8. PendingApart'
  <2>1. ASSUME NEW j \in 1..Len(pending), NEW i \in Inodes, NEW k \in 1..Size(i)',
               pending[j].nl, content'[i][k].nl, pending[j].line = content'[i][k].line
        PROVE  i = file /\ k <= committedOffset + j /\ readOffset <= Size(file)'
    <3>1. k \in 1..Size(i) /\ content'[i][k] = content[i][k]
      BY <1>4, <1>7, <2>1
    <3>2. i = file /\ k <= committedOffset + j /\ readOffset <= Size(file)
      BY <2>1, <3>1 DEF Distinct, PendingApart
    <3>3. Size(i)' \in Nat /\ Size(i)' # 0 /\ Size(i) <= Size(i)'
      BY <2>1
    <3>4. readOffset \in Nat /\ Size(i) \in Nat
      BY Shapes
    <3>5. readOffset <= Size(i)'
      BY <3>2, <3>3, <3>4
    <3> QED BY <3>2, <3>5
  <2> QED BY <1>1, <2>1 DEF Distinct, PendingApart
<1>9. CurApart'
  <2> SUFFICES ASSUME Delivering, Whole(cur) PROVE CurApart'
    BY <1>1 DEF CurApart
  <2>1. ASSUME NEW i \in Inodes, NEW k \in 1..Size(i)', content'[i][k].nl, CurLine = content'[i][k].line
        PROVE  i = file /\ k <= committedOffset /\ readOffset <= Size(file)'
    <3>1. CurLine < line /\ CurLine # line
      BY <1>5, Shapes DEF Distinct, LinesPast
    <3>2. k \in 1..Size(i) /\ content'[i][k] = content[i][k]
      BY <1>4, <2>1, <3>1
    <3>3. i = file /\ k <= committedOffset /\ readOffset <= Size(file)
      BY <2>1, <3>2 DEF Distinct, CurApart
    <3>4. Size(i)' \in Nat /\ Size(i)' # 0 /\ Size(i) <= Size(i)'
      BY <2>1
    <3>5. readOffset \in Nat /\ Size(i) \in Nat
      BY Shapes
    <3>6. readOffset <= Size(i)'
      BY <3>3, <3>4, <3>5
    <3> QED BY <3>3, <3>6
  <2> QED BY <1>1, <2>1 DEF Distinct, CurApart
<1>10. ASSUME NEW i \in Inodes, NEW off \in Nat, NEW bar \in Nat, NEW l \in Lines, handled[l] > 0,
              l \in EndAfter(content'[i], IF bar <= Size(i)' THEN off ELSE 0)
       PROVE  l \in EndAfter(content[i], IF bar <= Size(i) THEN off ELSE 0)
  <2> DEFINE n == IF bar <= Size(i)' THEN off ELSE 0
             m == IF bar <= Size(i) THEN off ELSE 0
  <2>1. PICK k \in 1..Len(content'[i]) : k > n /\ content'[i][k].nl /\ l = content'[i][k].line
    BY <1>10, EndsIn
  <2>2. l # line
    BY <1>5, <1>10, Shapes DEF Distinct, LinesPast
  <2>3. k \in 1..Size(i)' /\ k \in 1..Size(i) /\ content'[i][k] = content[i][k]
    BY <1>4, <2>1, <2>2
  <2>4. Size(i)' \in Nat /\ Size(i) \in Nat /\ (Size(i) <= Size(i)' \/ Size(i)' = 0)
    BY <1>2
  <2>5. k > m
    BY <2>1, <2>3, <2>4
  <2>6. Len(content[i]) = Size(i)
    BY Shapes
  <2> HIDE DEF m
  <2>7. l \in EndAfter(content[i], m)
    BY <2>1, <2>3, <2>5, <2>6, EndsIn
  <2> QED BY <2>7 DEF m
<1>11. ASSUME NEW c \in [inode : Inodes \cup {NoFile}, offset : Nat], NEW l \in Lines, handled[l] > 0,
              l \in Again(c)'
       PROVE  l \in Again(c)
  <2>1. path' # NoFile
    BY <1>11 DEF Again
  <2>2. CASE path' # path
    <3>1. content'[path'] = <<>>
      BY <2>1, <2>2
    <3>2. Again(c)' = {}
      BY <2>1, <3>1, NothingEnds DEF Again
    <3> QED BY <1>11, <3>2
  <2>3. CASE path' = path
    <3>1. path \in Inodes /\ path # NoFile /\ c.offset \in Nat
      BY <2>1, <2>3, Shapes
    <3>2. CASE c.inode = path
      <4>0. PICK o \in Nat, i \in Inodes : o = c.offset /\ i = path
        BY <3>1
      <4>1. Again(c)' = EndAfter(content'[i], IF o <= Size(i)' THEN o ELSE 0)
        BY <2>1, <2>3, <3>2, <4>0 DEF Again, Size
      <4>2. Again(c) = EndAfter(content[i], IF o <= Size(i) THEN o ELSE 0)
        BY <3>1, <3>2, <4>0 DEF Again
      <4> QED BY <1>10, <1>11, <3>1, <4>1, <4>2
    <3>3. CASE c.inode # path
      <4>1. Again(c)' = EndAfter(content'[path], IF 0 <= Size(path)' THEN 0 ELSE 0)
        BY <2>1, <2>3, <3>3 DEF Again
      <4>2. Again(c) = EndAfter(content[path], IF 0 <= Size(path) THEN 0 ELSE 0)
        BY <3>1, <3>3 DEF Again
      <4>3. 0 \in Nat
        OBVIOUS
      <4> QED BY <1>10, <1>11, <3>1, <4>1, <4>2, <4>3
    <3> QED BY <3>2, <3>3
  <2> QED BY <2>2, <2>3
<1>12. ASSUME NEW l \in Lines, handled[l] > 0, l \in Unread' PROVE l \in Unread
  <2>1. Running /\ file \in Inodes
    BY <1>1, <1>12, Shapes DEF Unread
  <2>2. Unread' = EndAfter(content'[file], IF readOffset <= Size(file)' THEN committedOffset ELSE 0)
    BY <1>1, <2>1 DEF Unread, Size
  <2>3. Unread = EndAfter(content[file], IF readOffset <= Size(file) THEN committedOffset ELSE 0)
    BY <2>1 DEF Unread
  <2> QED BY <1>10, <1>12, <2>1, <2>2, <2>3, Shapes
<1>13. ASSUME NEW l \in Lines, handled[l] > 0, l \in Open' PROVE l \in Open
  <2>1. EndAfter(pending, 0)' = EndAfter(pending, 0) /\ Handing' = Handing
    BY <1>1 DEF EndAfter, Handing
  <2>2. PICK c \in [inode : Inodes \cup {NoFile}, offset : Nat] : c = checkpoint
    BY Shapes
  <2>3. PICK d \in [inode : Inodes \cup {NoFile}, offset : Nat] : d = durable
    BY Shapes
  <2>4. Again(checkpoint)' = Again(c)' /\ Again(durable)' = Again(d)'
    BY <1>1, <2>2, <2>3 DEF Again
  <2> QED BY <1>11, <1>12, <1>13, <2>1, <2>2, <2>3, <2>4 DEF Open
<1>14. ASSUME Unsynced, NEW l \in Lines, handled[l] > 0, l \in Left' PROVE l \in Left
  <2>1. EndAfter(pending, 0)' = EndAfter(pending, 0)
    BY <1>1 DEF EndAfter
  <2>2. file \in Inodes /\ committedOffset \in Nat
    BY <1>14, Shapes DEF Unsynced, Running
  <2>3. PICK c \in [inode : Inodes \cup {NoFile}, offset : Nat] : c = [inode |-> file, offset |-> committedOffset]
    BY <2>2
  <2>4. /\ Again([inode |-> file, offset |-> committedOffset]) = Again(c)
        /\ Again([inode |-> file, offset |-> committedOffset])' = Again(c)'
    BY <1>1, <2>3 DEF Again
  <2> QED BY <1>11, <1>12, <1>14, <2>1, <2>4 DEF Left
<1>15. DebtInv'
  <2>1. Cardinality(Sent(handled, Open')) <= Cardinality(Sent(handled, Open))
    BY <1>13, SentLess
  <2>2. Unsynced => Cardinality(Sent(handled, Left')) <= Cardinality(Sent(handled, Left))
    BY <1>14, SentLess
  <2>3. /\ Cardinality(Sent(handled, Open')) \in Nat /\ Cardinality(Sent(handled, Open)) \in Nat
        /\ Cardinality(Sent(handled, Left')) \in Nat /\ Cardinality(Sent(handled, Left)) \in Nat
    BY SentFinite
  <2> DEFINE a == Cardinality(Sent(handled, Open'))
             b == Cardinality(Sent(handled, Left'))
  <2>4. a <= crashes + (IF Unsynced THEN 1 ELSE 0) /\ (Unsynced => b <= crashes)
    <3>1. /\ Cardinality(Sent(handled, Open)) <= crashes + (IF Unsynced THEN 1 ELSE 0)
          /\ Unsynced => Cardinality(Sent(handled, Left)) <= crashes
      BY DEF DebtInv
    <3>2. crashes \in Nat
      BY Shapes
    <3> QED BY <2>1, <2>2, <2>3, <3>1, <3>2
  <2>5. a = Cardinality(Sent(handled, Open))' /\ b = Cardinality(Sent(handled, Left))'
    BY <1>1
  <2> HIDE DEF a, b
  <2> QED BY <1>1, <2>4, <2>5 DEF DebtInv
<1> QED BY <1>3, <1>6, <1>8, <1>9, <1>15 DEF Distinct

LEMMA WriteFew ==
  ASSUME IInv, FewInv, WriteFirstHalf \/ WriteSecondHalf
  PROVE  FewInv'
<1>1. /\ line \in Lines /\ UNCHANGED forwarder /\ UNCHANGED <<path, writer, rotations, truncations>>
      /\ IF half THEN half' = FALSE /\ line' = line + 1 ELSE half' = TRUE /\ line' = line
      /\ content' \in [Inodes -> Seq(Units)]
      /\ \A i \in Inodes : i # writer => content'[i] = content[i]
      /\ Len(content'[writer]) = Size(writer) + 1
      /\ content'[writer][Size(writer) + 1] = [line |-> line, nl |-> half]
      /\ \A k \in 1..Size(writer) : content'[writer][k] = content[writer][k]
  BY Appended
<1>2. line \in Nat /\ line' \in Nat /\ line <= line'
  <2>1. line \in Nat /\ (line' = line \/ line' = line + 1)
    BY <1>1, Numbers
  <2> QED BY <2>1
<1>3. /\ writer \in Inodes
      /\ \A i \in Inodes : Size(i) \in Nat /\ Len(content[i]) = Size(i)
  BY Shapes
<1>4. \A i \in Inodes : Size(i)' \in Nat /\ Len(content'[i]) = Size(i)' /\ Size(i) <= Size(i)'
  <2> SUFFICES ASSUME NEW i \in Inodes
               PROVE  Size(i)' \in Nat /\ Len(content'[i]) = Size(i)' /\ Size(i) <= Size(i)'
    OBVIOUS
  <2>1. Len(content'[i]) = Size(i)'
    BY DEF Size
  <2>2. CASE i = writer
    <3>1. Len(content'[i]) = Size(i) + 1 /\ Size(i) \in Nat
      BY <1>1, <1>3, <2>2
    <3> QED BY <2>1, <3>1
  <2>3. CASE i # writer
    <3>1. content'[i] = content[i]
      BY <1>1, <2>3
    <3>2. Len(content'[i]) = Size(i) /\ Size(i) \in Nat
      BY <1>3, <3>1
    <3> QED BY <2>1, <3>2
  <2> QED BY <2>2, <2>3
<1>5. ASSUME NEW i \in Inodes, NEW k \in 1..Size(i)', content'[i][k].nl
      PROVE  \/ k <= Size(i) /\ content'[i][k] = content[i][k]
             \/ /\ i = writer /\ k = Size(writer) + 1
                /\ content'[i][k].line = line /\ line' = line + 1
  <2>1. CASE i # writer
    <3>1. content'[i] = content[i]
      BY <1>1, <2>1
    <3>2. Size(i)' = Size(i)
      BY <3>1 DEF Size
    <3> QED BY <1>3, <3>1, <3>2
  <2>2. CASE i = writer
    <3>1. Size(i)' = Size(i) + 1 /\ Size(i) \in Nat
      BY <1>1, <1>3, <2>2 DEF Size
    <3>2. k \in 1..Size(i) \/ k = Size(writer) + 1
      BY <2>2, <3>1
    <3>3. CASE k \in 1..Size(i)
      BY <1>1, <2>2, <3>1, <3>3
    <3>4. CASE k = Size(writer) + 1
      <4>1. content'[i][k] = [line |-> line, nl |-> half]
        BY <1>1, <2>2, <3>4
      <4>2. content'[i][k].line = line /\ half
        BY <1>5, <4>1
      <4> QED BY <1>1, <2>2, <3>4, <4>2
    <3> QED BY <3>2, <3>3, <3>4
  <2> QED BY <2>1, <2>2
<1>6. Distinct' /\ DebtInv'
  BY <1>1, <1>2, <1>4, <1>5, WorldFew DEF FewInv
<1>7. Placed'
  <2>1. /\ UNCHANGED <<path, rotations, writer, file, checkpoint, durable, pc>> /\ Newest' = Newest
        /\ (Running' <=> Running) /\ (Draining' <=> Draining)
    BY <1>1 DEF forwarder, follower, Newest, Running, Draining
  <2>2. \A j \in Inodes : j > Newest => content'[j] = <<>>
    <3> SUFFICES ASSUME NEW j \in Inodes, j > Newest PROVE content'[j] = <<>>
      OBVIOUS
    <3>1. writer <= Newest /\ content[j] = <<>>
      BY DEF FewInv, Placed
    <3>2. j # writer
      <4>1. rotations \in Nat /\ \A i \in Inodes : i \in Nat
        BY Shapes
      <4>2. j \in Nat /\ writer \in Nat /\ Newest \in Nat
        BY <1>3, <4>1 DEF Newest
      <4> QED BY <3>1, <4>2
    <3> QED BY <1>1, <3>1, <3>2
  <2> QED BY <2>1, <2>2 DEF FewInv, Placed
<1> QED BY <1>6, <1>7 DEF FewInv

LEMMA RotationFew ==
  ASSUME IInv, FewInv, Rename \/ Create \/ Reopen \/ Truncate
  PROVE  FewInv'
<1>1. UNCHANGED forwarder /\ UNCHANGED <<line, half>>
  BY DEF Rename, Create, Reopen, Truncate
<1>2. content' = content \/ (path \in Inodes /\ content' = [content EXCEPT ![path] = <<>>])
  BY Shapes DEF Rename, Create, Reopen, Truncate
<1>3. /\ content \in [Inodes -> Seq(Units)] /\ line \in Nat
      /\ \A i \in Inodes : Size(i) \in Nat /\ Len(content[i]) = Size(i)
  BY Shapes DEF IInv, Typed, TypeOK
<1>4. \A i \in Inodes : content'[i] = content[i] \/ content'[i] = <<>>
  BY <1>2, <1>3
<1>5. \A i \in Inodes : /\ Size(i)' \in Nat /\ Len(content'[i]) = Size(i)'
                        /\ (Size(i) <= Size(i)' \/ Size(i)' = 0)
  <2> SUFFICES ASSUME NEW i \in Inodes
               PROVE  /\ Size(i)' \in Nat /\ Len(content'[i]) = Size(i)'
                      /\ (Size(i) <= Size(i)' \/ Size(i)' = 0)
    OBVIOUS
  <2>1. Size(i)' = Len(content'[i])
    BY DEF Size
  <2>2. CASE content'[i] = content[i]
    BY <1>3, <2>1, <2>2
  <2>3. CASE content'[i] = <<>>
    BY <2>1, <2>3
  <2> QED BY <1>4, <2>2, <2>3
<1>6. \A i \in Inodes : \A k \in 1..Size(i)' : k <= Size(i) /\ content'[i][k] = content[i][k]
  <2> SUFFICES ASSUME NEW i \in Inodes, NEW k \in 1..Size(i)'
               PROVE  k <= Size(i) /\ content'[i][k] = content[i][k]
    OBVIOUS
  <2>1. content'[i] = content[i]
    <3>1. Len(content'[i]) # 0
      BY <1>5
    <3> QED BY <1>4, <3>1
  <2>2. Size(i)' = Size(i)
    BY <2>1 DEF Size
  <2> QED BY <1>3, <2>1, <2>2
<1>7. /\ rotations \in Nat /\ path \in Inodes \cup {NoFile} /\ NoFile \notin Inodes /\ writer \in Inodes
      /\ (\A i \in Inodes : i \in Nat) /\ file \in Inodes \cup {NoFile} /\ (Running => file \in Inodes)
      /\ Newest \in Nat
  <2>1. /\ rotations \in Nat /\ path \in Inodes \cup {NoFile} /\ writer \in Inodes
        /\ file \in Inodes \cup {NoFile} /\ (Running => file \in Inodes)
    BY Shapes
  <2>2. NoFile \notin Inodes /\ \A i \in Inodes : i \in Nat
    BY Shapes, Constants
  <2>3. Newest \in Nat
    BY <2>1 DEF Newest
  <2> QED BY <2>1, <2>2, <2>3
<1>8. CASE Rename \/ Reopen \/ Truncate
  <2>1. Newest' = Newest /\ path' \in {NoFile, rotations' + 1} /\ path' \in {path, NoFile}
    BY <1>7, <1>8 DEF Rename, Reopen, Truncate, Newest, FewInv, Placed
  <2>2. writer' <= Newest'
    BY <1>7, <1>8, <2>1 DEF Rename, Reopen, Truncate, Newest, FewInv, Placed
  <2>3. \A j \in Inodes : j > Newest => content'[j] = <<>>
    BY <1>4 DEF FewInv, Placed
  <2>4. Distinct' /\ DebtInv'
    BY <1>1, <1>3, <1>5, <1>6, <2>1, WorldFew DEF FewInv
  <2>5. UNCHANGED <<file, checkpoint, durable, pc>> /\ (Running' <=> Running) /\ (Draining' <=> Draining)
    BY <1>1 DEF forwarder, follower, Running, Draining
  <2>6. Running' /\ path' \notin {file', NoFile} => checkpoint'.inode # path'
    BY <2>1, <2>5 DEF FewInv, Placed
  <2>7. Draining' => path' # file'
    <3>1. Draining => Running
      BY DEF Draining, Running
    <3> QED BY <1>7, <2>1, <2>5, <3>1 DEF FewInv, Placed
  <2> QED BY <2>1, <2>2, <2>3, <2>4, <2>5, <2>6, <2>7 DEF FewInv, Placed
<1>9. CASE Create
  <2>1. /\ path = NoFile /\ path' = rotations + 1 /\ rotations' = rotations /\ content' = content
        /\ (writer' = rotations + 1 \/ writer' = writer)
    BY <1>9 DEF Create
  <2>2. Newest = rotations /\ Newest' = rotations + 1 /\ path' \in Inodes /\ rotations + 1 > Newest
    <3>1. rotations + 1 \in Inodes
      BY Constants DEF IInv, Typed
    <3> QED BY <1>7, <2>1, <3>1 DEF Newest
  <2>3. content'[path'] = <<>>
    BY <1>7, <2>1, <2>2 DEF FewInv, Placed
  <2>4. Distinct' /\ DebtInv'
    BY <1>1, <1>3, <1>5, <1>6, <2>2, <2>3, WorldFew DEF FewInv
  <2>5. UNCHANGED <<file, checkpoint, durable, pc>>
    BY <1>1 DEF forwarder, follower
  <2>6. writer' <= Newest'
    BY <1>7, <2>1, <2>2 DEF FewInv, Placed
  <2>7. /\ file \in Inodes => file <= Newest' /\ file # path'
        /\ checkpoint.inode \in Inodes => checkpoint.inode <= Newest' /\ checkpoint.inode # path'
        /\ durable.inode \in Inodes => durable.inode <= Newest'
    <3>1. ASSUME NEW i \in Inodes, i <= Newest PROVE i <= Newest' /\ i # path'
      BY <1>7, <2>1, <2>2, <3>1
    <3> QED BY <3>1 DEF FewInv, Placed
  <2>8. \A j \in Inodes : j > Newest' => content'[j] = <<>>
    BY <1>7, <2>1, <2>2 DEF FewInv, Placed
  <2>9. file # path' /\ checkpoint.inode # path'
    BY <2>2, <2>7
  <2> QED BY <2>1, <2>2, <2>4, <2>5, <2>6, <2>7, <2>8, <2>9 DEF FewInv, Placed
<1> QED BY <1>8, <1>9

LEMMA SameWorld ==
  ASSUME UNCHANGED world
  PROVE  /\ (LinesOnce' <=> LinesOnce) /\ Newest' = Newest /\ (\A i : Size(i)' = Size(i))
         /\ (\A c : Again(c)' = Again(c)) /\ UNCHANGED <<content, path, writer, line, rotations>>
<1>1. UNCHANGED <<content, path, writer, line, rotations>>
  BY DEF world
<1>2. \A i : Size(i)' = Size(i)
  BY <1>1 DEF Size
<1> QED BY <1>1, <1>2 DEF LinesOnce, Newest, Again, Size

\* Nothing new is open: the debt does not grow.
LEMMA DebtKept ==
  ASSUME handled' = handled, \A l \in Lines : handled[l] > 0 /\ l \in Open' => l \in Open,
         NEW n \in Nat, Cardinality(Sent(handled, Open)) <= n
  PROVE  Cardinality(Sent(handled, Open))' <= n
<1>1. Cardinality(Sent(handled, Open')) <= Cardinality(Sent(handled, Open))
  BY SentLess
<1>2. Cardinality(Sent(handled, Open')) \in Nat /\ Cardinality(Sent(handled, Open)) \in Nat
  BY SentFinite
<1>3. Cardinality(Sent(handled, Open')) <= n
  BY <1>1, <1>2
<1> QED BY <1>3

LEMMA DebtBound ==
  ASSUME IInv, DebtInv
  PROVE  /\ crashes \in Nat /\ Cardinality(Sent(handled, Open)) <= crashes + 1
         /\ ~Unsynced => Cardinality(Sent(handled, Open)) <= crashes
         /\ Unsynced => Cardinality(Sent(handled, Left)) <= crashes
<1>1. crashes \in Nat /\ Cardinality(Sent(handled, Open)) \in Nat
  BY Shapes, SentFinite
<1>2. Cardinality(Sent(handled, Open)) <= crashes + (IF Unsynced THEN 1 ELSE 0)
  BY DEF DebtInv
<1>3. Unsynced => Cardinality(Sent(handled, Left)) <= crashes
  BY DEF DebtInv
<1> QED BY <1>1, <1>2, <1>3

\* The process goes on from one place to the next, or is interrupted.
LEMMA MoveFew ==
  ASSUME IInv, FewInv, UNCHANGED <<world, checkpoint, durable, follower, cur, handled>>,
         crashes' \in Nat, crashes <= crashes', Running' <=> Running, Delivering' <=> Delivering,
         Unsynced' <=> Unsynced, Draining' => path # file,
         pc' \in {"synced", "drainsynced"} => pc \in {"synced", "drainsynced"}
  PROVE  FewInv'
<1>1. /\ (LinesOnce' <=> LinesOnce) /\ Newest' = Newest /\ (\A i : Size(i)' = Size(i))
      /\ UNCHANGED <<content, path, writer, line, rotations>>
  BY SameWorld
<1>2. UNCHANGED <<file, readOffset, committedOffset, pending>>
  BY DEF follower
<1>3. (Whole(cur)' <=> Whole(cur)) /\ CurLine' = CurLine
  BY DEF Whole, CurLine
<1>4. Distinct'
  BY <1>1, <1>2, <1>3 DEF FewInv, Distinct, LinesPast, PendingApart, CurApart
<1>5. Placed'
  BY <1>1, <1>2 DEF FewInv, Placed
<1>6. Open' = Open /\ Left' = Left
  <2>1. Unread' = Unread
    BY <1>1, <1>2 DEF Unread
  <2>2. EndAfter(pending, 0)' = EndAfter(pending, 0) /\ Handing' = Handing
    BY <1>2, <1>3 DEF EndAfter, Handing
  <2>3. /\ Again(checkpoint)' = Again(checkpoint) /\ Again(durable)' = Again(durable)
        /\ Again([inode |-> file, offset |-> committedOffset])'
             = Again([inode |-> file, offset |-> committedOffset])
    BY <1>1, <1>2 DEF Again, Size
  <2> QED BY <2>1, <2>2, <2>3 DEF Open, Left
<1>7. DebtInv'
  <2>1. /\ crashes \in Nat /\ Cardinality(Sent(handled, Open)) \in Nat
        /\ Cardinality(Sent(handled, Left)) \in Nat
    BY Shapes, SentFinite
  <2>2. /\ Cardinality(Sent(handled, Open))' = Cardinality(Sent(handled, Open))
        /\ Cardinality(Sent(handled, Left))' = Cardinality(Sent(handled, Left))
    BY <1>6
  <2>3. /\ Cardinality(Sent(handled, Open)) <= crashes' + (IF Unsynced THEN 1 ELSE 0)
        /\ Unsynced => Cardinality(Sent(handled, Left)) <= crashes'
    BY <2>1 DEF FewInv, DebtInv
  <2> QED BY <1>2, <2>2, <2>3 DEF FewInv, DebtInv
<1> QED BY <1>4, <1>5, <1>7 DEF FewInv

\* The process ends: what it had not checkpointed for good is paid for by the
\* crash, and there is nothing of that kind when it ends of itself.
LEMMA ExitFew ==
  ASSUME IInv, FewInv, Exit, UNCHANGED <<world, handled>>,
         checkpoint' \in {checkpoint, durable}, durable' \in {checkpoint, durable},
         crashes' \in Nat, crashes + (IF Unsynced THEN 1 ELSE 0) <= crashes'
  PROVE  FewInv'
<1>1. /\ (LinesOnce' <=> LinesOnce) /\ Newest' = Newest /\ (\A i : Size(i)' = Size(i))
      /\ UNCHANGED <<content, path, writer, line, rotations>>
  BY SameWorld
<1>2. pc' = "down" /\ file' = NoFile /\ pending' = <<>> /\ Len(pending') = 0
  BY DEF Exit
<1>3. ~Running' /\ ~Delivering' /\ ~Unsynced' /\ ~Draining'
  BY <1>2 DEF Running, Delivering, Unsynced, Draining
<1>4. Distinct'
  BY <1>1, <1>2, <1>3 DEF FewInv, Distinct, LinesPast, PendingApart, CurApart
<1>5. Placed'
  BY <1>1, <1>2, <1>3, Constants DEF FewInv, Placed
<1>6. Open' \subseteq Open
  <2>1. Unread' = {} /\ Handing' = {}
    BY <1>3 DEF Unread, Handing
  <2>2. EndAfter(pending, 0)' = {}
    BY <1>2, NothingEnds DEF EndAfter
  <2>3. /\ Again(checkpoint)' \in {Again(checkpoint), Again(durable)}
        /\ Again(durable)' \in {Again(checkpoint), Again(durable)}
    BY <1>1 DEF Again, Size
  <2> QED BY <2>1, <2>2, <2>3 DEF Open
<1>7. DebtInv'
  <2>1. crashes \in Nat /\ Cardinality(Sent(handled, Open)) \in Nat
    BY Shapes, SentFinite
  <2>2. Cardinality(Sent(handled, Open)) <= crashes'
    BY <2>1 DEF FewInv, DebtInv
  <2>3. Cardinality(Sent(handled, Open))' <= crashes'
    BY <1>6, <2>2, DebtKept
  <2> QED BY <1>2, <1>3, <2>3 DEF DebtInv
<1> QED BY <1>4, <1>5, <1>7 DEF FewInv

\* A file is opened where a process would resume anyway.
LEMMA OpenFew ==
  ASSUME IInv, FewInv, path \in Inodes, NEW offset \in Nat, OpenAt(offset), offset <= Size(path),
         EndAfter(content[path], offset) \subseteq Open,
         UNCHANGED <<world, crashes, durable, handled>>, ~Unsynced,
         pc' \in {"read", "waitsynced"},
         \/ checkpoint' = checkpoint
         \/ checkpoint' = [inode |-> path, offset |-> offset]
  PROVE  FewInv'
<1>1. /\ (LinesOnce' <=> LinesOnce) /\ Newest' = Newest /\ (\A i : Size(i)' = Size(i))
      /\ UNCHANGED <<content, path, writer, line, rotations>>
  BY SameWorld
<1>2. /\ file' = path /\ readOffset' = offset /\ committedOffset' = offset
      /\ pending' = <<>> /\ Len(pending') = 0
  BY DEF OpenAt
<1>3. Running' /\ ~Delivering' /\ ~Unsynced' /\ ~Draining' /\ pc' \notin {"synced", "drainsynced"}
  BY DEF Running, Delivering, Unsynced, Draining
<1>4. Distinct'
  BY <1>1, <1>2, <1>3 DEF FewInv, Distinct, LinesPast, PendingApart, CurApart
<1>5. Placed'
  <2>1. path = rotations + 1 /\ path <= Newest /\ path # NoFile
    <3>1. rotations \in Nat /\ path \in Nat
      BY Shapes
    <3> QED BY <3>1, Constants DEF FewInv, Placed, Newest
  <2>2. checkpoint'.inode \in Inodes => checkpoint'.inode <= Newest
    BY <2>1 DEF FewInv, Placed
  <2> QED BY <1>1, <1>2, <1>3, <2>1, <2>2 DEF FewInv, Placed
<1>6. Open' \subseteq Open
  <2>1. Unread' = EndAfter(content[path], offset) /\ Handing' = {}
    BY <1>1, <1>2, <1>3 DEF Unread, Handing
  <2>2. EndAfter(pending, 0)' = {}
    BY <1>2, NothingEnds DEF EndAfter
  <2>3. Again(durable)' = Again(durable)
    BY <1>1 DEF Again, Size
  <2>4. Again(checkpoint)' \in {Again(checkpoint), EndAfter(content[path], offset)}
    <3>1. CASE checkpoint' = checkpoint
      BY <1>1, <3>1 DEF Again, Size
    <3>2. CASE checkpoint' = [inode |-> path, offset |-> offset]
      <4>1. checkpoint'.inode = path /\ checkpoint'.offset = offset /\ path # NoFile
        BY <3>2, Constants
      <4> QED BY <1>1, <4>1 DEF Again, Size
    <3> QED BY <3>1, <3>2
  <2> QED BY <2>1, <2>2, <2>3, <2>4 DEF Open
<1>7. DebtInv'
  <2>1. crashes \in Nat /\ Cardinality(Sent(handled, Open)) <= crashes
    BY DebtBound DEF FewInv
  <2>2. Cardinality(Sent(handled, Open))' <= crashes
    BY <1>6, <2>1, DebtKept
  <2> QED BY <1>3, <2>1, <2>2 DEF DebtInv
<1> QED BY <1>4, <1>5, <1>7 DEF FewInv

LEMMA OpenedFew == ASSUME IInv, FewInv, openFromCheckpoint PROVE FewInv'
<1>1. path \in Inodes /\ path # NoFile
  BY SourceThere, Shapes, Constants DEF openFromCheckpoint
<1>2. /\ UNCHANGED <<world, crashes, checkpoint, durable, handled>> /\ OpenAt(ResumeOffset(path))
      /\ pc = "down" /\ pc' = "read"
  BY DEF openFromCheckpoint, Goto, history
<1>3. PICK o : o = ResumeOffset(path)
  OBVIOUS
<1>4. o \in Nat /\ o <= Size(path)
  <2>1. checkpoint.offset \in Nat /\ Size(path) \in Nat
    BY <1>1, Shapes
  <2> QED BY <1>3, <2>1 DEF ResumeOffset
<1>5. EndAfter(content[path], o) \subseteq Open
  <2>1. Again(checkpoint) = EndAfter(content[path], o)
    BY <1>1, <1>3 DEF Again, ResumeOffset
  <2> QED BY <2>1 DEF Open
<1>6. ~Unsynced
  BY <1>2 DEF Unsynced
<1> QED BY <1>1, <1>2, <1>3, <1>4, <1>5, <1>6, OpenFew

LEMMA ReadFew == ASSUME IInv, FewInv, Read PROVE FewInv'
<1>1. /\ pc \in {"read", "drain"} /\ Running /\ ~Delivering /\ ~Unsynced /\ file \in Inodes
      /\ UNCHANGED <<world, crashes, checkpoint, durable, file, committedOffset, cur, handled>>
  BY DEF Read, Running, Delivering, Unsynced, IInv, Typed, history
<1>2. /\ (LinesOnce' <=> LinesOnce) /\ Newest' = Newest /\ (\A i : Size(i)' = Size(i))
      /\ UNCHANGED <<content, path, writer, line, rotations>>
  BY <1>1, SameWorld
<1>3. CASE readOffset' = readOffset
  <2>1. pending' = pending /\ pc' \in {"stat", "reopen"} /\ (pc = "read" => pc' = "stat")
    <3>1. \/ /\ readOffset' = readOffset + BufUnits \/ readOffset' = Size(file)
             /\ readOffset < readOffset'
          \/ pending' = pending /\ pc' = IF pc = "read" THEN "stat" ELSE "reopen"
      BY DEF Read, Goto
    <3>2. readOffset \in Nat
      BY Shapes
    <3> QED BY <1>1, <1>3, <3>1, <3>2
  <2>2. Running' /\ ~Delivering' /\ ~Unsynced' /\ pc' \notin {"synced", "drainsynced"}
    BY <2>1 DEF Running, Delivering, Unsynced
  <2>3. Draining' => path # file
    BY <1>1, <2>1 DEF FewInv, Placed, Draining
  <2>4. UNCHANGED follower /\ crashes' \in Nat /\ crashes <= crashes'
    <3>1. crashes \in Nat
      BY Shapes
    <3> QED BY <1>1, <1>3, <2>1, <3>1 DEF follower
  <2> QED BY <1>1, <2>2, <2>3, <2>4, MoveFew
<1>4. CASE readOffset' # readOffset
  <2> DEFINE n == Len(pending)
             m == readOffset' - readOffset
  <2>1. /\ pc' \in {"lines", "drainlines"} /\ (pc = "read" => pc' = "lines")
        /\ readOffset' \in Nat /\ readOffset < readOffset' /\ readOffset' <= Size(file)
        /\ pending' \in Seq(Units) /\ Len(pending') = n + m
        /\ \A j \in 1..n : pending'[j] = pending[j]
        /\ \A j \in 1..m : pending'[n + j] = content[file][readOffset + j]
    BY <1>4, Got
  <2>2. Running' /\ ~Delivering' /\ ~Unsynced' /\ pc' \notin {"synced", "drainsynced"}
    BY <2>1 DEF Running, Delivering, Unsynced
  <2>3. Draining' => Draining
    BY <1>1, <2>1 DEF Draining
  <2>4. /\ readOffset \in Nat /\ committedOffset \in Nat /\ n \in Nat /\ m \in Nat /\ Size(file) \in Nat
        /\ readOffset = committedOffset + n /\ Len(content[file]) = Size(file)
    <3>1. /\ readOffset \in Nat /\ committedOffset \in Nat /\ n \in Nat /\ Size(file) \in Nat
          /\ readOffset = committedOffset + n /\ Len(content[file]) = Size(file)
      BY <1>1, Shapes
    <3> QED BY <2>1, <3>1
  <2>m. readOffset + m = readOffset'
    <3>1. readOffset' \in Int /\ readOffset \in Int
      BY <2>1, <2>4
    <3>2. \A x, y \in Int : x + (y - x) = y
      OBVIOUS
    <3>3. readOffset + (readOffset' - readOffset) = readOffset'
      BY <3>1, <3>2
    <3> QED BY <3>3, Zenon
  <2> HIDE DEF n, m
  \* A pending unit was pending before or comes from the file.
  <2>5. ASSUME NEW j \in 1..Len(pending')
        PROVE  \/ j \in 1..n /\ pending'[j] = pending[j]
               \/ /\ j > n /\ committedOffset + j \in 1..Size(file) /\ committedOffset + j > readOffset
                  /\ pending'[j] = content[file][committedOffset + j]
    <3>1. CASE j <= n
      <4>1. j \in 1..n
        BY <2>1, <2>4, <3>1
      <4> QED BY <2>1, <4>1
    <3>2. CASE ~(j <= n)
      <4>0. j \in Int /\ j >= 1 /\ j <= n + m
        BY <2>1, <2>4
      <4>1. PICK k \in 1..m : j = n + k
        <5>1. j - n \in 1..m /\ j = n + (j - n)
          BY <2>4, <3>2, <4>0
        <5> QED BY <5>1
      <4>2. pending'[j] = content[file][readOffset + k]
        BY <2>1, <4>1
      <4>3. /\ readOffset + k = committedOffset + j /\ j > n /\ committedOffset + j > readOffset
            /\ committedOffset + j \in 1..Size(file)
        <5>1. k \in Nat /\ k >= 1 /\ k <= m /\ j = n + k
          BY <2>4, <4>1
        <5>2. readOffset + m = readOffset'
          BY <2>m
        <5>3. readOffset + k = committedOffset + j /\ j > n
          BY <2>4, <5>1
        <5>4. readOffset + k > readOffset /\ readOffset + k <= Size(file) /\ readOffset + k >= 1
          BY <2>1, <2>4, <5>1, <5>2
        <5> QED BY <2>4, <5>1, <5>3, <5>4
      <4> QED BY <4>2, <4>3
    <3> QED BY <3>1, <3>2
  <2>6. ASSUME NEW a \in 1..n, NEW k \in 1..Size(file), k > readOffset, pending[a].nl, content[file][k].nl
        PROVE  pending[a].line # content[file][k].line
    <3> SUFFICES ASSUME pending[a].line = content[file][k].line PROVE FALSE
      OBVIOUS
    <3>1. k <= committedOffset + a
      BY <1>1, <2>6 DEF FewInv, Distinct, PendingApart, n
    <3> QED BY <2>4, <2>6, <3>1
  <2>7. PendingApart'
    <3>1. ASSUME NEW a \in 1..Len(pending'), NEW b \in 1..Len(pending'), pending'[a].nl, pending'[b].nl,
                 pending'[a].line = pending'[b].line
          PROVE  a = b
      <4>1. CASE a \in 1..n /\ pending'[a] = pending[a] /\ b \in 1..n /\ pending'[b] = pending[b]
        BY <3>1, <4>1 DEF FewInv, Distinct, PendingApart, n
      <4>2. CASE a > n /\ b > n
        <5>1. /\ committedOffset + a \in 1..Size(file) /\ pending'[a] = content[file][committedOffset + a]
              /\ committedOffset + b \in 1..Size(file) /\ pending'[b] = content[file][committedOffset + b]
          <6>1. a \notin 1..n /\ b \notin 1..n
            BY <2>4, <4>2
          <6> QED BY <2>5, <6>1
        <5>2. committedOffset + a = committedOffset + b
          BY <1>1, <3>1, <5>1 DEF FewInv, Distinct, LinesOnce
        <5>3. a \in Int /\ b \in Int
          OBVIOUS
        <5> QED BY <2>4, <5>2, <5>3
      <4>3. ASSUME NEW x \in 1..Len(pending'), NEW y \in 1..Len(pending'), x \in 1..n, y > n,
                   pending'[x].nl, pending'[y].nl
            PROVE  pending'[x].line # pending'[y].line
        <5>1. pending'[x] = pending[x]
          BY <2>1, <4>3
        <5>2. y \in Int /\ y \notin 1..n
          BY <2>4, <4>3
        <5>3. /\ committedOffset + y \in 1..Size(file) /\ committedOffset + y > readOffset
              /\ pending'[y] = content[file][committedOffset + y]
          BY <2>5, <5>2
        <5> QED BY <2>6, <4>3, <5>1, <5>3
      <4> QED BY <2>5, <3>1, <4>1, <4>2, <4>3
    <3>2. ASSUME NEW j \in 1..Len(pending'), NEW i \in Inodes, NEW k \in 1..Size(i),
                 pending'[j].nl, content[i][k].nl, pending'[j].line = content[i][k].line
          PROVE  i = file /\ k <= committedOffset + j
      <4>1. CASE j \in 1..n /\ pending'[j] = pending[j]
        BY <3>2, <4>1 DEF FewInv, Distinct, PendingApart, n
      <4>2. CASE committedOffset + j \in 1..Size(file) /\ pending'[j] = content[file][committedOffset + j]
        <5>1. i = file /\ k = committedOffset + j
          BY <1>1, <3>2, <4>2 DEF FewInv, Distinct, LinesOnce
        <5> QED BY <5>1
      <4> QED BY <2>5, <4>1, <4>2
    <3> QED BY <1>1, <1>2, <2>1, <3>1, <3>2 DEF PendingApart
  <2>8. LinesPast'
    <3>1. ASSUME NEW j \in 1..Len(pending'), pending'[j].nl PROVE pending'[j].line < line
      <4>1. CASE j \in 1..n /\ pending'[j] = pending[j]
        BY <3>1, <4>1 DEF FewInv, Distinct, LinesPast, n
      <4>2. CASE committedOffset + j \in 1..Size(file) /\ pending'[j] = content[file][committedOffset + j]
        BY <1>1, <3>1, <4>2 DEF FewInv, Distinct, LinesPast
      <4> QED BY <2>5, <4>1, <4>2
    <3> QED BY <1>1, <1>2, <2>2, <3>1 DEF FewInv, Distinct, LinesPast
  <2>9. Distinct'
    BY <1>2, <2>2, <2>7, <2>8 DEF FewInv, Distinct, CurApart
  <2>10. Placed'
    BY <1>1, <1>2, <2>2, <2>3 DEF FewInv, Placed
  <2>11. Open' \subseteq Open
    <3>1. Unread' = EndAfter(content[file], committedOffset) /\ Unread = EndAfter(content[file], committedOffset)
      <4>1. readOffset <= Size(file)
        BY <2>1, <2>4
      <4> QED BY <1>1, <1>2, <2>1, <2>2, <4>1 DEF Unread
    <3>2. Handing' = {} /\ Again(checkpoint)' = Again(checkpoint) /\ Again(durable)' = Again(durable)
      BY <1>1, <1>2, <2>2 DEF Handing, Again, Size
    <3>3. ASSUME NEW l \in EndAfter(pending', 0) PROVE l \in EndAfter(pending, 0) \cup Unread
      <4>1. PICK j \in 1..Len(pending') : j > 0 /\ pending'[j].nl /\ l = pending'[j].line
        BY EndsIn
      <4>2. CASE j \in 1..n /\ pending'[j] = pending[j]
        <5>1. l \in EndAfter(pending, 0)
          BY <4>1, <4>2, EndsIn DEF n
        <5> QED BY <5>1
      <4>3. CASE /\ committedOffset + j \in 1..Size(file) /\ committedOffset + j > readOffset
                 /\ pending'[j] = content[file][committedOffset + j]
        <5>1. committedOffset + j > committedOffset
          BY <2>4, <4>3
        <5>2. l \in EndAfter(content[file], committedOffset)
          BY <2>4, <4>1, <4>3, <5>1, EndsIn
        <5> QED BY <3>1, <5>2
      <4> QED BY <2>5, <4>2, <4>3
    <3>4. EndAfter(pending, 0)' = EndAfter(pending', 0)
      OBVIOUS
    <3> QED BY <3>1, <3>2, <3>3, <3>4 DEF Open
  <2>12. DebtInv'
    <3>1. crashes \in Nat /\ Cardinality(Sent(handled, Open)) <= crashes
      BY <1>1, DebtBound DEF FewInv
    <3>2. Cardinality(Sent(handled, Open))' <= crashes
      BY <1>1, <2>11, <3>1, DebtKept
    <3> QED BY <1>1, <2>2, <3>1, <3>2 DEF DebtInv
  <2> QED BY <2>9, <2>10, <2>12 DEF FewInv
<1> QED BY <1>3, <1>4

LEMMA CutFew == ASSUME IInv, FewInv, CutLine PROVE FewInv'
<1>1. /\ pc \in {"lines", "drainlines"} /\ Running /\ ~Delivering /\ ~Unsynced /\ file \in Inodes
      /\ UNCHANGED <<world, crashes, checkpoint, durable, file, readOffset, handled>>
  BY DEF CutLine, Running, Delivering, Unsynced, IInv, Typed, history
<1>2. /\ (LinesOnce' <=> LinesOnce) /\ Newest' = Newest /\ (\A i : Size(i)' = Size(i))
      /\ UNCHANGED <<content, path, writer, line, rotations>>
  BY <1>1, SameWorld
<1>3. CASE NewlineAt = {}
  <2>1. /\ UNCHANGED <<pending, committedOffset, cur>> /\ pc' \in {"read", "drain"}
        /\ (pc = "lines" => pc' = "read")
    BY <1>1, <1>3 DEF CutLine, Goto
  <2>2. Running' /\ ~Delivering' /\ ~Unsynced' /\ pc' \notin {"synced", "drainsynced"}
    BY <2>1 DEF Running, Delivering, Unsynced
  <2>3. Draining' => path # file
    BY <1>1, <2>1 DEF FewInv, Placed, Draining
  <2>4. UNCHANGED follower /\ crashes' \in Nat /\ crashes <= crashes'
    <3>1. crashes \in Nat
      BY Shapes
    <3> QED BY <1>1, <2>1, <3>1 DEF follower
  <2> QED BY <1>1, <2>1, <2>2, <2>3, <2>4, MoveFew
<1>4. CASE NewlineAt # {}
  <2> DEFINE n == Len(pending)
  <2>1. PICK idx \in NewlineAt :
           /\ idx \in 1..n /\ idx \in Nat
           /\ Len(cur') = idx /\ \A j \in 1..idx : cur'[j] = pending[j]
           /\ Len(pending') = n - idx
           /\ \A j \in 1..(n - idx) : pending'[j] = pending[idx + j]
           /\ committedOffset' = committedOffset + idx /\ pc' \in {"deliver", "draindeliver"}
           /\ (pc = "lines" => pc' = "deliver")
    BY <1>4, CutOff
  <2>2. /\ readOffset \in Nat /\ committedOffset \in Nat /\ n \in Nat /\ Size(file) \in Nat
        /\ idx \in 1..n /\ pending[idx].nl
    <3>1. readOffset \in Nat /\ committedOffset \in Nat /\ n \in Nat /\ Size(file) \in Nat
      BY <1>1, Shapes
    <3> QED BY <2>1, <3>1 DEF NewlineAt
  <2>3. Running' /\ Delivering' /\ ~Unsynced' /\ pc' \notin {"synced", "drainsynced"}
    BY <2>1 DEF Running, Delivering, Unsynced
  <2>4. Draining' => Draining
    BY <1>1, <2>1 DEF Draining
  <2> HIDE DEF n
  \* What stays pending, and where it was.
  <2>5. ASSUME NEW j \in 1..Len(pending')
        PROVE  /\ idx + j \in 1..n /\ idx + j # idx /\ pending'[j] = pending[idx + j]
               /\ committedOffset' + j = committedOffset + (idx + j)
    <3>1. j \in 1..(n - idx)
      BY <2>1
    <3> QED BY <2>1, <2>2, <3>1
  \* A whole line that was cut off ends at the newline.
  <2>6. Whole(cur)' => CurLine' = pending[idx].line
    <3> SUFFICES ASSUME Whole(cur)' PROVE CurLine' = pending[idx].line
      OBVIOUS
    <3>1. PICK l \in Lines : cur' = <<[line |-> l, nl |-> FALSE], [line |-> l, nl |-> TRUE]>>
      BY DEF Whole
    <3>2. Len(cur') = 2 /\ cur'[1].line = l /\ cur'[2].line = l
      BY <3>1
    <3>3. idx = 2 /\ cur'[2] = pending[2]
      BY <2>1, <3>2
    <3> QED BY <3>2, <3>3 DEF CurLine
  <2>7. LinesPast'
    <3>1. \A j \in 1..Len(pending') : pending'[j].nl => pending'[j].line < line
      BY <2>5 DEF FewInv, Distinct, LinesPast, n
    <3>2. Whole(cur)' => CurLine' < line
      BY <2>2, <2>6 DEF FewInv, Distinct, LinesPast, n
    <3> QED BY <1>1, <1>2, <3>1, <3>2 DEF FewInv, Distinct, LinesPast
  <2>8. PendingApart'
    <3>1. ASSUME NEW a \in 1..Len(pending'), NEW b \in 1..Len(pending'), pending'[a].nl, pending'[b].nl,
                 pending'[a].line = pending'[b].line
          PROVE  a = b
      <4>1. idx + a = idx + b
        BY <2>5, <3>1 DEF FewInv, Distinct, PendingApart, n
      <4>2. a \in Int /\ b \in Int
        OBVIOUS
      <4> QED BY <2>1, <4>1, <4>2
    <3>2. ASSUME NEW j \in 1..Len(pending'), NEW i \in Inodes, NEW k \in 1..Size(i),
                 pending'[j].nl, content[i][k].nl, pending'[j].line = content[i][k].line
          PROVE  i = file /\ k <= committedOffset' + j /\ readOffset <= Size(file)
      <4>1. i = file /\ k <= committedOffset + (idx + j) /\ readOffset <= Size(file)
        BY <2>5, <3>2 DEF FewInv, Distinct, PendingApart, n
      <4> QED BY <2>5, <4>1
    <3> QED BY <1>1, <1>2, <3>1, <3>2 DEF PendingApart
  <2>9. CurApart'
    <3> SUFFICES ASSUME Whole(cur)' PROVE CurApart'
      BY DEF CurApart
    <3>1. CurLine' = pending[idx].line
      BY <2>6
    <3>2. ASSUME NEW a \in 1..Len(pending'), pending'[a].nl PROVE pending'[a].line # CurLine'
      BY <2>2, <2>5, <3>1, <3>2 DEF FewInv, Distinct, PendingApart, n
    <3>3. ASSUME NEW i \in Inodes, NEW k \in 1..Size(i), content[i][k].nl, CurLine' = content[i][k].line
          PROVE  i = file /\ k <= committedOffset' /\ readOffset <= Size(file)
      <4>1. i = file /\ k <= committedOffset + idx /\ readOffset <= Size(file)
        BY <2>2, <3>1, <3>3 DEF FewInv, Distinct, PendingApart, n
      <4> QED BY <2>1, <4>1
    <3> QED BY <1>1, <1>2, <3>2, <3>3 DEF CurApart
  <2>10. Distinct'
    BY <1>2, <2>7, <2>8, <2>9 DEF FewInv, Distinct
  <2>11. Placed'
    BY <1>1, <1>2, <2>3, <2>4 DEF FewInv, Placed
  <2>12. Open' \subseteq Open
    <3>1. Unread' \subseteq Unread
      <4> DEFINE x == IF readOffset <= Size(file) THEN committedOffset ELSE 0
                 y == IF readOffset <= Size(file) THEN committedOffset' ELSE 0
      <4>1. x \in Int /\ y \in Int /\ x <= y
        BY <2>1, <2>2
      <4>2. Unread = EndAfter(content[file], x) /\ Unread' = EndAfter(content[file], y)
        BY <1>1, <1>2, <2>3 DEF Unread
      <4> HIDE DEF x, y
      <4> QED BY <4>1, <4>2, EndsMore
    <3>2. EndAfter(pending', 0) \subseteq EndAfter(pending, 0)
      <4> SUFFICES ASSUME NEW l \in EndAfter(pending', 0) PROVE l \in EndAfter(pending, 0)
        OBVIOUS
      <4>1. PICK j \in 1..Len(pending') : pending'[j].nl /\ l = pending'[j].line
        BY EndsIn
      <4>2. idx + j \in 1..Len(pending) /\ idx + j > 0 /\ pending[idx + j].nl /\ l = pending[idx + j].line
        BY <2>2, <2>5, <4>1 DEF n
      <4> QED BY <4>2, EndsIn
    <3>3. Handing' \subseteq EndAfter(pending, 0)
      <4> SUFFICES ASSUME Whole(cur)' PROVE pending[idx].line \in EndAfter(pending, 0)
        BY <2>6 DEF Handing
      <4>1. idx \in 1..Len(pending) /\ idx > 0 /\ pending[idx].nl
        BY <2>2 DEF n
      <4> QED BY <4>1, EndsIn
    <3>4. Again(checkpoint)' = Again(checkpoint) /\ Again(durable)' = Again(durable)
      BY <1>1, <1>2 DEF Again, Size
    <3>5. EndAfter(pending, 0)' = EndAfter(pending', 0)
      OBVIOUS
    <3> QED BY <3>1, <3>2, <3>3, <3>4, <3>5 DEF Open
  <2>13. DebtInv'
    <3>1. crashes \in Nat /\ Cardinality(Sent(handled, Open)) <= crashes
      BY <1>1, DebtBound DEF FewInv
    <3>2. Cardinality(Sent(handled, Open))' <= crashes
      BY <1>1, <2>12, <3>1, DebtKept
    <3> QED BY <1>1, <2>3, <3>1, <3>2 DEF DebtInv
  <2> QED BY <2>10, <2>11, <2>13 DEF FewInv
<1> QED BY <1>3, <1>4

\* The callback returned nil: the line at hand counts until its checkpoint is
\* there for good, and is not among what is left.
LEMMA HandleFew ==
  ASSUME IInv, FewInv, Delivering, NEW outcome, Handle(outcome)
  PROVE  FewInv'
<1>1. /\ pc \in {"deliver", "draindeliver"} /\ Running /\ ~Unsynced /\ file \in Inodes
      /\ pc' \in {"save", "drainsave"} /\ (pc = "deliver" => pc' = "save")
      /\ UNCHANGED <<world, crashes, checkpoint, durable, follower, cur>>
  BY DEF Handle, Goto, Delivering, Running, Unsynced, IInv, Typed
<1>2. /\ (LinesOnce' <=> LinesOnce) /\ Newest' = Newest /\ (\A i : Size(i)' = Size(i))
      /\ UNCHANGED <<content, path, writer, line, rotations>>
  BY <1>1, SameWorld
<1>3. UNCHANGED <<file, readOffset, committedOffset, pending>>
  BY <1>1 DEF follower
<1>4. Running' /\ ~Delivering' /\ Unsynced' /\ pc' \notin {"synced", "drainsynced"}
  BY <1>1 DEF Running, Delivering, Unsynced
<1>5. Draining' => Draining
  BY <1>1 DEF Draining
<1>6. /\ handled \in [Lines -> Nat] /\ (Whole(cur) => CurLine \in Lines)
      /\ handled' = IF Whole(cur) THEN [handled EXCEPT ![CurLine] = @ + 1] ELSE handled
  <2>1. handled \in [Lines -> Nat]
    BY Shapes
  <2> QED BY <2>1 DEF Handle, Whole, CurLine
<1>7. \A l \in Lines : handled'[l] # handled[l] =>
          Whole(cur) /\ l = CurLine /\ handled[l] \in Nat /\ handled'[l] = handled[l] + 1
  BY <1>6
<1>8. Distinct'
  <2>1. \A l \in Lines : handled'[l] > 0 => l < line
    BY <1>7 DEF FewInv, Distinct, LinesPast
  <2>2. LinesPast'
    BY <1>2, <1>3, <1>4, <2>1 DEF FewInv, Distinct, LinesPast
  <2> QED BY <1>2, <1>3, <1>4, <2>2 DEF FewInv, Distinct, PendingApart, CurApart
<1>9. Placed'
  BY <1>1, <1>2, <1>3, <1>4, <1>5 DEF FewInv, Placed
<1>10. Unread' = Unread /\ EndAfter(pending, 0)' = EndAfter(pending, 0) /\ Handing' = {}
  BY <1>1, <1>2, <1>3, <1>4 DEF Unread, EndAfter, Handing
<1>11. Open' \subseteq Open
  <2>1. Again(checkpoint)' = Again(checkpoint) /\ Again(durable)' = Again(durable)
    BY <1>1, <1>2 DEF Again, Size
  <2> QED BY <1>10, <2>1 DEF Open
<1>12. Left' = Left /\ Left \subseteq Open
  <2>1. Again([inode |-> file, offset |-> committedOffset])'
             = Again([inode |-> file, offset |-> committedOffset])
    BY <1>2, <1>3 DEF Again, Size
  <2> QED BY <1>1, <1>10, <2>1, LeftOpen DEF Left, FewInv
<1>13. Whole(cur) => CurLine \notin Left
  <2> SUFFICES ASSUME Whole(cur), CurLine \in Left PROVE FALSE
    OBVIOUS
  <2>1. \A a \in 1..Len(pending) : pending[a].nl => pending[a].line # CurLine
    BY DEF FewInv, Distinct, CurApart
  <2>2. ASSUME NEW i \in Inodes, NEW k \in 1..Size(i), content[i][k].nl, CurLine = content[i][k].line
        PROVE  i = file /\ k <= committedOffset /\ readOffset <= Size(file)
    BY <2>2 DEF FewInv, Distinct, CurApart
  <2>3. /\ readOffset \in Nat /\ committedOffset \in Nat /\ committedOffset <= readOffset
        /\ Size(file) \in Nat /\ Len(content[file]) = Size(file)
    <3>1. /\ readOffset \in Nat /\ committedOffset \in Nat /\ Len(pending) \in Nat
          /\ readOffset = committedOffset + Len(pending)
          /\ Size(file) \in Nat /\ Len(content[file]) = Size(file)
      BY <1>1, Shapes
    <3> QED BY <3>1
  <2>4. CurLine \notin EndAfter(pending, 0)
    BY <2>1, EndsIn
  <2>5. CurLine \notin Unread
    <3> SUFFICES ASSUME CurLine \in Unread PROVE FALSE
      OBVIOUS
    <3> DEFINE x == IF readOffset <= Size(file) THEN committedOffset ELSE 0
    <3>1. CurLine \in EndAfter(content[file], x)
      BY <1>1 DEF Unread
    <3>2. PICK k \in 1..Len(content[file]) : k > x /\ content[file][k].nl /\ CurLine = content[file][k].line
      BY <3>1, EndsIn
    <3>3. k <= committedOffset /\ readOffset <= Size(file)
      BY <1>1, <2>2, <2>3, <3>2
    <3> QED BY <2>3, <3>2, <3>3
  <2>6. CurLine \notin Again([inode |-> file, offset |-> committedOffset])
    <3> DEFINE here == [inode |-> file, offset |-> committedOffset]
    <3>1. here.inode = file /\ here.offset = committedOffset
      OBVIOUS
    <3> HIDE DEF here
    <3> SUFFICES ASSUME CurLine \in Again(here) PROVE FALSE
      BY DEF here
    <3> DEFINE x == IF here.inode = path /\ here.offset <= Size(path) THEN here.offset ELSE 0
    <3>2. path # NoFile /\ CurLine \in EndAfter(content[path], x)
      BY DEF Again
    <3>3. path \in Inodes /\ Len(content[path]) = Size(path)
      BY <3>2, Shapes
    <3>4. PICK k \in 1..Len(content[path]) : k > x /\ content[path][k].nl /\ CurLine = content[path][k].line
      BY <3>2, EndsIn
    <3>5. path = file /\ k <= committedOffset /\ readOffset <= Size(file)
      BY <2>2, <3>3, <3>4
    <3>6. x = committedOffset
      BY <2>3, <3>1, <3>5
    <3> QED BY <2>3, <3>4, <3>5, <3>6
  <2> QED BY <2>4, <2>5, <2>6 DEF Left
<1>14. crashes \in Nat /\ Cardinality(Sent(handled, Open)) <= crashes
  BY <1>1, DebtBound DEF FewInv
<1>15. Cardinality(Sent(handled', Open')) <= crashes + 1
  <2>1. CASE ~Whole(cur)
    <3>1. handled' = handled
      BY <1>6, <2>1
    <3>2. Cardinality(Sent(handled, Open)) <= crashes + 1 /\ crashes + 1 \in Nat
      BY <1>14, SentFinite
    <3> QED BY <1>11, <3>1, <3>2, DebtKept
  <2>2. CASE Whole(cur)
    <3> DEFINE S == Sent(handled, Open)
    <3>1. Sent(handled', Open') \in SUBSET (S \cup {CurLine})
      BY <1>7, <1>11 DEF Sent
    <3>2. IsFiniteSet(S) /\ Cardinality(S) \in Nat
      BY SentFinite
    <3> HIDE DEF S
    <3>3. /\ IsFiniteSet(S \cup {CurLine}) /\ Cardinality(S \cup {CurLine}) \in Nat
          /\ Cardinality(S \cup {CurLine}) <= Cardinality(S) + 1
      <4>1. IsFiniteSet(S \cup {CurLine})
        BY <3>2, FS_AddElement
      <4>2. Cardinality(S \cup {CurLine}) = Cardinality(S) \/ Cardinality(S \cup {CurLine}) = Cardinality(S) + 1
        BY <3>2, FS_AddElement
      <4> QED BY <3>2, <4>1, <4>2
    <3>4. Cardinality(Sent(handled', Open')) <= Cardinality(S \cup {CurLine})
      BY <3>1, <3>3, FS_Subset
    <3>5. Cardinality(Sent(handled', Open')) \in Nat
      BY SentFinite
    <3>6. Cardinality(S) <= crashes
      BY <1>14 DEF S
    <3> QED BY <1>14, <3>2, <3>3, <3>4, <3>5, <3>6
  <2> QED BY <2>1, <2>2
<1>16. Cardinality(Sent(handled', Left')) <= crashes
  <2>1. Whole(cur) => CurLine \in Open
    BY DEF Open, Handing
  <2>2. Sent(handled', Left') \in SUBSET Sent(handled, Open)
    <3> SUFFICES ASSUME NEW l \in Lines, handled'[l] > 1 \/ (handled'[l] > 0 /\ l \in Left)
                 PROVE  handled[l] > 1 \/ (handled[l] > 0 /\ l \in Open)
      BY <1>12 DEF Sent
    <3>1. CASE handled'[l] = handled[l]
      BY <1>12, <3>1
    <3>2. CASE handled'[l] # handled[l]
      BY <1>7, <1>13, <2>1, <3>2
    <3> QED BY <3>1, <3>2
  <2>3. /\ Cardinality(Sent(handled', Left')) \in Nat /\ Cardinality(Sent(handled, Open)) \in Nat
        /\ IsFiniteSet(Sent(handled, Open))
    BY SentFinite
  <2>4. Cardinality(Sent(handled', Left')) <= Cardinality(Sent(handled, Open))
    BY <2>2, <2>3, FS_Subset
  <2> QED BY <1>14, <2>3, <2>4
<1>17. DebtInv'
  BY <1>1, <1>4, <1>15, <1>16 DEF DebtInv
<1> QED BY <1>8, <1>9, <1>17 DEF FewInv

\* The checkpoint of the line at hand is renamed into place: what it would
\* resume at is among what was open.
LEMMA SaveFew == ASSUME IInv, FewInv, SaveAfterLine PROVE FewInv'
<1>1. /\ pc \in {"save", "drainsave"} /\ Running /\ ~Delivering /\ Unsynced /\ file \in Inodes
      /\ pc' \in {"synced", "drainsynced"} /\ (pc = "save" => pc' = "synced")
      /\ checkpoint' = [inode |-> file, offset |-> committedOffset]
      /\ UNCHANGED <<world, crashes, durable, follower, handled>>
  BY DEF SaveAfterLine, SaveCheckpoint, Goto, Running, Delivering, Unsynced, IInv, Typed, history
<1>2. /\ (LinesOnce' <=> LinesOnce) /\ Newest' = Newest /\ (\A i : Size(i)' = Size(i))
      /\ UNCHANGED <<content, path, writer, line, rotations>>
  BY <1>1, SameWorld
<1>3. UNCHANGED <<file, readOffset, committedOffset, pending>>
  BY <1>1 DEF follower
<1>4. Running' /\ ~Delivering' /\ Unsynced'
  BY <1>1 DEF Running, Delivering, Unsynced
<1>5. Draining' => Draining
  BY <1>1 DEF Draining
<1>6. Distinct'
  BY <1>1, <1>2, <1>3, <1>4 DEF FewInv, Distinct, LinesPast, PendingApart, CurApart
<1>7. Placed'
  <2>1. checkpoint'.inode = file
    BY <1>1
  <2> QED BY <1>1, <1>2, <1>3, <1>4, <1>5, <2>1 DEF FewInv, Placed
<1>8. Unread' = Unread /\ EndAfter(pending, 0)' = EndAfter(pending, 0) /\ Handing' = {}
  BY <1>1, <1>2, <1>3, <1>4 DEF Unread, EndAfter, Handing
<1>9. Again([inode |-> file, offset |-> committedOffset])'
        = Again([inode |-> file, offset |-> committedOffset])
  BY <1>2, <1>3 DEF Again, Size
<1>10. Open' \subseteq Open /\ Left' = Left
  <2>1. Again(checkpoint)' = Again([inode |-> file, offset |-> committedOffset])
    BY <1>1, <1>3, <1>9
  <2>2. Again(durable)' = Again(durable)
    BY <1>1, <1>2 DEF Again, Size
  <2>3. Left \subseteq Open
    BY <1>1, LeftOpen DEF FewInv
  <2> QED BY <1>8, <1>9, <2>1, <2>2, <2>3 DEF Open, Left
<1>11. DebtInv'
  <2>1. /\ crashes \in Nat /\ crashes + 1 \in Nat /\ Cardinality(Sent(handled, Open)) <= crashes + 1
        /\ Cardinality(Sent(handled, Left)) <= crashes
    BY <1>1, DebtBound DEF FewInv
  <2>2. Cardinality(Sent(handled, Open))' <= crashes + 1
    BY <1>1, <1>10, <2>1, DebtKept
  <2>3. Cardinality(Sent(handled, Left))' <= crashes
    BY <1>1, <1>10, <2>1
  <2> QED BY <1>1, <1>3, <1>4, <2>1, <2>2, <2>3 DEF DebtInv
<1> QED BY <1>6, <1>7, <1>11 DEF FewInv

\* The checkpoint is there for good: only what is left stays open.
LEMMA SyncFew == ASSUME IInv, FewInv, SyncDirectory PROVE FewInv'
<1>1. /\ pc \in {"synced", "drainsynced", "waitsynced"} /\ Running /\ ~Delivering
      /\ pc' \in {"lines", "drainlines", "wait"} /\ (pc' = "drainlines" => pc = "drainsynced")
      /\ durable' = checkpoint
      /\ UNCHANGED <<world, crashes, checkpoint, follower, cur, handled>>
  BY Pcs DEF SyncDirectory, Goto, Running, Delivering, history
<1>2. /\ (LinesOnce' <=> LinesOnce) /\ Newest' = Newest /\ (\A i : Size(i)' = Size(i))
      /\ UNCHANGED <<content, path, writer, line, rotations>>
  BY <1>1, SameWorld
<1>3. UNCHANGED <<file, readOffset, committedOffset, pending>>
  BY <1>1 DEF follower
<1>4. Running' /\ ~Delivering' /\ ~Unsynced' /\ pc' \notin {"synced", "drainsynced"}
  BY <1>1 DEF Running, Delivering, Unsynced
<1>5. Draining' => Draining
  BY <1>1 DEF Draining
<1>6. Distinct'
  BY <1>1, <1>2, <1>3, <1>4 DEF FewInv, Distinct, LinesPast, PendingApart, CurApart
<1>7. Placed'
  BY <1>1, <1>2, <1>3, <1>4, <1>5 DEF FewInv, Placed
<1>8. Open' = Unread \cup EndAfter(pending, 0) \cup Again(checkpoint)
  <2>1. Unread' = Unread /\ EndAfter(pending, 0)' = EndAfter(pending, 0) /\ Handing' = {}
    BY <1>1, <1>2, <1>3, <1>4 DEF Unread, EndAfter, Handing
  <2>2. Again(checkpoint)' = Again(checkpoint) /\ Again(durable)' = Again(checkpoint)
    BY <1>1, <1>2 DEF Again, Size
  <2> QED BY <2>1, <2>2 DEF Open
<1>9. Cardinality(Sent(handled, Open))' <= crashes
  <2>1. CASE pc = "waitsynced"
    <3>1. ~Unsynced
      BY <2>1 DEF Unsynced
    <3>2. crashes \in Nat /\ Cardinality(Sent(handled, Open)) <= crashes
      BY <3>1, DebtBound DEF FewInv
    <3>3. Open' \subseteq Open
      BY <1>8 DEF Open
    <3> QED BY <1>1, <3>2, <3>3, DebtKept
  <2>2. CASE pc \in {"synced", "drainsynced"}
    <3>1. Open' = Left
      BY <1>8, <2>2 DEF Left, FewInv, DebtInv
    <3>2. Cardinality(Sent(handled, Left)) <= crashes
      BY <2>2 DEF FewInv, DebtInv, Unsynced
    <3> QED BY <1>1, <3>1, <3>2
  <2> QED BY <1>1, <2>1, <2>2
<1>10. DebtInv'
  <2>1. crashes \in Nat
    BY Shapes
  <2> QED BY <1>1, <1>4, <1>9, <2>1 DEF DebtInv
<1> QED BY <1>6, <1>7, <1>10 DEF FewInv

LEMMA StatFew == ASSUME IInv, FewInv, StatFile PROVE FewInv'
<1>1. /\ pc = "stat" /\ Running /\ ~Delivering /\ ~Unsynced /\ file \in Inodes /\ crashes \in Nat
      /\ UNCHANGED <<world, crashes, durable, cur, handled>>
  BY DEF StatFile, Running, Delivering, Unsynced, IInv, Typed, history
<1>2. CASE /\ path = file /\ Size(path) < readOffset /\ OpenAt(0)
           /\ SaveCheckpoint(file, 0, "waitsynced")
  \* A file that shrank is read from its start, as this process would anyway.
  <2>1. path \in Inodes /\ Size(path) \in Nat /\ 0 \in Nat /\ 0 <= Size(path) /\ readOffset \in Nat
    BY <1>1, <1>2, Shapes
  <2>2. EndAfter(content[path], 0) \subseteq Open
    <3>1. ~(readOffset <= Size(file))
      BY <1>2, <2>1
    <3>2. Unread = EndAfter(content[path], 0)
      BY <1>1, <1>2, <3>1 DEF Unread
    <3> QED BY <3>2 DEF Open
  <2>3. checkpoint' = [inode |-> path, offset |-> 0] /\ pc' = "waitsynced"
    BY <1>2 DEF SaveCheckpoint, Goto
  <2> QED BY <1>1, <1>2, <2>1, <2>2, <2>3, OpenFew
<1>3. CASE \/ pc' = "wait" /\ UNCHANGED <<checkpoint, follower>>
           \/ path \notin {file, NoFile} /\ pc' = "drain" /\ UNCHANGED <<checkpoint, follower>>
  <2>1. Running' /\ ~Delivering' /\ ~Unsynced' /\ pc' \notin {"synced", "drainsynced"}
    BY <1>3 DEF Running, Delivering, Unsynced
  <2>2. Draining' => path # file
    BY <1>3 DEF Draining
  <2>3. crashes' \in Nat /\ crashes <= crashes'
    BY <1>1
  <2> QED BY <1>1, <1>3, <2>1, <2>2, <2>3, MoveFew
<1> QED BY <1>2, <1>3 DEF StatFile, Goto

\* The new file is read from its start, as after a crash: no checkpoint names it.
LEMMA SwitchFew == ASSUME IInv, FewInv, SwitchFile PROVE FewInv'
<1>1. /\ pc = "reopen" /\ Running /\ Draining /\ ~Unsynced /\ crashes \in Nat
      /\ UNCHANGED <<world, crashes, durable, handled>>
  BY DEF SwitchFile, Running, Draining, Unsynced, IInv, Typed, history
<1>2. CASE path = NoFile
  <2>1. Exit /\ checkpoint' = checkpoint
    BY <1>2 DEF SwitchFile
  <2>2. crashes' \in Nat /\ crashes + (IF Unsynced THEN 1 ELSE 0) <= crashes'
    BY <1>1
  <2> QED BY <1>1, <2>1, <2>2, ExitFew
<1>3. CASE path # NoFile
  <2>1. OpenAt(0) /\ checkpoint' = [inode |-> path, offset |-> 0] /\ pc' = "waitsynced"
    BY <1>3 DEF SwitchFile, SaveCheckpoint, Goto
  <2>2. path \in Inodes /\ Size(path) \in Nat /\ 0 \in Nat /\ 0 <= Size(path)
    <3>1. path \in Inodes /\ Size(path) \in Nat
      BY <1>3, Shapes
    <3> QED BY <3>1
  <2>3. path \notin {file, NoFile} /\ checkpoint.inode # path
    BY <1>1, <1>3 DEF FewInv, Placed
  <2>4. EndAfter(content[path], 0) \subseteq Open
    <3>1. Again(checkpoint) = EndAfter(content[path], 0)
      BY <2>3 DEF Again
    <3> QED BY <3>1 DEF Open
  <2> QED BY <1>1, <2>1, <2>2, <2>4, OpenFew
<1> QED BY <1>2, <1>3

LEMMA TickFew == ASSUME IInv, FewInv, Tick PROVE FewInv'
<1>1. /\ pc = "wait" /\ Running /\ ~Delivering /\ ~Unsynced /\ crashes \in Nat
      /\ UNCHANGED <<world, crashes, checkpoint, durable, handled>>
      /\ (pc' = "read" /\ UNCHANGED <<follower, cur>>) \/ Exit
  BY DEF Tick, Goto, Running, Delivering, Unsynced, IInv, Typed, history
<1>2. crashes' \in Nat /\ crashes <= crashes' /\ crashes + (IF Unsynced THEN 1 ELSE 0) <= crashes'
  BY <1>1
<1>3. CASE Exit
  BY <1>1, <1>2, <1>3, ExitFew
<1>4. CASE pc' = "read" /\ UNCHANGED <<follower, cur>>
  <2>1. Running' /\ ~Delivering' /\ ~Unsynced' /\ ~Draining' /\ pc' \notin {"synced", "drainsynced"}
    BY <1>4 DEF Running, Delivering, Unsynced, Draining
  <2> QED BY <1>1, <1>2, <1>4, <2>1, MoveFew
<1> QED BY <1>1, <1>3, <1>4

LEMMA NextFew == IInv /\ FewInv /\ [Next]_vars => FewInv'
<1> SUFFICES ASSUME IInv, FewInv, [Next]_vars PROVE FewInv'
  OBVIOUS
<1>e. crashes \in Nat /\ crashes + 1 \in Nat /\ crashes <= crashes + 1
  BY DEF IInv, Typed
<1>1. CASE openFromCheckpoint \/ Read \/ CutLine
  BY <1>1, OpenedFew, ReadFew, CutFew
<1>2. CASE ParseFails \/ Delivered \/ DeliveryFails
  <2>1. PICK outcome : Delivering /\ Handle(outcome)
    BY <1>2 DEF ParseFails, Delivered, DeliveryFails
  <2> QED BY <2>1, HandleFew
<1>3. CASE SaveAfterLine \/ SyncDirectory \/ StatFile \/ SwitchFile \/ Tick
  BY <1>3, SaveFew, SyncFew, StatFew, SwitchFew, TickFew
<1>4. CASE DeadLetterFails \/ Crash \/ PowerLoss
  <2>1. /\ Exit /\ UNCHANGED <<world, handled>> /\ crashes' = crashes + 1
        /\ checkpoint' \in {checkpoint, durable} /\ durable' \in {checkpoint, durable}
    BY <1>4 DEF DeadLetterFails, Crash, PowerLoss, Renamed, history
  <2>2. crashes' \in Nat /\ crashes + (IF Unsynced THEN 1 ELSE 0) <= crashes'
    BY <1>e, <2>1
  <2> QED BY <2>1, <2>2, ExitFew
<1>5. CASE Interrupt \/ UNCHANGED vars
  <2>1. /\ UNCHANGED <<world, checkpoint, durable, follower, cur, handled>> /\ pc' = pc
        /\ crashes' \in {crashes, crashes + 1}
    BY <1>5 DEF Interrupt, vars, history
  <2>2. /\ (Running' <=> Running) /\ (Delivering' <=> Delivering) /\ (Unsynced' <=> Unsynced)
        /\ (Draining' <=> Draining)
    BY <2>1 DEF Running, Delivering, Unsynced, Draining
  <2>3. Draining' => path # file
    BY <2>2 DEF FewInv, Placed
  <2>4. crashes' \in Nat /\ crashes <= crashes'
    BY <1>e, <2>1
  <2> QED BY <2>1, <2>2, <2>3, <2>4, MoveFew
<1>6. CASE WriteFirstHalf \/ WriteSecondHalf
  BY <1>6, WriteFew
<1>7. CASE Rename \/ Create \/ Reopen \/ Truncate
  BY <1>7, RotationFew
<1> QED BY <1>1, <1>2, <1>3, <1>4, <1>5, <1>6, <1>7 DEF Next, Step, World

-----------------------------------------------------------------------------
(* What follows from it *)

\* Every variable stays in its type; the checkpoint file is never torn.
THEOREM TypeCorrect == Spec => []TypeOK
<1>1. IInv => TypeOK
  BY DEF IInv, Typed
<1> QED BY <1>1, IInvHolds, PTL

\* The offsets differ by what is pending, also after a truncation.
THEOREM OffsetsAlwaysAgree == Spec => []OffsetsAgree
<1>1. IInv => OffsetsAgree
  BY DEF IInv
<1> QED BY <1>1, IInvHolds, PTL

\* What the callback gets is one line somebody wrote, across any number of
\* rotations, crashes and restarts, and for every size of the read buffer.
THEOREM WholeLinesOnly == Spec => []OnlyWholeLines
<1>1. IInv => OnlyWholeLines
  BY DEF IInv
<1> QED BY <1>1, IInvHolds, PTL

\* Every line the checkpoint covers is stored or dead-lettered, or not in the
\* configured format, through any number of crashes and losses of power.
THEOREM CheckpointBehindWork == Spec => []CheckpointNotAhead
<1>1. IInv => CheckpointNotAhead
  <2> SUFFICES ASSUME IInv, checkpoint.inode # NoFile, truncations = 0,
                      NEW l \in LinesWithin(checkpoint.inode, checkpoint.offset)
               PROVE  Done(l)
    BY DEF CheckpointNotAhead, Done
  <2>1. Covered(checkpoint.inode, checkpoint.offset) /\ checkpoint.offset \in Nat
    BY DEF IInv, CheckpointInv, Intact, Typed, TypeOK
  <2>2. PICK k \in 1..Size(checkpoint.inode) :
          k <= checkpoint.offset /\ content[checkpoint.inode][k].nl /\ l = content[checkpoint.inode][k].line
    BY DEF LinesWithin
  <2>3. k \in 1..checkpoint.offset
    BY <2>1, <2>2
  <2> QED BY <2>1, <2>2, <2>3 DEF Covered
<1> QED BY <1>1, IInvHolds, PTL

\* Each crash, interrupt or loss of power costs at most one line sent again, and
\* without one no line is sent twice, through any number of rotations and
\* truncations.
THEOREM FewAreResent == Spec => []FewResent
<1>1. IInv /\ FewInv => FewResent
  <2> SUFFICES ASSUME IInv, FewInv PROVE Cardinality(ResentLines) <= crashes
    BY DEF FewResent
  <2>1. PICK S : Cardinality(Sent(handled, S)) <= crashes
    BY DebtBound DEF FewInv
  <2>2. ResentLines \in SUBSET Sent(handled, S)
    BY DEF ResentLines, Sent
  <2>3. /\ IsFiniteSet(Sent(handled, S)) /\ Cardinality(Sent(handled, S)) \in Nat
        /\ crashes \in Nat
    BY SentFinite, Shapes
  <2>4. Cardinality(ResentLines) \in Nat /\ Cardinality(ResentLines) <= Cardinality(Sent(handled, S))
    <3>1. IsFiniteSet(ResentLines)
      BY <2>2, <2>3, FS_Subset
    <3> QED BY <2>2, <2>3, <3>1, FS_Subset, FS_CardinalityType
  <2> QED BY <2>1, <2>3, <2>4
<1>2. Spec => []FewInv
  BY InitFew, NextFew, IInvHolds, PTL DEF Spec
<1> QED BY <1>1, <1>2, IInvHolds, PTL
=============================================================================
