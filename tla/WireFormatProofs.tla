-------------------------- MODULE WireFormatProofs --------------------------
(***************************************************************************)
(* A transition survives the wire format, whatever it says and however     *)
(* often it is sent on.                                                    *)
(***************************************************************************)
EXTENDS WireFormat, SequenceTheorems, TLAPS

Byte == 0 .. 255

-----------------------------------------------------------------------------
(* Bytes *)

\* The bytes of a 32-bit value are bytes, and give the value back.
LEMMA BytesOfValue ==
    ASSUME NEW x \in Words
    PROVE  Bytes4(x) \in Seq(Byte) /\ Len(Bytes4(x)) = 4 /\ Value4(Bytes4(x)) = x
<1> x \in Nat /\ x \div 16777216 < 256
  BY SMT DEF Words
<1>1. x % 256 \in Byte /\ (x \div 256) % 256 \in Byte
  BY SMT DEF Byte
<1>2. (x \div 65536) % 256 \in Byte /\ (x \div 16777216) % 256 \in Byte
  BY SMT DEF Byte
<1>3. Value4(Bytes4(x)) = x
  <2>1. x = 256 * (x \div 256) + (x % 256)
    BY SMT
  <2>2. x \div 256 = 256 * (x \div 65536) + ((x \div 256) % 256)
    BY SMT
  <2>3. x \div 65536 = 256 * (x \div 16777216) + ((x \div 65536) % 256)
    BY SMT
  <2>4. (x \div 16777216) % 256 = x \div 16777216
    BY SMT
  <2> QED BY <2>1, <2>2, <2>3, <2>4, SMT DEF Value4, Bytes4
<1> QED BY <1>1, <1>2, <1>3, SMT DEF Bytes4

\* A part of a sequence of bytes.
LEMMA Part ==
    ASSUME NEW s \in Seq(Byte), NEW o \in Nat, NEW n \in Nat, o + n <= Len(s)
    PROVE  /\ At(s, o, n) \in Seq(Byte) /\ Len(At(s, o, n)) = n
           /\ \A i \in 1 .. n : At(s, o, n)[i] = s[o + i]
<1>1. \A i \in o + 1 .. o + n : s[i] \in Byte
  BY SMT
<1>2. /\ SubSeq(s, o + 1, o + n) \in Seq(Byte)
      /\ Len(SubSeq(s, o + 1, o + n)) = IF o + 1 <= o + n THEN o + n - (o + 1) + 1 ELSE 0
      /\ \A i \in 1 .. o + n - (o + 1) + 1 : SubSeq(s, o + 1, o + n)[i] = s[o + 1 + i - 1]
  BY <1>1, SubSeqProperties
<1>3. At(s, o, n) = SubSeq(s, o + 1, o + n)
  BY DEF At
<1>4. /\ (IF o + 1 <= o + n THEN o + n - (o + 1) + 1 ELSE 0) = n
      /\ o + n - (o + 1) + 1 = n
  BY SMT
<1>5. ASSUME NEW i \in 1 .. n PROVE SubSeq(s, o + 1, o + n)[i] = s[o + i]
  <2>1. o + 1 + i - 1 = o + i
    BY SMT
  <2>2. SubSeq(s, o + 1, o + n)[i] = s[o + 1 + i - 1]
    BY <1>2, <1>4
  <2> QED BY <2>1, <2>2
<1> QED BY <1>2, <1>3, <1>4, <1>5

\* One sequence of bytes behind another.
LEMMA Joined ==
    ASSUME NEW s \in Seq(Byte), NEW t \in Seq(Byte)
    PROVE  /\ s \o t \in Seq(Byte) /\ Len(s \o t) = Len(s) + Len(t)
           /\ \A i \in 1 .. Len(s) : (s \o t)[i] = s[i]
           /\ \A i \in 1 .. Len(t) : (s \o t)[Len(s) + i] = t[i]
<1>1. /\ s \o t \in Seq(Byte) /\ Len(s \o t) = Len(s) + Len(t)
      /\ \A i \in 1 .. Len(s) + Len(t) :
            (s \o t)[i] = IF i <= Len(s) THEN s[i] ELSE t[i - Len(s)]
  BY ConcatProperties
<1>2. Len(s) \in Nat /\ Len(t) \in Nat
  OBVIOUS
<1>3. ASSUME NEW i \in 1 .. Len(s) PROVE (s \o t)[i] = s[i]
  <2>1. i \in 1 .. Len(s) + Len(t) /\ i <= Len(s)
    BY <1>2
  <2> QED BY <1>1, <2>1
<1>4. ASSUME NEW i \in 1 .. Len(t) PROVE (s \o t)[Len(s) + i] = t[i]
  <2>1. Len(s) + i \in 1 .. Len(s) + Len(t) /\ ~(Len(s) + i <= Len(s)) /\ (Len(s) + i) - Len(s) = i
    BY <1>2
  <2> QED BY <1>1, <2>1
<1> QED BY <1>1, <1>3, <1>4

\* The zeros behind a part of length n in a place of length m.
LEMMA Padding ==
    ASSUME NEW n \in Nat, NEW m \in Nat, n <= m
    PROVE  (IF n < m THEN m - n ELSE 0) = m - n
OBVIOUS

-----------------------------------------------------------------------------
(* The invariant *)

\* d begins with the bytes of u, and there is room for it in the record.
Carries(d, u) ==
    /\ d \in Seq(Byte)
    /\ sizeof_health_update <= Len(d) /\ Len(d) <= sizeof_log_entry - offsetof_target
    /\ \A i \in 1 .. sizeof_health_update : d[i] = health_update(u)[i]

Inv == update \in Updates /\ Carries(data, update) /\ spilled = 0

\* The bytes of an update, one by one.
LEMMA Packed ==
    ASSUME NEW u \in Updates
    PROVE  /\ health_update(u) \in Seq(Byte) /\ Len(health_update(u)) = 12
           /\ health_update(u)[1] = u.target_node_id
           /\ health_update(u)[2] = u.target_box_id
           /\ health_update(u)[3] = u.old_status
           /\ health_update(u)[4] = u.new_status
           /\ \A i \in 1 .. 4 : /\ health_update(u)[4 + i] = Bytes4(u.term)[i]
                                /\ health_update(u)[8 + i] = Bytes4(u.timestamp_ms)[i]
<1> DEFINE a == <<u.target_node_id, u.target_box_id, u.old_status, u.new_status>>
           b == Bytes4(u.term)
           c == Bytes4(u.timestamp_ms)
<1>1. u.term \in Words /\ u.timestamp_ms \in Words
  BY WireConstants, SMT DEF Updates
<1>2. b \in Seq(Byte) /\ Len(b) = 4 /\ c \in Seq(Byte) /\ Len(c) = 4
  BY <1>1, BytesOfValue
<1>3. /\ a \in Seq(Byte) /\ Len(a) = 4 /\ a[1] = u.target_node_id
      /\ a[2] = u.target_box_id /\ a[3] = u.old_status /\ a[4] = u.new_status
  <2>1. /\ u.target_node_id \in Byte /\ u.target_box_id \in Byte
        /\ u.old_status \in Byte /\ u.new_status \in Byte
    <3>1. /\ u.target_node_id \in NodeIds /\ u.target_box_id \in BoxIds
          /\ u.old_status \in 0 .. 2 /\ u.new_status \in 0 .. 2
      BY DEF Updates, Statuses
    <3>2. NodeIds \subseteq 0 .. 255 /\ BoxIds \subseteq 0 .. 255
      BY WireConstants
    <3>3. u.target_node_id \in Byte /\ u.target_box_id \in Byte
      BY <3>1, <3>2 DEF Byte
    <3>4. u.old_status \in Byte /\ u.new_status \in Byte
      BY <3>1 DEF Byte
    <3> QED BY <3>3, <3>4
  <2> QED BY <2>1
<1>4. health_update(u) = (a \o b) \o c
  BY DEF health_update
<1> HIDE DEF a, b, c
<1>5. /\ a \o b \in Seq(Byte) /\ Len(a \o b) = 8
      /\ \A i \in 1 .. 4 : (a \o b)[i] = a[i]
      /\ \A i \in 1 .. 4 : (a \o b)[4 + i] = b[i]
  <2>1. /\ a \o b \in Seq(Byte) /\ Len(a \o b) = Len(a) + Len(b)
        /\ \A i \in 1 .. Len(a) : (a \o b)[i] = a[i]
        /\ \A i \in 1 .. Len(b) : (a \o b)[Len(a) + i] = b[i]
    BY <1>2, <1>3, Joined
  <2>2. Len(a) = 4 /\ Len(b) = 4 /\ 4 + 4 = 8
    BY <1>2, <1>3
  <2> QED BY <2>1, <2>2
<1>6. /\ (a \o b) \o c \in Seq(Byte) /\ Len((a \o b) \o c) = 12
      /\ \A i \in 1 .. 8 : ((a \o b) \o c)[i] = (a \o b)[i]
      /\ \A i \in 1 .. 4 : ((a \o b) \o c)[8 + i] = c[i]
  <2>1. /\ (a \o b) \o c \in Seq(Byte) /\ Len((a \o b) \o c) = Len(a \o b) + Len(c)
        /\ \A i \in 1 .. Len(a \o b) : ((a \o b) \o c)[i] = (a \o b)[i]
        /\ \A i \in 1 .. Len(c) : ((a \o b) \o c)[Len(a \o b) + i] = c[i]
    BY <1>2, <1>5, Joined
  <2>2. Len(a \o b) = 8 /\ Len(c) = 4 /\ 8 + 4 = 12
    BY <1>2, <1>5
  <2> QED BY <2>1, <2>2
<1>7. ASSUME NEW i \in 1 .. 4
      PROVE  ((a \o b) \o c)[4 + i] = b[i] /\ ((a \o b) \o c)[8 + i] = c[i]
  <2>1. 4 + i \in 1 .. 8
    OBVIOUS
  <2> QED BY <1>5, <1>6, <2>1
<1>8. /\ ((a \o b) \o c)[1] = a[1] /\ ((a \o b) \o c)[2] = a[2]
      /\ ((a \o b) \o c)[3] = a[3] /\ ((a \o b) \o c)[4] = a[4]
  <2>1. ASSUME NEW i \in 1 .. 4 PROVE ((a \o b) \o c)[i] = a[i]
    <3>1. i \in 1 .. 8
      OBVIOUS
    <3> QED BY <1>5, <1>6, <3>1
  <2>2. 1 \in 1 .. 4 /\ 2 \in 1 .. 4 /\ 3 \in 1 .. 4 /\ 4 \in 1 .. 4
    OBVIOUS
  <2> QED BY <2>1, <2>2
<1> QED BY <1>3, <1>4, <1>6, <1>7, <1>8 DEF b, c

\* What carries u applies as u.
LEMMA CarriedApplies ==
    ASSUME NEW u \in Updates, NEW d, Carries(d, u)
    PROVE  Applies(d) /\ applied(d) = u
<1>1. d \in Seq(Byte) /\ 12 <= Len(d) /\ Len(d) <= 19 /\ \A i \in 1 .. 12 : d[i] = health_update(u)[i]
  BY DEF Carries, sizeof_health_update, sizeof_log_entry, offsetof_target
<1>2. u.term \in Words /\ u.timestamp_ms \in Words
  BY WireConstants, SMT DEF Updates
<1>3. ASSUME NEW o \in {4, 8}, NEW x \in Words,
             \A i \in 1 .. 4 : health_update(u)[o + i] = Bytes4(x)[i]
      PROVE  Value4(At(d, o, 4)) = x
  <2>1. \A i \in 1 .. 4 : At(d, o, 4)[i] = d[o + i]
    <3>1. o \in Nat /\ 4 \in Nat /\ o + 4 <= Len(d)
      BY <1>1
    <3> QED BY <1>1, <3>1, Part
  <2>2. \A i \in 1 .. 4 : o + i \in 1 .. 12
    OBVIOUS
  <2>3. \A i \in 1 .. 4 : At(d, o, 4)[i] = Bytes4(x)[i]
    BY <1>1, <1>3, <2>1, <2>2
  <2>4. /\ At(d, o, 4)[1] = Bytes4(x)[1] /\ At(d, o, 4)[2] = Bytes4(x)[2]
        /\ At(d, o, 4)[3] = Bytes4(x)[3] /\ At(d, o, 4)[4] = Bytes4(x)[4]
    BY <2>3
  <2>5. Value4(At(d, o, 4)) = Value4(Bytes4(x))
    BY <2>4, SMT DEF Value4
  <2> QED BY <1>3, <2>5, BytesOfValue, SMT
<1>4. Value4(At(d, 4, 4)) = u.term
  <2>1. \A i \in 1 .. 4 : health_update(u)[4 + i] = Bytes4(u.term)[i]
    BY Packed, Zenon
  <2> QED BY <1>2, <1>3, <2>1, Zenon
<1>5. Value4(At(d, 8, 4)) = u.timestamp_ms
  <2>1. \A i \in 1 .. 4 : health_update(u)[8 + i] = Bytes4(u.timestamp_ms)[i]
    BY Packed, Zenon
  <2> QED BY <1>2, <1>3, <2>1, Zenon
<1>6. /\ d[1] = u.target_node_id /\ d[2] = u.target_box_id
      /\ d[3] = u.old_status /\ d[4] = u.new_status
  BY <1>1, Packed
<1>7. Len(d) >= 12
  BY <1>1
<1>8. applied(d) = [target_node_id |-> u.target_node_id, target_box_id |-> u.target_box_id,
                    old_status |-> u.old_status, new_status |-> u.new_status,
                    term |-> u.term, timestamp_ms |-> u.timestamp_ms]
  BY <1>4, <1>5, <1>6, Zenon DEF applied
<1>9. u = [target_node_id |-> u.target_node_id, target_box_id |-> u.target_box_id,
           old_status |-> u.old_status, new_status |-> u.new_status,
           term |-> u.term, timestamp_ms |-> u.timestamp_ms]
  BY Zenon DEF Updates
<1> QED BY <1>7, <1>8, <1>9, SMT DEF Applies, sizeof_health_update

\* One hop: nothing is written behind the record, and what the follower takes
\* out of it still carries u.
LEMMA HopCarries ==
    ASSUME NEW u \in Updates, NEW d, Carries(d, u)
    PROVE  LET bytes == written(d, u.term, 0)
           IN  /\ Len(bytes) = sizeof_log_entry
               /\ Carries(received(At(bytes, 0, sizeof_log_entry)), u)
<1>1. d \in Seq(Byte) /\ 12 <= Len(d) /\ Len(d) <= 19 /\ \A i \in 1 .. 12 : d[i] = health_update(u)[i]
  BY DEF Carries, sizeof_health_update, sizeof_log_entry, offsetof_target
<1> DEFINE head == (Bytes4(u.term) \o Bytes4(0)) \o <<0>>
           rest == Zeros(19 - Len(d))
           bytes == (head \o d) \o rest
<1>2. copied(d) = d
  <2>1. Least(Len(d), sizeof_log_entry - 8) = Len(d)
    <3>1. Len(d) < 28 - 8
      BY <1>1
    <3> QED BY <3>1 DEF Least, sizeof_log_entry
  <2> QED BY <1>1, <2>1, SubSeqFull DEF copied
<1>3. written(d, u.term, 0) = bytes
  <2>1. (IF Len(d) < 19 THEN 19 - Len(d) ELSE 0) = 19 - Len(d)
    <3>1. Len(d) \in Nat /\ Len(d) <= 19
      BY <1>1
    <3> QED BY <3>1, Padding
  <2>2. sizeof_log_entry - offsetof_target = 19
    BY DEF sizeof_log_entry, offsetof_target
  <2> QED BY <1>2, <2>1, <2>2 DEF written
<1>4. head \in Seq(Byte) /\ Len(head) = 9
  <2>1. u.term \in Words /\ 0 \in Words
    <3>1. u.term \in Words
      BY WireConstants, SMT DEF Updates
    <3>2. 0 \in Words
      BY SMT DEF Words
    <3> QED BY <3>1, <3>2
  <2>2. /\ Bytes4(u.term) \in Seq(Byte) /\ Len(Bytes4(u.term)) = 4
        /\ Bytes4(0) \in Seq(Byte) /\ Len(Bytes4(0)) = 4
    BY <2>1, BytesOfValue
  <2>3. /\ Bytes4(u.term) \o Bytes4(0) \in Seq(Byte)
        /\ Len(Bytes4(u.term) \o Bytes4(0)) = Len(Bytes4(u.term)) + Len(Bytes4(0))
    BY <2>2, Joined
  <2>4. <<0>> \in Seq(Byte) /\ Len(<<0>>) = 1
    BY DEF Byte
  <2>5. head \in Seq(Byte) /\ Len(head) = 8 + 1
    BY <2>2, <2>3, <2>4, Joined
  <2> QED BY <2>5
<1>5. rest \in Seq(Byte) /\ Len(rest) = 19 - Len(d)
  <2>1. 19 - Len(d) \in Nat
    BY <1>1
  <2>2. 0 \in Byte
    BY DEF Byte
  <2> QED BY <2>1, <2>2 DEF Zeros
<1> HIDE DEF head, rest
<1>6. /\ head \o d \in Seq(Byte) /\ Len(head \o d) = 9 + Len(d)
      /\ \A i \in 1 .. Len(d) : (head \o d)[9 + i] = d[i]
  <2>1. /\ head \o d \in Seq(Byte) /\ Len(head \o d) = Len(head) + Len(d)
        /\ \A i \in 1 .. Len(d) : (head \o d)[Len(head) + i] = d[i]
    BY <1>1, <1>4, Joined
  <2> QED BY <1>4, <2>1
<1>7. /\ bytes \in Seq(Byte) /\ Len(bytes) = 28
      /\ \A i \in 1 .. 9 + Len(d) : bytes[i] = (head \o d)[i]
  <2>1. 9 + Len(d) \in Nat /\ 19 - Len(d) \in Nat /\ (9 + Len(d)) + (19 - Len(d)) = 28
    BY <1>1
  <2>2. /\ bytes \in Seq(Byte) /\ Len(bytes) = Len(head \o d) + Len(rest)
        /\ \A i \in 1 .. Len(head \o d) : bytes[i] = (head \o d)[i]
    BY <1>5, <1>6, Joined
  <2> HIDE DEF bytes
  <2> QED BY <1>5, <1>6, <2>1, <2>2
<1> HIDE DEF bytes
<1>8. At(bytes, 0, 28) = bytes
  BY <1>7, SubSeqFull DEF At
<1>9. /\ At(bytes, 9, 19) \in Seq(Byte) /\ Len(At(bytes, 9, 19)) = 19
      /\ \A i \in 1 .. 19 : At(bytes, 9, 19)[i] = bytes[9 + i]
  <2>1. 9 \in Nat /\ 19 \in Nat /\ 9 + 19 <= Len(bytes)
    BY <1>7
  <2> QED BY <1>7, <2>1, Part
<1>10. ASSUME NEW i \in 1 .. 12 PROVE At(bytes, 9, 19)[i] = d[i]
  <2>1. i \in 1 .. 19 /\ 9 + i \in 1 .. 9 + Len(d) /\ i \in 1 .. Len(d)
    BY <1>1
  <2>2. At(bytes, 9, 19)[i] = bytes[9 + i]
    BY <1>9, <2>1, Zenon
  <2>3. bytes[9 + i] = (head \o d)[9 + i]
    BY <1>7, <2>1, Zenon
  <2>4. (head \o d)[9 + i] = d[i]
    BY <1>6, <2>1, Zenon
  <2> QED BY <2>2, <2>3, <2>4, Zenon
<1>11. Carries(At(bytes, 9, 19), u)
  <2> DEFINE r == At(bytes, 9, 19)
  <2>1. r \in Seq(Byte) /\ Len(r) = 19 /\ \A i \in 1 .. 12 : r[i] = health_update(u)[i]
    BY <1>1, <1>9, <1>10
  <2> HIDE DEF r
  <2>2. 12 <= Len(r) /\ Len(r) <= 28 - 9
    BY <2>1
  <2>3. Carries(r, u)
    BY <2>1, <2>2 DEF Carries, sizeof_health_update, sizeof_log_entry, offsetof_target
  <2> QED BY <2>3 DEF r
<1>12. received(bytes) = At(bytes, 9, 19)
  BY DEF received, offsetof_target, sizeof_log_entry
<1> QED BY <1>3, <1>7, <1>8, <1>11, <1>12 DEF sizeof_log_entry

\* The entry always carries the bytes of the transition.
LEMMA InvHolds == Spec => []Inv
<1>1. Init => Inv
  <2>1. SUFFICES ASSUME Init PROVE Inv
    OBVIOUS
  <2>2. update \in Updates /\ data = health_update(update) /\ spilled = 0
    BY <2>1 DEF Init
  <2>3. data \in Seq(Byte) /\ Len(data) = 12
    BY <2>2, Packed
  <2>4. 12 <= Len(data) /\ Len(data) <= 28 - 9
    BY <2>3
  <2> QED BY <2>2, <2>3, <2>4
          DEF Inv, Carries, sizeof_health_update, sizeof_log_entry, offsetof_target
<1>2. Inv /\ [Next]_vars => Inv'
  <2>1. SUFFICES ASSUME Inv, [Next]_vars PROVE Inv'
    OBVIOUS
  <2>2. CASE Replicate
    <3> DEFINE bytes == written(data, update.term, 0)
    <3>1. /\ Len(bytes) = sizeof_log_entry
          /\ Carries(received(At(bytes, 0, sizeof_log_entry)), update)
      BY <2>1, HopCarries DEF Inv
    <3>2. /\ data' = received(At(bytes, 0, sizeof_log_entry))
          /\ spilled' = spilled + (Len(bytes) - sizeof_log_entry) /\ update' = update
      BY <2>2 DEF Replicate
    <3> HIDE DEF bytes
    <3>3. spilled' = 0
      BY <2>1, <3>1, <3>2 DEF Inv, sizeof_log_entry
    <3> QED BY <2>1, <3>1, <3>2, <3>3 DEF Inv
  <2>3. CASE UNCHANGED vars
    BY <2>1, <2>3 DEF Inv, vars
  <2> QED BY <2>1, <2>2, <2>3 DEF Next
<1> QED BY <1>1, <1>2, PTL DEF Spec

-----------------------------------------------------------------------------
(* Theorems *)

\* For every transition and every number of hops from leader to leader: what
\* cb_applylog() unpacks at a server is what was proposed.
THEOREM EntryAlwaysSurvives == Spec => []EntrySurvives
<1>1. Inv => EntrySurvives
  BY CarriedApplies DEF Inv, EntrySurvives
<1> QED BY <1>1, InvHolds, PTL

\* cb_send_appendentries() never writes behind its record, although the bound
\* of its copy would let it.
THEOREM CopyNeverSpills == Spec => []NeverSpills
<1>1. Inv => NeverSpills
  BY DEF Inv, NeverSpills
<1> QED BY <1>1, InvHolds, PTL
=============================================================================
