----------------------------- MODULE ShardProofs -----------------------------
(***************************************************************************)
(* One shard with its log and snapshot, for every set of requests and      *)
(* ingress numbers, every batch size, every number of commands and         *)
(* restarts, wherever the process may die and whatever may fail: what      *)
(* replay_shard() rebuilds, what a crash loses, what a snapshot replaces.  *)
(* The second half is the log in bytes: read byte by byte it gives what it *)
(* gives in pieces, on which the first half is built.                      *)
(***************************************************************************)
EXTENDS Shard, WalBytes, Lemmas, TLAPS

Piece == [form: {"full"} \cup Torn, record: Entry]

\* The log, as far as it is written and as it is staged.
Logged == Records(file) \o pending

\* While a snapshot is being saved the engine does not move, so that a document
\* that was written whole is the engine; a snapshot that can be loaded is something
\* the engine has been, and without trouble the one that was just renamed is it.
SaveInv ==
    /\ doc \notin Unreadable => doc = engine
    /\ pc = "truncate" =>
          /\ snapshot \in Unreadable \cup {engine}
          /\ trouble = "none" => snapshot = engine
    /\ pc \notin {"down", "boot"} /\ snapshot \notin Unreadable => IsPrefix(snapshot, engine)
    /\ pc = "rename" /\ doc \in Unreadable => "write" \in Failures
    /\ pc = "boot" => trouble = "restart" /\ restarts > 0 /\ pending = <<>>
    /\ pc = "down" => pending = <<>>

\* Numbers increase along the log and have been sent.
NumberInv ==
    /\ \A i \in 1..Len(Logged) : Logged[i].number <= sent
    /\ \A i, j \in 1..Len(Logged) : i < j => Logged[i].number < Logged[j].number

\* Without trouble, the snapshot is not damaged, the log is whole and open, less than a batch is staged, all
\* that is written is durable, and snapshot and log make up the engine.
Whole(f) == \A i \in 1..Len(f) : f[i].form = "full"

LogInv ==
    trouble = "none" /\ pc # "down" =>
        /\ open
        /\ snapshot # DAMAGED
        /\ Whole(file)
        /\ Fsync => synced = Len(file)
        /\ Len(pending) <= Batch
        /\ pc # "flush" => Len(pending) < Batch
        /\ pc # "truncate" => Books(Loaded(snapshot)) \o Books(Logged) = Books(engine)

\* Without a failure, the log ends with what this process has appended.
AppendInv ==
    trouble # "failure" /\ pc # "down" =>
        open /\ \E before \in Calls : Logged = before \o appended

\* The last ingress number is the highest that was executed.
IngressInv ==
    restarts = 0 /\ pc # "down" =>
        \A i \in 1..Len(Books(engine)) :
            Books(engine)[i].ingress # NULL => Books(engine)[i].ingress <= last

ShardInv ==
    /\ TypeOK /\ SaveInv /\ NumberInv /\ LogInv /\ AppendInv /\ IngressInv
    /\ IngressOrdered /\ CrashLosesTail

-----------------------------------------------------------------------------
(***************************************************************************)
(* The calls that change a book.                                           *)
(***************************************************************************)
OfBooks == {"add", "cancel", "replace"}

\* Books returns calls, all of them of books, and no more than there are.
LEMMA BooksFacts ==
    ASSUME NEW s \in Calls
    PROVE  /\ Books(s) \in Calls
           /\ Len(Books(s)) \in Nat /\ Len(Books(s)) <= Len(s)
           /\ \A i \in 1..Len(Books(s)) : Books(s)[i].type \in OfBooks
<1> DEFINE I == {i \in DOMAIN s : s[i].type \in OfBooks}
<1>1. Books(s) = Kept(s, I)  BY DEF Books, OfBooks
<1>2. s \in Seq(Entry)  BY DEF Calls
<1>3. \A i \in I : s[i].type \in OfBooks  OBVIOUS
<1> HIDE DEF I
<1>4. Kept(s, I) \in Seq(Entry)  BY <1>2, KeptType
<1>5. /\ Len(Kept(s, I)) \in Nat /\ Len(Kept(s, I)) <= Len(s)
      /\ \A j \in 1..Len(Kept(s, I)) : \E q \in I : Kept(s, I)[j] = s[q]
  BY <1>2, KeptPlaces
<1>6. QED  BY <1>1, <1>3, <1>4, <1>5 DEF Calls

\* Books of two lists end to end.
LEMMA BooksConcat ==
    ASSUME NEW s \in Calls, NEW t \in Calls
    PROVE  Books(s \o t) = Books(s) \o Books(t)
<1> DEFINE I == {i \in DOMAIN s : s[i].type \in OfBooks}
           J == {i \in DOMAIN t : t[i].type \in OfBooks}
           K == {i \in DOMAIN (s \o t) : (s \o t)[i].type \in OfBooks}
<1>1. s \in Seq(Entry) /\ t \in Seq(Entry) /\ Len(s) \in Nat /\ Len(t) \in Nat
  BY LenProperties DEF Calls
<1>2. /\ Len(s \o t) = Len(s) + Len(t) /\ s \o t \in Seq(Entry)
      /\ \A i \in 1..Len(s \o t) : (s \o t)[i] = IF i <= Len(s) THEN s[i] ELSE t[i - Len(s)]
  BY <1>1, ConcatProperties
<1>3. DOMAIN s = 1..Len(s) /\ DOMAIN t = 1..Len(t) /\ DOMAIN (s \o t) = 1..Len(s \o t)
  BY <1>1, <1>2, LenProperties
<1>4. \A i \in 1..Len(s) : i \in I <=> i \in K  BY <1>1, <1>2, <1>3
<1>5. ASSUME NEW i \in 1..Len(t) PROVE i \in J <=> Len(s) + i \in K
  <2>1. Len(s) + i \in 1..Len(s \o t) /\ ~(Len(s) + i <= Len(s)) /\ (Len(s) + i) - Len(s) = i
    BY <1>1, <1>2
  <2>2. (s \o t)[Len(s) + i] = t[i]  BY <1>2, <2>1
  <2>3. QED  BY <1>3, <2>1, <2>2
<1>6. Books(s) = Kept(s, I) /\ Books(t) = Kept(t, J) /\ Books(s \o t) = Kept(s \o t, K)
  BY DEF Books, OfBooks
<1> HIDE DEF I, J, K
<1>7. Kept(s \o t, K) = Kept(s, I) \o Kept(t, J)
  <2>1. s \in Seq(Entry) /\ t \in Seq(Entry)  BY <1>1
  <2>2. \A i \in 1..Len(t) : i \in J <=> Len(s) + i \in K  BY <1>5
  <2>3. QED  BY <1>4, <2>1, <2>2, KeptConcat
<1>8. QED  BY <1>6, <1>7

\* Choosing again changes nothing.
LEMMA BooksAgain ==
    ASSUME NEW s \in Calls
    PROVE  Books(Books(s)) = Books(s)
<1> DEFINE t == Books(s)
           I == {i \in DOMAIN t : t[i].type \in OfBooks}
<1>1. t \in Seq(Entry) /\ \A i \in 1..Len(t) : t[i].type \in OfBooks  BY BooksFacts DEF Calls
<1> HIDE DEF t
<1>2. DOMAIN t = 1..Len(t)  BY <1>1, LenProperties
<1>3. \A i \in 1..Len(t) : i \in I  BY <1>1, <1>2
<1>4. Books(t) = Kept(t, I)  BY DEF Books, OfBooks
<1> HIDE DEF I
<1>5. Kept(t, I) = t  BY <1>1, <1>3, KeptAll
<1>6. QED  BY <1>4, <1>5 DEF t

\* One call more, of a book or not.
LEMMA BooksAppend ==
    ASSUME NEW s \in Calls, NEW c \in Entry
    PROVE  Books(Append(s, c)) = IF c.type \in OfBooks THEN Append(Books(s), c) ELSE Books(s)
<1> DEFINE t == Append(s, c)
           I == {i \in DOMAIN s : s[i].type \in OfBooks}
           J == {i \in DOMAIN t : t[i].type \in OfBooks}
<1>1. s \in Seq(Entry) /\ Len(s) \in Nat  BY LenProperties DEF Calls
<1>2. t \in Seq(Entry) /\ Len(t) = Len(s) + 1 /\ t[Len(s) + 1] = c
      /\ \A i \in 1..Len(s) : t[i] = s[i]
  BY <1>1, AppendProperties
<1>3. DOMAIN s = 1..Len(s) /\ DOMAIN t = 1..Len(t)  BY <1>1, <1>2, LenProperties
<1>4. Books(s) = Kept(s, I) /\ Books(t) = Kept(t, J)  BY DEF Books, OfBooks
<1> HIDE DEF t
<1>5. \A i \in 1..Len(s) : i \in I <=> i \in J  BY <1>1, <1>2, <1>3
<1>6. Len(s) + 1 \in J <=> c.type \in OfBooks  BY <1>1, <1>2, <1>3
<1> HIDE DEF I, J
<1>7. Kept(t, J) = IF Len(s) + 1 \in J THEN Append(Kept(s, I), c) ELSE Kept(s, I)
  BY <1>1, <1>5, KeptAppend DEF t
<1>8. QED  BY <1>4, <1>6, <1>7 DEF t

-----------------------------------------------------------------------------
(***************************************************************************)
(* The log file.                                                           *)
(***************************************************************************)
\* The records of a file, piece by piece.
LEMMA RecordsFacts ==
    ASSUME NEW f \in Seq(Piece)
    PROVE  /\ Len(f) \in Nat /\ DOMAIN f = 1..Len(f)
           /\ Records(f) \in Calls /\ Len(Records(f)) = Len(f)
           /\ \A i \in 1..Len(f) : f[i] \in Piece /\ Records(f)[i] = f[i].record
<1>1. Len(f) \in Nat /\ DOMAIN f = 1..Len(f)  BY LenProperties
<1>2. \A i \in 1..Len(f) : f[i] \in Piece  BY ElementOfSeq
<1>3. Records(f) = [i \in 1..Len(f) |-> f[i].record]  BY <1>1 DEF Records
<1>4. \A i \in 1..Len(f) : f[i].record \in Entry  BY <1>2 DEF Piece
<1>5. Records(f) \in Seq(Entry) /\ Len(Records(f)) = Len(f)
  BY <1>1, <1>3, <1>4, IsASeq
<1>6. QED  BY <1>1, <1>2, <1>3, <1>5 DEF Calls

\* Records written to the file are pieces of it that are whole lines.
LEMMA WrittenFacts ==
    ASSUME NEW f \in Seq(Piece), NEW p \in Calls
    PROVE  /\ f \o Lines(p) \in Seq(Piece)
           /\ Len(f \o Lines(p)) = Len(f) + Len(p)
           /\ Records(f \o Lines(p)) = Records(f) \o p
           /\ Whole(f) => Whole(f \o Lines(p))
<1>1. p \in Seq(Entry) /\ Len(p) \in Nat /\ DOMAIN p = 1..Len(p)  BY LenProperties DEF Calls
<1>2. \A i \in 1..Len(p) : p[i] \in Entry  BY <1>1, ElementOfSeq
<1> DEFINE l == Lines(p)
           u == f \o l
<1>3. l = [i \in 1..Len(p) |-> [form |-> "full", record |-> p[i]]]  BY <1>1 DEF Lines
<1>4. l \in Seq(Piece) /\ Len(l) = Len(p)
  <2>1. \A i \in 1..Len(p) : [form |-> "full", record |-> p[i]] \in Piece  BY <1>2 DEF Piece
  <2>2. QED  BY <1>1, <1>3, <2>1, IsASeq
<1> HIDE DEF l
<1>5. Len(f) \in Nat  BY LenProperties
<1>6. /\ u \in Seq(Piece) /\ Len(u) = Len(f) + Len(p)
      /\ \A i \in 1..Len(u) : u[i] = IF i <= Len(f) THEN f[i] ELSE l[i - Len(f)]
  <2>1. l \in Seq(Piece)  BY <1>4
  <2>2. /\ u \in Seq(Piece) /\ Len(u) = Len(f) + Len(l)
        /\ \A i \in 1..Len(u) : u[i] = IF i <= Len(f) THEN f[i] ELSE l[i - Len(f)]
    BY <2>1, ConcatProperties
  <2>3. QED  BY <1>4, <2>2
<1> HIDE DEF u
<1>7. Records(u) \in Calls /\ Len(Records(u)) = Len(u) /\ \A i \in 1..Len(u) : Records(u)[i] = u[i].record
  BY <1>6, RecordsFacts
<1>8. Records(f) \in Calls /\ Len(Records(f)) = Len(f) /\ \A i \in 1..Len(f) : Records(f)[i] = f[i].record
  BY RecordsFacts
<1>9. /\ Records(f) \o p \in Seq(Entry) /\ Len(Records(f) \o p) = Len(f) + Len(p)
      /\ \A i \in 1..(Len(f) + Len(p)) :
            (Records(f) \o p)[i] = IF i <= Len(f) THEN Records(f)[i] ELSE p[i - Len(f)]
  <2> DEFINE r == Records(f)
             v == r \o p
  <2>1. r \in Seq(Entry) /\ p \in Seq(Entry) /\ Len(r) = Len(f)  BY <1>1, <1>8 DEF Calls
  <2> HIDE DEF r
  <2>2. /\ v \in Seq(Entry) /\ Len(v) = Len(r) + Len(p)
        /\ \A i \in 1..Len(v) : v[i] = IF i <= Len(r) THEN r[i] ELSE p[i - Len(r)]
    BY <2>1, ConcatProperties, ZenonT(30)
  <2> HIDE DEF v
  <2>3. QED  BY <2>1, <2>2 DEF r, v
<1>10. ASSUME NEW i \in 1..(Len(f) + Len(p)) PROVE Records(u)[i] = (Records(f) \o p)[i]
  <2>1. CASE i <= Len(f)
    <3>1. i \in 1..Len(f)  BY <1>5, <2>1
    <3>2. QED  BY <1>6, <1>7, <1>8, <1>9, <2>1, <3>1
  <2>2. CASE ~(i <= Len(f))
    <3>1. i - Len(f) \in 1..Len(p)  BY <1>1, <1>5, <2>2
    <3>2. l[i - Len(f)].record = p[i - Len(f)]  BY <1>3, <3>1
    <3>3. QED  BY <1>6, <1>7, <1>9, <2>2, <3>2
  <2>3. QED  BY <2>1, <2>2
<1>11. Records(u) = Records(f) \o p
  <2>1. Records(u) \in Seq(Entry) /\ Len(Records(u)) = Len(Records(f) \o p)  BY <1>6, <1>7, <1>9 DEF Calls
  <2>2. \A i \in 1..Len(Records(u)) : Records(u)[i] = (Records(f) \o p)[i]  BY <1>6, <1>7, <1>10
  <2>3. QED  BY <1>9, <2>1, <2>2, SeqEqual
<1>12. ASSUME Whole(f), NEW i \in 1..Len(u) PROVE u[i].form = "full"
  <2>1. CASE i <= Len(f)
    <3>1. i \in 1..Len(f)  BY <1>5, <2>1
    <3>2. QED  BY <1>6, <1>12, <2>1, <3>1 DEF Whole
  <2>2. CASE ~(i <= Len(f))
    <3>1. i - Len(f) \in 1..Len(p)  BY <1>1, <1>5, <1>6, <2>2
    <3>2. QED  BY <1>3, <1>6, <2>2, <3>1
  <2>3. QED  BY <2>1, <2>2
<1>13. QED  BY <1>6, <1>11, <1>12 DEF Whole, u, l

\* The two ways to cut a file.
LEMMA CutCases ==
    ASSUME NEW w \in Seq(Piece), NEW safe \in 0..Len(w), NEW f \in Cut(w, safe)
    PROVE  \E k \in safe..Len(w) :
              \/ f = SubSeq(w, 1, k)
              \/ /\ k + 1 <= Len(w)
                 /\ \E t \in Shorter(w[k + 1].form) :
                       f = Append(SubSeq(w, 1, k), [w[k + 1] EXCEPT !.form = t])
<1>1. Len(w) \in Nat  BY LenProperties
<1>2. CASE f \in {SubSeq(w, 1, k) : k \in safe..Len(w)}  BY <1>2
<1>3. CASE f \in UNION {{Append(SubSeq(w, 1, k), [w[k + 1] EXCEPT !.form = t]) :
                            t \in Shorter(w[k + 1].form)} : k \in safe..Len(w) - 1}
  <2>1. PICK k \in safe..Len(w) - 1 :
            f \in {Append(SubSeq(w, 1, k), [w[k + 1] EXCEPT !.form = t]) : t \in Shorter(w[k + 1].form)}
    BY <1>3
  <2>2. k \in safe..Len(w) /\ k + 1 <= Len(w)  BY <1>1
  <2>3. \E t \in Shorter(w[k + 1].form) : f = Append(SubSeq(w, 1, k), [w[k + 1] EXCEPT !.form = t])
    BY <2>1
  <2>4. QED  BY <2>2, <2>3
<1>4. QED  BY <1>2, <1>3 DEF Cut

\* The first pieces of a file.
LEMMA FirstPieces ==
    ASSUME NEW w \in Seq(Piece), NEW k \in 0..Len(w)
    PROVE  /\ SubSeq(w, 1, k) \in Seq(Piece) /\ Len(SubSeq(w, 1, k)) = k
           /\ \A i \in 1..k : SubSeq(w, 1, k)[i] = w[i]
<1>1. Len(w) \in Nat  BY LenProperties
<1>2. \A i \in 1..k : w[i] \in Piece  BY <1>1, ElementOfSeq
<1>3. QED  BY <1>1, <1>2, SubSeqProperties

\* What a cut leaves are the first records, the last of them perhaps torn.
LEMMA CutFacts ==
    ASSUME NEW w \in Seq(Piece), NEW safe \in 0..Len(w), NEW f \in Cut(w, safe)
    PROVE  /\ f \in Seq(Piece)
           /\ Len(f) \in safe..Len(w)
           /\ \A i \in 1..Len(f) : f[i].record = w[i].record
<1>1. Len(w) \in Nat /\ \A i \in 1..Len(w) : w[i] \in Piece  BY LenProperties, ElementOfSeq
<1>2. PICK k \in safe..Len(w) :
              \/ f = SubSeq(w, 1, k)
              \/ /\ k + 1 <= Len(w)
                 /\ \E t \in Shorter(w[k + 1].form) :
                       f = Append(SubSeq(w, 1, k), [w[k + 1] EXCEPT !.form = t])
  BY CutCases
<1> DEFINE g == SubSeq(w, 1, k)
<1>3. k \in 0..Len(w) /\ k \in Nat  BY <1>1
<1>4. g \in Seq(Piece) /\ Len(g) = k /\ \A i \in 1..k : g[i] = w[i]  BY <1>3, FirstPieces
<1>5. CASE f = g  BY <1>1, <1>4, <1>5
<1>6. CASE f # g
  <2> HIDE DEF g
  <2>1. PICK t \in Shorter(w[k + 1].form) : f = Append(g, [w[k + 1] EXCEPT !.form = t])
    BY <1>2, <1>6 DEF g
  <2>2. k + 1 \in 1..Len(w)  BY <1>1, <1>2, <1>3, <1>6 DEF g
  <2>3. w[k + 1] \in Piece  BY <1>1, <2>2
  <2>4. Shorter(w[k + 1].form) \subseteq {"full"} \cup Torn  BY <2>3 DEF Piece, Shorter, Torn
  <2> DEFINE x == [w[k + 1] EXCEPT !.form = t]
  <2>5. x \in Piece /\ x.record = w[k + 1].record  BY <2>3, <2>4 DEF Piece
  <2> HIDE DEF x
  <2>6. /\ f \in Seq(Piece) /\ Len(f) = k + 1 /\ f[k + 1] = x /\ \A i \in 1..k : f[i] = g[i]
    BY <1>4, <2>1, <2>5, AppendProperties DEF x
  <2>7. ASSUME NEW i \in 1..Len(f) PROVE f[i].record = w[i].record
    <3>1. CASE i = k + 1  BY <2>5, <2>6, <3>1
    <3>2. CASE i # k + 1
      <4>1. i \in 1..k  BY <1>3, <2>6, <3>2
      <4>2. QED  BY <1>4, <2>6, <4>1
    <3>3. QED  BY <3>1, <3>2
  <2>8. QED  BY <1>1, <1>3, <2>2, <2>6, <2>7
<1>7. QED  BY <1>5, <1>6

\* A log of whole lines is read to its end.
LEMMA ReplayWhole ==
    ASSUME NEW f \in Seq(Piece), Whole(f)
    PROVE  ReplayCommands(f) = Records(f)
<1> DEFINE I == {i \in DOMAIN f : Valid(f, i) /\ \A j \in 1..i : ~Corrupt(f, j)}
<1>1. Len(f) \in Nat /\ DOMAIN f = 1..Len(f) /\ Records(f) \in Calls /\ Len(Records(f)) = Len(f)
  BY RecordsFacts
<1>2. ASSUME NEW i \in 1..Len(f) PROVE Valid(f, i) /\ ~Corrupt(f, i)
  <2>1. f[i].form = "full" /\ (i # 1 => i - 1 \in 1..Len(f))  BY <1>1 DEF Whole
  <2>2. i # 1 => f[i - 1].form = "full"  BY <2>1 DEF Whole
  <2>3. QED  BY <2>1, <2>2 DEF Valid, Corrupt, LineStart, LineAlone
<1>3. ASSUME NEW i \in 1..Len(f) PROVE i \in I
  <2>1. \A j \in 1..i : j \in 1..Len(f)  BY <1>1
  <2>2. QED  BY <1>1, <1>2, <2>1
<1> HIDE DEF I
<1>4. \A i \in 1..Len(Records(f)) : i \in I  BY <1>1, <1>3
<1>5. Records(f) \in Seq(Entry)  BY <1>1 DEF Calls
<1>6. Kept(Records(f), I) = Records(f)  BY <1>4, <1>5, KeptAll
<1>7. QED  BY <1>6 DEF ReplayCommands, I

\* Of a log of whole lines that was cut, a replay reads the first records: all
\* but the torn one, and that one too if only its newline is missing.
LEMMA ReplayCut ==
    ASSUME NEW w \in Seq(Piece), Whole(w), NEW safe \in 0..Len(w), NEW f \in Cut(w, safe)
    PROVE  \E m \in safe..Len(w) : ReplayCommands(f) = SubSeq(Records(w), 1, m)
<1>1. /\ Len(w) \in Nat /\ Records(w) \in Seq(Entry) /\ Len(Records(w)) = Len(w)
      /\ \A i \in 1..Len(w) : w[i] \in Piece /\ Records(w)[i] = w[i].record
  BY RecordsFacts DEF Calls
<1>2. PICK k \in safe..Len(w) :
              \/ f = SubSeq(w, 1, k)
              \/ /\ k + 1 <= Len(w)
                 /\ \E t \in Shorter(w[k + 1].form) :
                       f = Append(SubSeq(w, 1, k), [w[k + 1] EXCEPT !.form = t])
  BY CutCases
<1> DEFINE g == SubSeq(w, 1, k)
<1>3. k \in 0..Len(w) /\ k \in Nat  BY <1>1
<1>4. g \in Seq(Piece) /\ Len(g) = k /\ \A i \in 1..k : g[i] = w[i]  BY <1>3, FirstPieces
<1>5. ASSUME NEW h \in Seq(Piece), Len(h) <= Len(w), \A i \in 1..Len(h) : h[i].record = w[i].record
      PROVE  Records(h) = SubSeq(Records(w), 1, Len(h))
  <2> DEFINE n == Len(h)
             r == SubSeq(Records(w), 1, n)
  <2>1. n \in Nat /\ Records(h) \in Seq(Entry) /\ Len(Records(h)) = n
        /\ \A i \in 1..n : Records(h)[i] = h[i].record
    BY RecordsFacts DEF Calls
  <2> HIDE DEF n
  <2>2. \A i \in 1..n : Records(w)[i] \in Entry  BY <1>1, <1>5, <2>1, ElementOfSeq DEF n
  <2>3. r \in Seq(Entry) /\ Len(r) = n /\ \A i \in 1..n : r[i] = Records(w)[i]
    BY <2>1, <2>2, SubSeqProperties
  <2> HIDE DEF r
  <2>4. ASSUME NEW i \in 1..n PROVE Records(h)[i] = r[i]
    <3>1. i \in 1..Len(w)  BY <1>1, <1>5, <2>1 DEF n
    <3>2. h[i].record = w[i].record  BY <1>5 DEF n
    <3>3. QED  BY <1>1, <2>1, <2>3, <3>1, <3>2
  <2>5. Records(h) = r  BY <2>1, <2>3, <2>4, SeqEqual
  <2>6. QED  BY <2>5 DEF r, n
<1>6. Whole(g)
  <2>1. \A i \in 1..k : i \in 1..Len(w)  BY <1>1, <1>3
  <2>2. QED  BY <1>4, <2>1 DEF Whole
<1>7. Records(g) = SubSeq(Records(w), 1, k)
  <2>1. Len(g) <= Len(w) /\ \A i \in 1..Len(g) : g[i].record = w[i].record  BY <1>1, <1>3, <1>4
  <2>2. QED  BY <1>4, <1>5, <2>1
<1>8. CASE f = g
  <2>1. ReplayCommands(f) = Records(g)  BY <1>4, <1>6, <1>8, ReplayWhole
  <2>2. QED  BY <1>7, <2>1
<1>9. CASE f # g
  <2> HIDE DEF g
  <2>1. PICK t \in Shorter(w[k + 1].form) : f = Append(g, [w[k + 1] EXCEPT !.form = t])
    BY <1>2, <1>9 DEF g
  <2>2. k + 1 \in 1..Len(w)  BY <1>1, <1>2, <1>3, <1>9 DEF g
  <2>3. w[k + 1] \in Piece /\ w[k + 1].form = "full"  BY <1>1, <2>2 DEF Whole
  <2>4. t \in Torn  BY <2>3 DEF Shorter
  <2> DEFINE x == [w[k + 1] EXCEPT !.form = t]
  <2>5. x \in Piece /\ x.record = w[k + 1].record /\ x.form = t  BY <2>3, <2>4 DEF Piece
  <2> HIDE DEF x
  <2>6. /\ f \in Seq(Piece) /\ Len(f) = k + 1 /\ f[k + 1] = x /\ \A i \in 1..k : f[i] = g[i]
    BY <1>4, <2>1, <2>5, AppendProperties DEF x
  <2>7. \A i \in 1..k : f[i].form = "full"  BY <1>4, <1>6, <2>6 DEF Whole
  <2>8. \A i \in 1..(k + 1) : LineStart(f, i)
    <3>1. SUFFICES ASSUME NEW i \in 1..(k + 1), i # 1 PROVE f[i - 1].form = "full"  BY DEF LineStart
    <3>2. i - 1 \in 1..k  BY <1>3, <3>1
    <3>3. QED  BY <2>7, <3>2
  <2>9. \A i \in 1..k : Valid(f, i) /\ ~Corrupt(f, i)
    <3>1. SUFFICES ASSUME NEW i \in 1..k PROVE Valid(f, i)  BY DEF Corrupt
    <3>2. i \in 1..(k + 1)  BY <1>3
    <3>3. QED  BY <2>7, <2>8, <3>2 DEF Valid, LineAlone
  <2> DEFINE I == {i \in DOMAIN f : Valid(f, i) /\ \A j \in 1..i : ~Corrupt(f, j)}
  <2>10. DOMAIN f = 1..(k + 1)  BY <2>6, LenProperties
  <2>11. \A i \in 1..k : i \in I
    <3>1. SUFFICES ASSUME NEW i \in 1..k PROVE i \in I  OBVIOUS
    <3>2. i \in 1..(k + 1) /\ \A j \in 1..i : j \in 1..k  BY <1>3
    <3>3. QED  BY <2>9, <2>10, <3>2
  <2>12. k + 1 \in I <=> t = "whole"
    <3>1. k + 1 \in 1..(k + 1) /\ \A j \in 1..(k + 1) : j \in 1..k \/ j = k + 1  BY <1>3
    <3>2. LineStart(f, k + 1)  BY <2>8, <3>1
    <3>3. Valid(f, k + 1) <=> t = "whole"
      BY <2>4, <2>5, <2>6, <3>2 DEF Valid, LineAlone, Torn
    <3>4. Valid(f, k + 1) => ~Corrupt(f, k + 1)  BY DEF Corrupt
    <3>5. QED  BY <2>9, <2>10, <3>1, <3>3, <3>4
  <2>13. ReplayCommands(f) = Kept(Records(f), I)  BY DEF ReplayCommands
  <2> HIDE DEF I
  <2>14. Records(f) \in Seq(Entry) /\ Len(Records(f)) = k + 1
    BY <2>6, RecordsFacts DEF Calls
  <2>15. CASE t = "whole"
    <3>1. \A i \in 1..(k + 1) : i \in I
      <4>1. SUFFICES ASSUME NEW i \in 1..(k + 1) PROVE i \in I  OBVIOUS
      <4>2. i \in 1..k \/ i = k + 1  BY <1>3
      <4>3. QED  BY <2>11, <2>12, <2>15, <4>2
    <3>2. \A i \in 1..Len(Records(f)) : i \in I  BY <2>14, <3>1
    <3>3. Kept(Records(f), I) = Records(f)  BY <2>14, <3>2, KeptAll
    <3>4. Len(f) <= Len(w) /\ \A i \in 1..Len(f) : f[i].record = w[i].record
      BY <2>6, <2>2, CutFacts
    <3>5. Records(f) = SubSeq(Records(w), 1, k + 1)  BY <1>5, <2>6, <3>4
    <3>6. k + 1 \in safe..Len(w)  BY <1>1, <1>3, <2>2
    <3>7. QED  BY <2>13, <3>3, <3>5, <3>6
  <2>16. CASE t # "whole"
    <3>1. Records(f) = Append(Records(g), x.record)
      <4>1. Records(g) \in Seq(Entry) /\ Len(Records(g)) = k /\ \A i \in 1..k : Records(g)[i] = g[i].record
        BY <1>4, RecordsFacts DEF Calls
      <4>2. x.record \in Entry  BY <2>5 DEF Piece
      <4> DEFINE a == Append(Records(g), x.record)
      <4>3. /\ a \in Seq(Entry) /\ Len(a) = k + 1 /\ a[k + 1] = x.record
            /\ \A i \in 1..k : a[i] = Records(g)[i]
        BY <4>1, <4>2, AppendProperties
      <4> HIDE DEF a
      <4>4. \A i \in 1..(k + 1) : Records(f)[i] = f[i].record  BY <2>6, RecordsFacts
      <4>5. ASSUME NEW i \in 1..(k + 1) PROVE Records(f)[i] = a[i]
        <5>1. CASE i = k + 1  BY <2>6, <4>3, <4>4, <5>1
        <5>2. CASE i # k + 1
          <6>1. i \in 1..k  BY <1>3, <5>2
          <6>2. QED  BY <2>6, <4>1, <4>3, <4>4, <6>1
        <5>3. QED  BY <5>1, <5>2
      <4>6. Records(f) = a  BY <2>14, <4>3, <4>5, SeqEqual
      <4>7. QED  BY <4>6 DEF a
    <3>2. Records(g) \in Seq(Entry) /\ Len(Records(g)) = k /\ x.record \in Entry
      BY <1>4, <2>5, RecordsFacts DEF Calls, Piece
    <3>3. \A i \in 1..Len(Records(g)) : i \in I  BY <2>11, <3>2
    <3>4. Kept(Append(Records(g), x.record), I) =
              IF Len(Records(g)) + 1 \in I THEN Append(Kept(Records(g), I), x.record)
              ELSE Kept(Records(g), I)
      <4> DEFINE r == Records(g)
                 y == x.record
      <4>1. r \in Seq(Entry) /\ y \in Entry  BY <3>2
      <4> HIDE DEF r, y
      <4>2. \A i \in 1..Len(r) : i \in I <=> i \in I  OBVIOUS
      <4>3. Kept(Append(r, y), I) = IF Len(r) + 1 \in I THEN Append(Kept(r, I), y) ELSE Kept(r, I)
        BY <4>1, <4>2, KeptAppend
      <4>4. QED  BY <4>3 DEF r, y
    <3>5. Len(Records(g)) + 1 \notin I  BY <2>12, <2>16, <3>2
    <3>6. Kept(Records(g), I) = Records(g)  BY <3>2, <3>3, KeptAll
    <3>7. QED  BY <1>7, <2>13, <3>1, <3>4, <3>5, <3>6
  <2>17. QED  BY <2>15, <2>16
<1>10. QED  BY <1>8, <1>9

-----------------------------------------------------------------------------
(***************************************************************************)
(* Facts for the steps.                                                    *)
(***************************************************************************)
\* The log in one piece.
LEMMA LoggedFacts ==
    ASSUME TypeOK
    PROVE  /\ file \in Seq(Piece) /\ Len(file) \in Nat
           /\ pending \in Calls /\ Len(pending) \in Nat
           /\ Logged \in Calls /\ Len(Logged) = Len(file) + Len(pending)
           /\ Logged = Records(file \o Lines(pending))
           /\ Records(file) = SubSeq(Logged, 1, Len(file))
<1>1. file \in Seq(Piece) /\ pending \in Calls  BY DEF TypeOK, Piece
<1>2. Len(file) \in Nat /\ Records(file) \in Seq(Entry) /\ Len(Records(file)) = Len(file)
  BY <1>1, RecordsFacts DEF Calls
<1>3. pending \in Seq(Entry) /\ Len(pending) \in Nat  BY <1>1, LenProperties DEF Calls
<1>4. Logged \in Calls /\ Len(Logged) = Len(file) + Len(pending)
  <2> DEFINE r == Records(file)
  <2>1. r \in Seq(Entry) /\ Len(r) = Len(file)  BY <1>2
  <2> HIDE DEF r
  <2>2. r \o pending \in Seq(Entry) /\ Len(r \o pending) = Len(r) + Len(pending)
    BY <1>3, <2>1, ConcatProperties
  <2>3. QED  BY <2>1, <2>2 DEF Logged, Calls, r
<1>5. Logged = Records(file \o Lines(pending))  BY <1>1, WrittenFacts DEF Logged
<1>6. SubSeq(Logged, 1, Len(file)) = Records(file)
  <2> DEFINE r == Records(file)
  <2>1. r \in Seq(Entry)  BY <1>2
  <2>2. IsPrefix(r, r \o pending)
    <3> HIDE DEF r
    <3>1. QED  BY <1>3, <2>1, PrefixOfConcat
  <2>3. SubSeq(r, 1, Len(r)) = SubSeq(Logged, 1, Len(r))  BY <2>2 DEF IsPrefix, Logged
  <2>4. SubSeq(r, 1, Len(r)) = r
    <3> HIDE DEF r
    <3>1. QED  BY <2>1, SubSeqFull
  <2>5. QED  BY <1>2, <2>3, <2>4
<1>7. QED  BY <1>1, <1>2, <1>3, <1>4, <1>5, <1>6

\* A command has the next number and is of a book; a rejection is not.
LEMMA CommandFacts ==
    ASSUME TypeOK, sent < MaxCommands, NEW c \in Commands
    PROVE  /\ sent \in Nat /\ sent + 1 \in 0..MaxCommands
           /\ c \in Entry /\ c.number = sent + 1 /\ c.type \in OfBooks
           /\ \A t \in {"reject", "risk_reject"} :
                 As(c, t) \in Entry /\ As(c, t).number = sent + 1 /\ As(c, t).type \notin OfBooks
<1>1. sent \in Nat /\ MaxCommands \in Nat  BY ShardAssumption DEF TypeOK
<1>2. sent + 1 \in 1..MaxCommands  BY <1>1
<1>3. PICK r \in Requests, i \in Ingress : c = Sent(r, i)  BY DEF Commands
<1>4. r.type \in {"add", "cancel", "replace"}  BY ShardAssumption DEF Request
<1>5. c = [type |-> r.type, request |-> r, ingress |-> i, number |-> sent + 1]  BY <1>3 DEF Sent
<1>6. c \in Entry /\ c.number = sent + 1 /\ c.type \in OfBooks  BY <1>2, <1>4, <1>5 DEF Entry, OfBooks
<1>7. ASSUME NEW t \in {"reject", "risk_reject"}
      PROVE  As(c, t) \in Entry /\ As(c, t).number = sent + 1 /\ As(c, t).type \notin OfBooks
  <2>1. As(c, t) = [type |-> t, request |-> r, ingress |-> i, number |-> sent + 1]
    BY <1>5 DEF As
  <2>2. QED  BY <1>2, <2>1 DEF Entry, OfBooks
<1>8. QED  BY <1>1, <1>2, <1>6, <1>7

\* Writing puts the staged records into the file, or fails and puts the first of
\* them there.
LEMMA WriteFacts ==
    ASSUME TypeOK, WriteStaged \/ WriteFails
    PROVE  /\ file' \in Seq(Piece) /\ Len(file') \in Nat
           /\ synced' \in 0..Len(file')
           /\ trouble' \in {"none", "restart", "failure", "snapshot"}
           /\ Len(file') <= Len(Logged)
           /\ \A i \in 1..Len(file') : Records(file')[i] = Logged[i]
           /\ \/ trouble' = "failure"
              \/ /\ trouble' = trouble
                 /\ file' = IF open THEN file \o Lines(pending) ELSE file
                 /\ synced' = IF open /\ Fsync THEN Len(file') ELSE synced
<1> DEFINE w == file \o Lines(pending)
<1>1. /\ file \in Seq(Piece) /\ Len(file) \in Nat /\ pending \in Calls /\ Len(pending) \in Nat
      /\ Logged \in Calls /\ Len(Logged) = Len(file) + Len(pending) /\ Logged = Records(w)
      /\ Records(file) = SubSeq(Logged, 1, Len(file))
  BY LoggedFacts
<1>2. w \in Seq(Piece) /\ Len(w) = Len(file) + Len(pending)  BY <1>1, WrittenFacts
<1>3. synced \in 0..Len(file) /\ trouble \in {"none", "restart", "failure", "snapshot"} /\ open \in BOOLEAN
  BY DEF TypeOK
<1> HIDE DEF w
<1>4. CASE WriteStaged
  <2>1. /\ file' = IF open THEN w ELSE file
        /\ synced' = IF open /\ Fsync THEN Len(file') ELSE synced
        /\ trouble' = trouble
    BY <1>4 DEF WriteStaged, w
  <2>2. file' \in Seq(Piece) /\ Len(file') \in Nat /\ Len(file') >= Len(file) /\ Len(file') <= Len(Logged)
    BY <1>1, <1>2, <2>1
  <2>3. synced' \in 0..Len(file')  BY <1>1, <1>3, <2>1, <2>2
  <2>4. ASSUME NEW i \in 1..Len(file') PROVE Records(file')[i] = Logged[i]
    <3>1. CASE open  BY <1>1, <2>1, <3>1
    <3>2. CASE ~open
      <4>1. i \in 1..Len(file)  BY <2>1, <3>2
      <4>2. \A j \in 1..Len(file) : Logged[j] \in Entry
        <5>1. \A j \in 1..Len(file) : j \in 1..Len(Logged)  BY <1>1
        <5>2. QED  BY <1>1, <5>1, ElementOfSeq DEF Calls
      <4>3. SubSeq(Logged, 1, Len(file))[i] = Logged[i]  BY <1>1, <4>1, <4>2, SubSeqProperties
      <4>4. QED  BY <1>1, <2>1, <3>2, <4>3
    <3>3. QED  BY <3>1, <3>2
  <2>5. QED  BY <1>3, <2>1, <2>2, <2>3, <2>4 DEF w
<1>5. CASE WriteFails
  <2>1. file' \in Cut(w, Len(file)) /\ trouble' = "failure" /\ synced' = synced
    BY <1>5 DEF WriteFails, w
  <2>2. Len(file) \in 0..Len(w)  BY <1>1, <1>2
  <2>3. /\ file' \in Seq(Piece) /\ Len(file') \in Len(file)..Len(w)
        /\ \A i \in 1..Len(file') : file'[i].record = w[i].record
    BY <1>2, <2>1, <2>2, CutFacts
  <2>4. Len(file') \in Nat /\ Len(file') <= Len(Logged)  BY <1>1, <1>2, <2>3
  <2>5. synced' \in 0..Len(file')  BY <1>1, <1>3, <2>1, <2>3
  <2>6. ASSUME NEW i \in 1..Len(file') PROVE Records(file')[i] = Logged[i]
    <3>1. i \in 1..Len(w)  BY <1>1, <1>2, <2>3
    <3>2. Records(w)[i] = w[i].record  BY <1>2, <3>1, RecordsFacts
    <3>3. Records(file')[i] = file'[i].record  BY <2>3, RecordsFacts
    <3>4. QED  BY <1>1, <2>3, <3>2, <3>3
  <2>7. QED  BY <2>1, <2>3, <2>4, <2>5, <2>6
<1>6. QED  BY <1>4, <1>5

\* A log of which the end is missing is still numbered.
LEMMA NumbersShrink ==
    ASSUME TypeOK, NumberInv, sent' = sent, Len(Logged') \in Nat, Len(Logged') <= Len(Logged),
           \A i \in 1..Len(Logged') : Logged'[i] = Logged[i]
    PROVE  NumberInv'
<1>1. Len(Logged) \in Nat  BY LoggedFacts
<1>2. \A i \in 1..Len(Logged') : i \in 1..Len(Logged)  BY <1>1
<1>3. QED  BY <1>2 DEF NumberInv

\* A step that leaves engine and ingress alone, in a process that lives.
LEMMA Quiet ==
    ASSUME ShardInv, UNCHANGED <<engine, last, restarts>>, pc # "down", pc' # "down"
    PROVE  IngressInv' /\ IngressOrdered' /\ CrashLosesTail'
<1>1. IngressInv /\ IngressOrdered  BY DEF ShardInv
<1>2. Books(engine)' = Books(engine)  BY DEF Books
<1>3. IngressInv'  BY <1>1, <1>2 DEF IngressInv
<1>4. IngressOrdered'  BY <1>1, <1>2 DEF IngressOrdered
<1>5. CrashLosesTail'  BY DEF CrashLosesTail
<1>6. QED  BY <1>3, <1>4, <1>5

\* A step that leaves the log alone.
LEMMA SameLog ==
    ASSUME ShardInv, UNCHANGED <<file, pending, sent>>
    PROVE  Logged' = Logged /\ NumberInv'
<1>1. Logged' = Logged  BY DEF Logged, Records
<1>2. QED  BY <1>1 DEF ShardInv, NumberInv

\* What is lost when the log is read only up to some record that is not yet in
\* the file, or the last one that is.
LEMMA TailLost ==
    ASSUME ShardInv, trouble = "none", pc \notin {"down", "truncate"},
           NEW f, NEW m \in Len(file)..Len(Logged), ReplayCommands(f) = SubSeq(Logged, 1, m)
    PROVE  /\ IsPrefix(Books(Rebuilt(snapshot, f)), Books(engine))
           /\ Len(Books(engine)) - Len(Books(Rebuilt(snapshot, f))) <= Batch
           /\ m = Len(Logged) => Books(Rebuilt(snapshot, f)) = Books(engine)
<1> DEFINE a == SubSeq(Logged, 1, m)
           b == SubSeq(Logged, m + 1, Len(Logged))
           l == Loaded(snapshot)
           n == Len(Logged)
<1>1. TypeOK /\ LogInv  BY DEF ShardInv
<1>2. /\ Len(file) \in Nat /\ Len(pending) \in Nat
      /\ Logged \in Seq(Entry) /\ n = Len(file) + Len(pending)
  BY <1>1, LoggedFacts DEF Calls
<1>3. n \in Nat /\ m \in Nat /\ m <= n /\ n - m <= Len(pending)  BY <1>2
<1>4. \A i \in 1..n : Logged[i] \in Entry  BY <1>2, ElementOfSeq
<1>5. a \in Calls
  <2>1. \A i \in 1..m : Logged[i] \in Entry  BY <1>3, <1>4
  <2>2. QED  BY <1>3, <2>1, SubSeqProperties DEF Calls
<1>6. b \in Calls /\ Len(b) = n - m
  <2>1. \A i \in (m + 1)..n : Logged[i] \in Entry  BY <1>3, <1>4
  <2>2. m + 1 \in Int /\ n \in Int  BY <1>3
  <2>3. b \in Seq(Entry) /\ Len(b) = IF m + 1 <= n THEN n - (m + 1) + 1 ELSE 0
    BY <2>1, <2>2, SubSeqProperties
  <2>4. QED  BY <1>3, <2>3 DEF Calls
<1>7. Logged = a \o b
  <2>1. 1 \in 1..(n + 1) /\ m \in (1 - 1)..n /\ n \in m..n  BY <1>3
  <2> HIDE DEF n
  <2>2. SubSeq(Logged, 1, m) \o SubSeq(Logged, m + 1, n) = SubSeq(Logged, 1, n)
    BY <1>2, <2>1, ConcatAdjacentSubSeq DEF n
  <2>3. SubSeq(Logged, 1, n) = Logged  BY <1>2, SubSeqFull DEF n
  <2>4. QED  BY <2>2, <2>3 DEF n
<1>8. l \in Calls
  <2>1. <<>> \in Calls  BY DEF Calls
  <2>2. QED  BY <1>1, <2>1 DEF TypeOK, Loaded, Unreadable
<1>9. Rebuilt(snapshot, f) = l \o Books(a)  BY DEF Rebuilt
<1>10. Books(l) \o Books(Logged) = Books(engine) /\ Len(pending) <= Batch  BY <1>1 DEF LogInv
<1> HIDE DEF a, b, l, n
<1>11. Books(Logged) = Books(a) \o Books(b)  BY <1>5, <1>6, <1>7, BooksConcat
<1>12. Books(a) \in Calls /\ Books(b) \in Calls /\ Books(l) \in Calls
       /\ Len(Books(b)) \in Nat /\ Len(Books(b)) <= Len(b)
  BY <1>5, <1>6, <1>8, BooksFacts
<1>13. Books(Rebuilt(snapshot, f)) = Books(l) \o Books(a)
  <2>1. Books(l \o Books(a)) = Books(l) \o Books(Books(a))  BY <1>8, <1>12, BooksConcat
  <2>2. QED  BY <1>5, <1>9, <2>1, BooksAgain
<1> DEFINE r == Books(l) \o Books(a)
           t == Books(b)
<1>14. r \in Seq(Entry) /\ t \in Seq(Entry)  BY <1>12, ConcatProperties DEF Calls
<1>15. Books(engine) = r \o t
  <2>1. Books(l) \o (Books(a) \o Books(b)) = (Books(l) \o Books(a)) \o Books(b)
    BY <1>12, ConcatAssociative, SMTT(30) DEF Calls
  <2>2. QED  BY <1>10, <1>11, <2>1
<1>16. Len(t) <= Batch
  <2>1. Batch \in Nat  BY ShardAssumption
  <2>2. QED  BY <1>2, <1>3, <1>6, <1>10, <1>12, <2>1
<1>17. m = n => t = <<>>
  <2>1. SUFFICES ASSUME m = n PROVE Len(t) = 0  BY <1>14, EmptySeq
  <2>2. Len(b) = 0  BY <1>3, <1>6, <2>1
  <2>3. QED  BY <1>12, <2>2
<1> HIDE DEF r, t
<1>18. IsPrefix(r, r \o t) /\ Len(r \o t) - Len(r) = Len(t)  BY <1>14, PrefixOfConcat
<1>19. m = n => r \o t = r  BY <1>14, <1>17, ConcatEmptySeq
<1>20. QED  BY <1>13, <1>15, <1>16, <1>18, <1>19 DEF r, n

-----------------------------------------------------------------------------
(***************************************************************************)
(* The invariant holds at first and is kept by every action.               *)
(***************************************************************************)
\* Before the first command.
LEMMA ShardInvInit == Init => ShardInv
<1> SUFFICES ASSUME Init PROVE ShardInv  OBVIOUS
<1> USE DEF Init
<1>1. <<>> \in Calls /\ <<>> \in Seq(Piece) /\ Len(<<>>) = 0  BY DEF Calls
<1>2. Records(<<>>) = <<>>  BY <1>1, RecordsFacts, EmptySeq DEF Calls
<1>3. Books(<<>>) = <<>>
  <2>1. Books(<<>>) \in Calls /\ Len(Books(<<>>)) \in Nat /\ Len(Books(<<>>)) <= Len(<<>>)
    BY <1>1, BooksFacts
  <2>2. Len(Books(<<>>)) = 0  BY <1>1, <2>1
  <2>3. QED  BY <2>1, <2>2, EmptySeq DEF Calls
<1>4. <<>> \o <<>> = <<>>  OBVIOUS
<1>5. Logged = <<>>  BY <1>2, <1>4 DEF Logged
<1>6. TypeOK
  BY <1>1, ShardAssumption DEF TypeOK, Piece, Unreadable
<1>7. SaveInv  BY DEF SaveInv, Unreadable
<1>8. NumberInv  BY <1>1, <1>5 DEF NumberInv
<1>9. LogInv
  <2>1. Batch \in Nat \ {0}  BY ShardAssumption
  <2>2. Books(Loaded(snapshot)) \o Books(Logged) = Books(engine)  BY <1>3, <1>4, <1>5 DEF Loaded, Unreadable
  <2>3. Whole(file)  BY <1>1 DEF Whole
  <2>4. snapshot # DAMAGED  BY ShardAssumption
  <2>5. QED  BY <1>1, <2>1, <2>2, <2>3, <2>4 DEF LogInv
<1>10. AppendInv  BY <1>1, <1>4, <1>5 DEF AppendInv
<1>11. IngressInv /\ IngressOrdered /\ CrashLosesTail
  BY <1>1, <1>3 DEF IngressInv, IngressOrdered, CrashLosesTail
<1>12. QED  BY <1>6, <1>7, <1>8, <1>9, <1>10, <1>11 DEF ShardInv

\* Whatever an idle engine is called with continues what it was.
LEMMA SaveAfterCall ==
    ASSUME ShardInv, pc = "idle", pc' \in {"idle", "flush"}, NEW e \in Entry,
           engine' = Append(engine, e), UNCHANGED saveVars
    PROVE  SaveInv'
<1>1. TypeOK /\ SaveInv  BY DEF ShardInv
<1>2. snapshot' = snapshot /\ doc' = doc  BY DEF saveVars
<1>3. doc = NULL  BY <1>1 DEF TypeOK
<1>4. snapshot \notin Unreadable => IsPrefix(snapshot, engine')
  <2>1. SUFFICES ASSUME snapshot \notin Unreadable PROVE IsPrefix(snapshot, engine')  OBVIOUS
  <2>2. snapshot \in Seq(Entry) /\ engine \in Seq(Entry) /\ IsPrefix(snapshot, engine)
    BY <1>1, <2>1 DEF TypeOK, Calls, SaveInv
  <2>3. Append(engine, e) = engine \o <<e>> /\ <<e>> \in Seq(Entry)  BY <2>2, AppendIsConcat
  <2>4. IsPrefix(snapshot, engine \o <<e>>)  BY <2>2, <2>3, PrefixThenConcat
  <2>5. QED  BY <2>3, <2>4
<1>5. Unreadable' = Unreadable /\ NULL \in Unreadable  BY DEF Unreadable
<1>6. QED  BY <1>2, <1>3, <1>4, <1>5 DEF SaveInv

\* Nothing is executed behind a later ingress number: a call that is in order
\* raises the last number, or has none.
LEMMA IngressAfterCall ==
    ASSUME ShardInv, pc # "down", NEW c \in Entry, InOrder(c), NEW e \in Entry,
           engine' = Append(engine, e), e.type \in OfBooks => e = c, restarts' = restarts
    PROVE  IngressInv' /\ IngressOrdered'
<1>1. TypeOK /\ IngressInv /\ IngressOrdered  BY DEF ShardInv
<1>2. engine \in Calls /\ last \in Int  BY <1>1 DEF TypeOK
<1>3. c.ingress \in Int \cup {NULL}  BY ShardAssumption DEF Entry
<1>4. NULL \notin Int  BY ShardAssumption
<1>5. c.ingress # NULL => c.ingress > last /\ last' = c.ingress
  BY <1>2, <1>3 DEF InOrder, OutOfOrder
<1>6. c.ingress = NULL => last' = last  BY DEF InOrder
<1>7. Books(engine') = IF e.type \in OfBooks THEN Append(Books(engine), e) ELSE Books(engine)
  BY <1>2, BooksAppend
<1> DEFINE b == Books(engine)
           n == Len(b)
<1>8. b \in Seq(Entry) /\ n \in Nat /\ DOMAIN b = 1..n
  BY <1>2, BooksFacts, LenProperties DEF Calls
<1>9. \A i \in 1..n : b[i].ingress \in Int \cup {NULL}
  <2>1. \A i \in 1..n : b[i] \in Entry  BY <1>8, ElementOfSeq
  <2>2. QED  BY <2>1, ShardAssumption DEF Entry
<1>10. restarts = 0 => \A i \in 1..n : b[i].ingress # NULL => b[i].ingress <= last
  BY <1>1 DEF IngressInv
<1>11. restarts = 0 => \A i, j \in 1..n :
           i < j /\ b[i].ingress # NULL /\ b[j].ingress # NULL => b[i].ingress < b[j].ingress
  BY <1>1, <1>8 DEF IngressOrdered
<1>12. Books(engine)' = Books(engine')  BY DEF Books
<1>13. CASE e.type \in OfBooks
  <2> DEFINE d == Append(b, e)
  <2>1. e = c /\ Books(engine') = d  BY <1>7, <1>13
  <2>2. /\ d \in Seq(Entry) /\ Len(d) = n + 1 /\ d[n + 1] = e /\ \A i \in 1..n : d[i] = b[i]
    BY <1>8, AppendProperties
  <2>3. DOMAIN d = 1..(n + 1)  BY <2>2, LenProperties
  <2> HIDE DEF b, n, d
  <2>4. ASSUME restarts = 0, NEW i \in 1..(n + 1), d[i].ingress # NULL PROVE d[i].ingress <= last'
    <3>1. CASE i = n + 1  BY <1>3, <1>5, <2>1, <2>2, <2>4, <3>1
    <3>2. CASE i # n + 1
      <4>1. i \in 1..n  BY <1>8, <3>2
      <4>2. b[i].ingress <= last /\ b[i].ingress \in Int  BY <1>9, <1>10, <2>2, <2>4, <4>1
      <4>3. last' >= last  BY <1>2, <1>3, <1>5, <1>6
      <4>4. last' \in Int  BY <1>2, <1>3, <1>5, <1>6
      <4>5. QED  BY <1>2, <2>2, <4>1, <4>2, <4>3, <4>4
    <3>3. QED  BY <3>1, <3>2
  <2>5. ASSUME restarts = 0, NEW i \in 1..(n + 1), NEW j \in 1..(n + 1), i < j,
               d[i].ingress # NULL, d[j].ingress # NULL
        PROVE  d[i].ingress < d[j].ingress
    <3>1. i \in 1..n /\ d[i] = b[i]  BY <1>8, <2>2, <2>5
    <3>2. CASE j = n + 1
      <4>1. b[i].ingress <= last /\ b[i].ingress \in Int  BY <1>9, <1>10, <2>5, <3>1
      <4>2. d[j].ingress = c.ingress /\ c.ingress > last /\ c.ingress \in Int
        BY <1>3, <1>5, <2>1, <2>2, <2>5, <3>2
      <4>3. QED  BY <1>2, <3>1, <4>1, <4>2
    <3>3. CASE j # n + 1
      <4>1. j \in 1..n /\ d[j] = b[j]  BY <1>8, <2>2, <3>3
      <4>2. QED  BY <1>11, <2>5, <3>1, <4>1
    <3>4. QED  BY <3>2, <3>3
  <2>6. IngressInv'  BY <1>12, <2>1, <2>2, <2>4 DEF IngressInv
  <2>7. IngressOrdered'  BY <1>12, <2>1, <2>3, <2>5 DEF IngressOrdered
  <2>8. QED  BY <2>6, <2>7
<1>14. CASE e.type \notin OfBooks
  <2>1. Books(engine)' = b  BY <1>7, <1>12, <1>14
  <2>2. last' \in Int /\ last' >= last  BY <1>2, <1>3, <1>5, <1>6
  <2>3. ASSUME restarts = 0, NEW i \in 1..n, b[i].ingress # NULL PROVE b[i].ingress <= last'
    <3>1. b[i].ingress <= last /\ b[i].ingress \in Int  BY <1>9, <1>10, <2>3
    <3>2. QED  BY <1>2, <2>2, <3>1
  <2>4. IngressInv'  BY <2>1, <2>3 DEF IngressInv
  <2>5. IngressOrdered'  BY <1>1, <2>1 DEF IngressOrdered
  <2>6. QED  BY <2>4, <2>5
<1>15. QED  BY <1>13, <1>14

\* A call that is logged first.
LEMMA LogAfterCall ==
    ASSUME ShardInv, pc = "idle", sent < MaxCommands, sent' = sent + 1,
           NEW r \in Entry, r.number = sent + 1, AppendRecord(r),
           NEW e \in Entry, engine' = Append(engine, e),
           e.type \in OfBooks <=> r.type \in OfBooks, e.type \in OfBooks => e = r,
           UNCHANGED saveVars, last' \in Int, restarts' = restarts
    PROVE  TypeOK' /\ SaveInv' /\ NumberInv' /\ LogInv' /\ AppendInv' /\ CrashLosesTail'
<1>1. TypeOK /\ SaveInv /\ NumberInv /\ LogInv /\ AppendInv  BY DEF ShardInv
<1>2. /\ pending' = Append(pending, r) /\ appended' = Append(appended, r)
      /\ pc' = IF WindowFull(pending') THEN "flush" ELSE "idle"
      /\ UNCHANGED <<open, file, synced, trouble>>
  BY DEF AppendRecord
<1>3. /\ file \in Seq(Piece) /\ Len(file) \in Nat /\ pending \in Calls /\ Len(pending) \in Nat
      /\ Logged \in Calls /\ Len(Logged) = Len(file) + Len(pending)
  BY <1>1, LoggedFacts
<1>4. engine \in Calls /\ appended \in Calls  BY <1>1 DEF TypeOK
<1>5. engine' \in Calls /\ appended' \in Calls /\ pending' \in Calls /\ Len(pending') = Len(pending) + 1
  BY <1>2, <1>3, <1>4, AppendProperties DEF Calls
<1>6. Logged' = Append(Logged, r)
  <2>1. Records(file)' = Records(file)  BY <1>2 DEF Records
  <2>2. Records(file) \in Seq(Entry) /\ pending \in Seq(Entry)  BY <1>3, RecordsFacts DEF Calls
  <2>3. Records(file) \o Append(pending, r) = Append(Records(file) \o pending, r)
    <3> DEFINE q == Records(file)
    <3>1. q \in Seq(Entry)  BY <2>2
    <3> HIDE DEF q
    <3>2. q \o Append(pending, r) = Append(q \o pending, r)  BY <2>2, <3>1, ConcatSimplifications
    <3>3. QED  BY <3>2 DEF q
  <2>4. QED  BY <1>2, <2>1, <2>3 DEF Logged
<1> DEFINE n == Len(Logged)
<1>7. /\ Len(Logged') = n + 1 /\ Logged'[n + 1] = r /\ \A i \in 1..n : Logged'[i] = Logged[i]
      /\ n \in Nat
  <2> DEFINE q == Logged
             u == Append(q, r)
  <2>1. q \in Seq(Entry) /\ n \in Nat /\ n = Len(q)  BY <1>3 DEF Calls
  <2> HIDE DEF q
  <2>2. Len(u) = Len(q) + 1 /\ u[Len(q) + 1] = r /\ \A i \in 1..Len(q) : u[i] = q[i]
    BY <2>1, AppendProperties
  <2> HIDE DEF u
  <2>3. Logged' = u /\ Logged = q  BY <1>6 DEF u, q
  <2> HIDE DEF n
  <2>4. QED  BY <2>1, <2>2, <2>3
<1>8. sent \in Nat /\ sent' \in 0..MaxCommands  BY <1>1, ShardAssumption DEF TypeOK
<1>9. TypeOK'
  <2>1. pc' \in {"idle", "flush"}  BY <1>2
  <2>2. doc' = doc /\ snapshot' = snapshot  BY DEF saveVars
  <2>3. QED  BY <1>1, <1>2, <1>5, <1>8, <2>1, <2>2 DEF TypeOK
<1>10. SaveInv'
  <2>1. pc' \in {"idle", "flush"}  BY <1>2
  <2>2. QED  BY <2>1, SaveAfterCall
<1>11. NumberInv'
  <2> HIDE DEF n
  <2>1. \A i \in 1..n : Logged[i].number <= sent /\ Logged[i].number \in Nat
    <3>1. \A i \in 1..n : Logged[i] \in Entry  BY <1>3, ElementOfSeq DEF Calls, n
    <3>2. \A i \in 1..n : Logged[i].number \in 1..MaxCommands  BY <3>1 DEF Entry
    <3>3. MaxCommands \in Nat  BY ShardAssumption
    <3>4. QED  BY <1>1, <3>2, <3>3 DEF NumberInv, n
  <2>2. ASSUME NEW i \in 1..(n + 1) PROVE Logged'[i].number <= sent'
    <3>1. CASE i = n + 1  BY <1>7, <1>8, <3>1
    <3>2. CASE i # n + 1
      <4>1. i \in 1..n  BY <1>7, <3>2
      <4>2. QED  BY <1>7, <1>8, <2>1, <4>1
    <3>3. QED  BY <3>1, <3>2
  <2>3. ASSUME NEW i \in 1..(n + 1), NEW j \in 1..(n + 1), i < j
        PROVE  Logged'[i].number < Logged'[j].number
    <3>1. i \in 1..n /\ Logged'[i] = Logged[i]  BY <1>7, <2>3
    <3>2. CASE j = n + 1  BY <1>7, <1>8, <2>1, <3>1, <3>2
    <3>3. CASE j # n + 1
      <4>1. j \in 1..n /\ Logged'[j] = Logged[j]  BY <1>7, <3>3
      <4>2. QED  BY <1>1, <2>3, <3>1, <4>1 DEF NumberInv, n
    <3>4. QED  BY <3>2, <3>3
  <2>4. QED  BY <1>7, <2>2, <2>3 DEF NumberInv
<1>12. LogInv'
  <2>1. SUFFICES ASSUME trouble = "none"
                 PROVE  /\ open' /\ Whole(file') /\ (Fsync => synced' = Len(file'))
                        /\ snapshot' # DAMAGED /\ Len(pending') <= Batch
                        /\ pc' # "flush" => Len(pending') < Batch
                        /\ Books(Loaded(snapshot')) \o Books(Logged') = Books(engine')
    BY <1>2 DEF LogInv, Books, Loaded, Whole
  <2>2. /\ open /\ Whole(file) /\ (Fsync => synced = Len(file)) /\ Len(pending) < Batch
        /\ snapshot # DAMAGED
        /\ Books(Loaded(snapshot)) \o Books(Logged) = Books(engine)
    BY <1>1, <2>1 DEF LogInv
  <2>3. Batch \in Nat  BY ShardAssumption
  <2>4. Len(pending') <= Batch  BY <1>3, <1>5, <2>2, <2>3
  <2>5. pc' # "flush" => Len(pending') < Batch  BY <1>2, <1>3, <1>5, <2>3 DEF WindowFull
  <2> DEFINE l == Books(Loaded(snapshot))
  <2>6. l \in Calls
    <3>1. <<>> \in Calls  BY DEF Calls
    <3>2. Loaded(snapshot) \in Calls  BY <1>1, <3>1 DEF TypeOK, Loaded, Unreadable
    <3>3. QED  BY <3>2, BooksFacts
  <2>7. Books(Logged') = IF r.type \in OfBooks THEN Append(Books(Logged), r) ELSE Books(Logged)
    BY <1>3, <1>6, BooksAppend
  <2>8. Books(engine') = IF e.type \in OfBooks THEN Append(Books(engine), e) ELSE Books(engine)
    BY <1>4, BooksAppend
  <2>9. l \o Append(Books(Logged), r) = Append(l \o Books(Logged), r)
    <3>1. Books(Logged) \in Seq(Entry) /\ l \in Seq(Entry)  BY <1>3, <2>6, BooksFacts DEF Calls
    <3> HIDE DEF l
    <3>2. QED  BY <3>1, ConcatSimplifications
  <2> HIDE DEF l
  <2>10. l \o Books(Logged') = Books(engine')  BY <2>2, <2>7, <2>8, <2>9 DEF l
  <2>11. snapshot' = snapshot  BY DEF saveVars
  <2>12. QED  BY <1>2, <2>2, <2>4, <2>5, <2>10, <2>11 DEF l
<1>13. AppendInv'
  <2>1. SUFFICES ASSUME trouble # "failure"
                 PROVE  open' /\ \E before \in Calls : Logged' = before \o appended'
    BY <1>2 DEF AppendInv
  <2>2. open /\ \E before \in Calls : Logged = before \o appended  BY <1>1, <2>1 DEF AppendInv
  <2>3. PICK before \in Calls : Logged = before \o appended  BY <2>2
  <2>4. before \o Append(appended, r) = Append(before \o appended, r)
    BY <1>4, ConcatSimplifications DEF Calls
  <2>5. QED  BY <1>2, <1>6, <2>2, <2>3, <2>4
<1>14. CrashLosesTail'  BY <1>2 DEF CrashLosesTail
<1>15. QED  BY <1>9, <1>10, <1>11, <1>12, <1>13, <1>14

\* A command refused for its ingress number is not logged.
LEMMA KeptByRefuseIngress ==
    ASSUME ShardInv, NEW c \in Commands, RefuseIngress(c)
    PROVE  ShardInv'
<1>1. TypeOK /\ SaveInv /\ NumberInv /\ LogInv /\ AppendInv /\ IngressInv /\ IngressOrdered
  BY DEF ShardInv
<1> DEFINE e == As(c, "reject")
<1>2. /\ pc = "idle" /\ sent < MaxCommands /\ sent' = sent + 1
      /\ engine' = Append(engine, e)
      /\ UNCHANGED saveVars
      /\ UNCHANGED <<pending, open, file, synced>>
      /\ UNCHANGED <<last, pc, restarts, appended, trouble>>
  BY DEF RefuseIngress, Send, walVars
<1>3. sent \in Nat /\ sent + 1 \in 0..MaxCommands /\ e \in Entry /\ e.type \notin OfBooks
  BY <1>1, <1>2, CommandFacts
<1> HIDE DEF e
<1>4. engine \in Calls /\ engine' \in Calls
  <2>1. engine \in Calls  BY <1>1 DEF TypeOK
  <2>2. QED  BY <1>2, <1>3, <2>1, AppendProperties DEF Calls
<1>5. Books(engine') = Books(engine) /\ Books(engine)' = Books(engine')
  <2>1. Books(engine') = Books(engine)  BY <1>2, <1>3, <1>4, BooksAppend
  <2>2. QED  BY <2>1 DEF Books
<1>6. Logged' = Logged  BY <1>2 DEF Logged, Records
<1>7. TypeOK'  BY <1>1, <1>2, <1>3, <1>4 DEF TypeOK, saveVars
<1>8. SaveInv'  BY <1>2, <1>3, SaveAfterCall
<1>9. NumberInv'
  <2>1. \A i \in 1..Len(Logged) : Logged[i].number <= sent'
    <3>1. Logged \in Seq(Entry)  BY <1>1, LoggedFacts DEF Calls
    <3>2. \A i \in 1..Len(Logged) : Logged[i] \in Entry  BY <3>1, ElementOfSeq
    <3>3. \A i \in 1..Len(Logged) : Logged[i].number \in 1..MaxCommands  BY <3>2 DEF Entry
    <3>4. MaxCommands \in Nat  BY ShardAssumption
    <3>5. QED  BY <1>1, <1>2, <1>3, <3>3, <3>4 DEF NumberInv
  <2>2. QED  BY <1>1, <1>6, <2>1 DEF NumberInv
<1>10. LogInv'
  <2>1. Books(Loaded(snapshot))' = Books(Loaded(snapshot)) /\ Books(Logged)' = Books(Logged)
    BY <1>2, <1>6 DEF Books, Loaded, saveVars
  <2>2. snapshot' = snapshot  BY <1>2 DEF saveVars
  <2>3. QED  BY <1>1, <1>2, <1>5, <2>1, <2>2 DEF LogInv, Whole
<1>11. AppendInv'  BY <1>1, <1>2, <1>6 DEF AppendInv
<1>12. IngressInv' /\ IngressOrdered'  BY <1>1, <1>2, <1>5 DEF IngressInv, IngressOrdered
<1>13. CrashLosesTail'  BY <1>2 DEF CrashLosesTail
<1>14. QED  BY <1>7, <1>8, <1>9, <1>10, <1>11, <1>12, <1>13 DEF ShardInv

\* The last ingress number stays a number.
LEMMA LastTyped ==
    ASSUME TypeOK, NEW c \in Entry, InOrder(c)
    PROVE  last' \in Int
<1>1. c.ingress \in Int \cup {NULL} /\ last \in Int  BY ShardAssumption DEF Entry, TypeOK
<1>2. QED  BY <1>1 DEF InOrder

\* A command refused by the risk check is logged as a rejection.
LEMMA KeptByRefuseRisk ==
    ASSUME ShardInv, NEW c \in Commands, RefuseRisk(c)
    PROVE  ShardInv'
<1>1. TypeOK  BY DEF ShardInv
<1> DEFINE e == As(c, "reject")
           r == As(c, "risk_reject")
<1>2. /\ pc = "idle" /\ sent < MaxCommands /\ sent' = sent + 1 /\ InOrder(c)
      /\ engine' = Append(engine, e) /\ AppendRecord(r)
      /\ UNCHANGED saveVars /\ restarts' = restarts
  BY DEF RefuseRisk, Send
<1>3. /\ c \in Entry /\ e \in Entry /\ r \in Entry /\ r.number = sent + 1
      /\ e.type \notin OfBooks /\ r.type \notin OfBooks
  BY <1>1, <1>2, CommandFacts
<1> HIDE DEF e, r
<1>4. last' \in Int  BY <1>1, <1>2, <1>3, LastTyped
<1>5. TypeOK' /\ SaveInv' /\ NumberInv' /\ LogInv' /\ AppendInv' /\ CrashLosesTail'
  BY <1>2, <1>3, <1>4, LogAfterCall
<1>6. IngressInv' /\ IngressOrdered'  BY <1>2, <1>3, IngressAfterCall
<1>7. QED  BY <1>5, <1>6 DEF ShardInv

\* A command that is executed is logged as it is.
LEMMA KeptByExecute ==
    ASSUME ShardInv, NEW c \in Commands, Execute(c)
    PROVE  ShardInv'
<1>1. TypeOK  BY DEF ShardInv
<1>2. /\ pc = "idle" /\ sent < MaxCommands /\ sent' = sent + 1 /\ InOrder(c)
      /\ engine' = Append(engine, c) /\ AppendRecord(c)
      /\ UNCHANGED saveVars /\ restarts' = restarts
  BY DEF Execute, Send
<1>3. c \in Entry /\ c.number = sent + 1  BY <1>1, <1>2, CommandFacts
<1>4. last' \in Int  BY <1>1, <1>2, <1>3, LastTyped
<1>5. TypeOK' /\ SaveInv' /\ NumberInv' /\ LogInv' /\ AppendInv' /\ CrashLosesTail'
  BY <1>2, <1>3, <1>4, LogAfterCall
<1>6. IngressInv' /\ IngressOrdered'  BY <1>2, <1>3, IngressAfterCall
<1>7. QED  BY <1>5, <1>6 DEF ShardInv

\* A group commit, of its own or as the first step of save_snapshot().
LEMMA KeptByFlush ==
    ASSUME ShardInv, Flush, UNCHANGED saveVars,
           UNCHANGED <<engine, last, sent, restarts, appended>>,
           \/ pc = "flush" /\ pc' = "idle"
           \/ pc = "save" /\ pc' = "write"
    PROVE  ShardInv'
<1>1. TypeOK /\ SaveInv /\ NumberInv /\ LogInv /\ AppendInv  BY DEF ShardInv
<1>2. /\ WriteStaged \/ WriteFails
      /\ pending' = IF open THEN <<>> ELSE pending
      /\ open' = open
  BY DEF Flush
<1>3. /\ file' \in Seq(Piece) /\ Len(file') \in Nat /\ synced' \in 0..Len(file')
      /\ trouble' \in {"none", "restart", "failure", "snapshot"}
      /\ Len(file') <= Len(Logged) /\ \A i \in 1..Len(file') : Records(file')[i] = Logged[i]
      /\ \/ trouble' = "failure"
         \/ /\ trouble' = trouble
            /\ file' = IF open THEN file \o Lines(pending) ELSE file
            /\ synced' = IF open /\ Fsync THEN Len(file') ELSE synced
  BY <1>1, <1>2, WriteFacts
<1>4. /\ file \in Seq(Piece) /\ pending \in Calls /\ Logged \in Calls
      /\ Logged = Records(file \o Lines(pending))
  BY <1>1, LoggedFacts
<1>5. <<>> \in Calls /\ Len(<<>>) = 0  BY DEF Calls
<1>6. open => Logged' = Records(file')
  <2>1. Records(file') \in Seq(Entry)  BY <1>3, RecordsFacts DEF Calls
  <2>2. Records(file') \o <<>> = Records(file')
    <3> DEFINE q == Records(file')
    <3> HIDE DEF q
    <3>1. q \in Seq(Entry)  BY <2>1 DEF q
    <3>2. q \o <<>> = q  BY <3>1, ConcatEmptySeq
    <3>3. QED  BY <3>2 DEF q
  <2>3. Records(file)' = Records(file')  BY DEF Records
  <2>4. QED  BY <1>2, <2>2, <2>3 DEF Logged
<1>7. ~open => WriteStaged  BY <1>2 DEF WriteFails
<1>8. ~open => file' = file /\ pending' = pending /\ trouble' = trouble
  BY <1>2, <1>7 DEF WriteStaged
<1>9. ~open => Logged' = Logged  BY <1>8 DEF Logged, Records
<1>10. trouble' # "failure" => Logged' = Logged
  BY <1>3, <1>4, <1>6, <1>9
<1>11. TypeOK'
  <2>1. snapshot' = snapshot /\ doc' = doc  BY DEF saveVars
  <2>2. pending' \in Calls  BY <1>2, <1>4, <1>5
  <2>3. QED  BY <1>1, <1>2, <1>3, <2>1, <2>2 DEF TypeOK, Piece
<1>12. SaveInv'  BY <1>1 DEF SaveInv, saveVars
<1>13. NumberInv'
  <2>1. CASE open
    <3>1. Len(Logged') = Len(file')  BY <1>3, <1>6, <2>1, RecordsFacts
    <3>2. \A i \in 1..Len(Logged') : Logged'[i] = Logged[i]  BY <1>3, <1>6, <2>1, <3>1
    <3>3. QED  BY <1>1, <1>3, <3>1, <3>2, NumbersShrink
  <2>2. CASE ~open  BY <1>1, <1>9, <2>2 DEF NumberInv
  <2>3. QED  BY <2>1, <2>2
<1>14. LogInv'
  <2>1. SUFFICES ASSUME trouble' = "none" PROVE LogInv'  BY DEF LogInv
  <2>2. trouble = "none" /\ Logged' = Logged  BY <1>3, <1>10, <2>1
  <2>3. /\ open /\ Whole(file) /\ pc # "truncate" /\ snapshot # DAMAGED
        /\ Books(Loaded(snapshot)) \o Books(Logged) = Books(engine)
    BY <1>1, <2>2 DEF LogInv
  <2>4. Batch \in Nat \ {0}  BY ShardAssumption
  <2>5. pending' = <<>> /\ Len(pending') < Batch /\ Len(pending') <= Batch
    BY <1>2, <1>5, <2>3, <2>4
  <2>6. file' = file \o Lines(pending) /\ (Fsync => synced' = Len(file'))  BY <1>3, <2>1, <2>3
  <2>7. Whole(file')  BY <1>4, <2>3, <2>6, WrittenFacts
  <2>8. Books(Loaded(snapshot)) = Books(Loaded(snapshot))' /\ Books(Logged)' = Books(Logged)
        /\ Books(engine)' = Books(engine) /\ Whole(file)' = Whole(file')
    BY <2>2 DEF Books, Loaded, saveVars, Whole
  <2>9. snapshot' = snapshot  BY DEF saveVars
  <2>10. QED  BY <1>2, <2>3, <2>5, <2>6, <2>7, <2>8, <2>9 DEF LogInv
<1>15. AppendInv'
  <2>1. trouble' # "failure" => trouble # "failure"  BY <1>3
  <2>2. QED  BY <1>1, <1>2, <1>10, <2>1 DEF AppendInv
<1>16. IngressInv' /\ IngressOrdered' /\ CrashLosesTail'  BY Quiet
<1>17. QED  BY <1>11, <1>12, <1>13, <1>14, <1>15, <1>16 DEF ShardInv

\* The steps of a save that leave log and engine alone.
LEMMA KeptBySave ==
    ASSUME ShardInv, \/ ReplayShard \/ SaveBegin \/ SaveFails \/ SaveWrite \/ SaveWriteFails
                     \/ SaveRename \/ TruncateFails
    PROVE  ShardInv'
<1>1. TypeOK /\ SaveInv /\ NumberInv /\ LogInv /\ AppendInv  BY DEF ShardInv
<1>2. UNCHANGED <<pending, file, synced, engine, last, sent, restarts, appended>>
  BY DEF ReplayShard, SaveBegin, SaveFails, SaveWrite, SaveWriteFails, SaveRename, TruncateFails,
         walVars
<1>3. pc \in {"idle", "write", "rename", "truncate"}
      /\ pc' \in {"flush", "save", "idle", "rename", "truncate"}
  BY DEF ReplayShard, SaveBegin, SaveFails, SaveWrite, SaveWriteFails, SaveRename, TruncateFails
<1>4. Logged' = Logged /\ NumberInv'  BY <1>2, SameLog
<1>5. IngressInv' /\ IngressOrdered' /\ CrashLosesTail'  BY <1>2, <1>3, Quiet
<1>6. engine \notin Unreadable /\ engine \in Calls /\ NULL \in Unreadable
  BY <1>1, ShardAssumption DEF TypeOK, Unreadable
<1>7. Books(engine)' = Books(engine) /\ Books(Logged)' = Books(Logged) /\ Whole(file)' = Whole(file)
  BY <1>2, <1>4 DEF Books, Whole
<1>8. IsPrefix(engine, engine)
  <2>1. engine \in Seq(Entry)  BY <1>6 DEF Calls
  <2>2. Len(engine) <= Len(engine)  BY <2>1, LenProperties
  <2>3. QED  BY <2>2 DEF IsPrefix
<1>9. Unreadable' = Unreadable  BY DEF Unreadable
<1>10. CASE TruncateFails
  <2>1. pc = "truncate" /\ pc' = "idle" /\ trouble' = "failure" /\ open' = FALSE /\ UNCHANGED saveVars
    BY <1>10 DEF TruncateFails
  <2>2. TypeOK'  BY <1>1, <1>2, <1>9, <2>1 DEF TypeOK, saveVars
  <2>3. SaveInv'  BY <1>1, <1>2, <1>8, <1>9, <2>1 DEF SaveInv, saveVars
  <2>4. LogInv' /\ AppendInv'  BY <2>1 DEF LogInv, AppendInv
  <2>5. QED  BY <1>4, <1>5, <2>2, <2>3, <2>4 DEF ShardInv
<1>11. CASE SaveRename
  <2>1. /\ pc = "rename" /\ snapshot' = doc /\ doc' = NULL /\ pc' = "truncate" /\ open' = open
        /\ trouble' = IF doc = engine \/ trouble # "none" THEN trouble ELSE "snapshot"
    BY <1>11 DEF SaveRename, walVars
  <2>2. doc \in Unreadable \cup {engine}  BY <1>1 DEF SaveInv
  <2>3. TypeOK'
    <3>1. trouble' \in {"none", "restart", "failure", "snapshot"}  BY <1>1, <2>1 DEF TypeOK
    <3>2. snapshot' \in Calls \cup Unreadable /\ doc' \in Calls \cup Unreadable
      BY <1>1, <1>6, <2>1 DEF TypeOK
    <3>3. QED  BY <1>1, <1>2, <1>9, <2>1, <3>1, <3>2 DEF TypeOK
  <2>4. SaveInv'  BY <1>1, <1>2, <1>6, <1>8, <1>9, <2>1, <2>2 DEF SaveInv
  <2>5. trouble' = "none" => trouble = "none" /\ doc = engine  BY <2>1
  <2>6. trouble' # "failure" => trouble # "failure"  BY <2>1
  <2>7. AppendInv'  BY <1>1, <1>2, <1>3, <1>4, <2>1, <2>6 DEF AppendInv
  <2>8. snapshot' = engine => snapshot' # DAMAGED  BY <1>6 DEF Unreadable
  <2>9. LogInv'  BY <1>1, <1>2, <1>3, <1>7, <2>1, <2>5, <2>8 DEF LogInv
  <2>10. QED  BY <1>4, <1>5, <2>3, <2>4, <2>7, <2>9 DEF ShardInv
<1>12. CASE ~TruncateFails /\ ~SaveRename
  <2>1. open' = open /\ trouble' = trouble /\ snapshot' = snapshot /\ pc # "truncate" /\ pc' # "truncate"
    BY <1>12 DEF ReplayShard, SaveBegin, SaveFails, SaveWrite, SaveWriteFails, walVars, saveVars
  <2>2. AppendInv'  BY <1>1, <1>2, <1>3, <1>4, <2>1 DEF AppendInv
  <2>3. TypeOK' /\ SaveInv'
    <3>1. CASE ReplayShard
      BY <1>1, <1>2, <1>6, <1>9, <2>1, <3>1 DEF ReplayShard, TypeOK, SaveInv, saveVars
    <3>2. CASE SaveBegin
      BY <1>1, <1>2, <1>6, <1>9, <2>1, <3>2 DEF SaveBegin, TypeOK, SaveInv
    <3>3. CASE SaveFails
      BY <1>1, <1>2, <1>6, <1>9, <2>1, <3>3 DEF SaveFails, TypeOK, SaveInv
    <3>4. CASE SaveWrite
      <4>1. doc \notin Unreadable
        <5>1. doc \in Calls  BY <1>1, <3>4 DEF SaveWrite, TypeOK
        <5>2. QED  BY <5>1, ShardAssumption DEF Unreadable
      <4>2. QED  BY <1>1, <1>2, <1>9, <2>1, <3>4, <4>1 DEF SaveWrite, TypeOK, SaveInv, saveVars
    <3>5. CASE SaveWriteFails
      BY <1>1, <1>2, <1>9, <2>1, <3>5 DEF SaveWriteFails, TypeOK, SaveInv
    <3>6. QED  BY <1>12, <3>1, <3>2, <3>3, <3>4, <3>5
  <2>4. LogInv'
    <3>1. SUFFICES ASSUME trouble = "none" PROVE LogInv'  BY <2>1 DEF LogInv
    <3>2. /\ open /\ Whole(file) /\ (Fsync => synced = Len(file)) /\ snapshot # DAMAGED
          /\ Len(pending) <= Batch /\ (pc # "flush" => Len(pending) < Batch)
          /\ Books(Loaded(snapshot)) \o Books(Logged) = Books(engine)
      BY <1>1, <1>3, <2>1, <3>1 DEF LogInv
    <3>3. Len(pending) < Batch  BY <1>3, <3>2
    <3>4. Books(Loaded(snapshot))' \o Books(Logged)' = Books(engine)'
      <4>1. Books(Loaded(snapshot))' = Books(Loaded(snapshot))  BY <2>1 DEF Books, Loaded, Unreadable
      <4>2. QED  BY <1>7, <3>2, <4>1
    <3>5. QED  BY <1>2, <1>7, <2>1, <3>2, <3>3, <3>4 DEF LogInv
  <2>5. QED  BY <1>4, <1>5, <2>2, <2>3, <2>4 DEF ShardInv
<1>13. QED  BY <1>10, <1>11, <1>12

\* The log that a snapshot supersedes is dropped.
LEMMA KeptBySaveTruncate ==
    ASSUME ShardInv, SaveTruncate
    PROVE  ShardInv'
<1>1. TypeOK /\ SaveInv  BY DEF ShardInv
<1>2. /\ pc = "truncate" /\ open' = TRUE /\ file' = <<>> /\ synced' = 0 /\ pending' = <<>>
      /\ appended' = <<>> /\ pc' = "idle"
      /\ trouble' = IF snapshot = engine THEN "none" ELSE "snapshot"
      /\ UNCHANGED saveVars /\ UNCHANGED <<engine, last, sent, restarts>>
  BY DEF SaveTruncate, Superseded
<1>3. <<>> \in Calls /\ <<>> \in Seq(Piece) /\ Len(<<>>) = 0 /\ <<>> \o <<>> = <<>>  BY DEF Calls
<1>4. Records(<<>>) = <<>>
  <2>1. Records(<<>>) \in Seq(Entry) /\ Len(Records(<<>>)) = 0  BY <1>3, RecordsFacts DEF Calls
  <2>2. QED  BY <2>1, EmptySeq
<1>5. Logged' = <<>>
  <2>1. Records(file)' = Records(<<>>)  BY <1>2 DEF Records
  <2>2. QED  BY <1>2, <1>3, <1>4, <2>1 DEF Logged
<1>6. engine \notin Unreadable /\ engine # DAMAGED /\ engine \in Calls
  BY <1>1, ShardAssumption DEF TypeOK, Unreadable
<1>7. Books(<<>>) = <<>> /\ Books(engine) \in Seq(Entry)
  <2>1. Books(<<>>) \in Calls /\ Len(Books(<<>>)) \in Nat /\ Len(Books(<<>>)) <= Len(<<>>)
    BY <1>3, BooksFacts
  <2>2. Len(Books(<<>>)) = 0  BY <1>3, <2>1
  <2>3. QED  BY <1>6, <2>1, <2>2, BooksFacts, EmptySeq DEF Calls
<1>8. TypeOK'  BY <1>1, <1>2, <1>3 DEF TypeOK, Piece, saveVars, Unreadable
<1>9. SaveInv'  BY <1>1, <1>2 DEF SaveInv, saveVars, Unreadable
<1>10. NumberInv'  BY <1>3, <1>5 DEF NumberInv
<1>11. LogInv'
  <2>0. SUFFICES ASSUME snapshot = engine PROVE LogInv'  BY <1>2 DEF LogInv
  <2>1. Books(Loaded(snapshot))' = Books(engine) /\ Books(Logged)' = <<>> /\ Books(engine)' = Books(engine)
    BY <1>2, <1>5, <1>6, <1>7, <2>0 DEF Books, Loaded, saveVars, Unreadable
  <2>2. Books(engine) \o <<>> = Books(engine)
    <3> DEFINE b == Books(engine)
    <3> HIDE DEF b
    <3>1. b \in Seq(Entry)  BY <1>7 DEF b
    <3>2. b \o <<>> = b  BY <3>1, ConcatEmptySeq
    <3>3. QED  BY <3>2 DEF b
  <2>3. Batch \in Nat \ {0}  BY ShardAssumption
  <2>4. Whole(file)'  BY <1>2, <1>3 DEF Whole
  <2>5. (snapshot # DAMAGED)'  BY <1>2, <1>6, <2>0 DEF saveVars
  <2>6. QED  BY <1>2, <1>3, <2>1, <2>2, <2>3, <2>4, <2>5 DEF LogInv
<1>12. AppendInv'  BY <1>2, <1>3, <1>5 DEF AppendInv
<1>13. IngressInv' /\ IngressOrdered' /\ CrashLosesTail'  BY <1>2, Quiet
<1>14. QED  BY <1>8, <1>9, <1>10, <1>11, <1>12, <1>13 DEF ShardInv

\* The end of a process: what has to be seen to is the file it leaves.
LEMMA KeptByGone ==
    ASSUME ShardInv, pc # "down", Gone,
           file' \in Seq(Piece), Len(file') \in Nat, synced' \in 0..Len(file'),
           trouble' \in {"none", "restart", "failure", "snapshot"},
           Len(file') <= Len(Logged), \A i \in 1..Len(file') : Records(file')[i] = Logged[i],
           CrashLosesTail'
    PROVE  ShardInv'
<1>1. TypeOK /\ SaveInv /\ NumberInv /\ IngressOrdered  BY DEF ShardInv
<1>2. /\ pc' = "down" /\ pending' = <<>> /\ open' = FALSE /\ last' = 0 /\ doc' = NULL
      /\ UNCHANGED <<engine, snapshot, sent, restarts, appended>>
  BY DEF Gone
<1>3. Logged' = Records(file')
  <2> DEFINE q == Records(file')
  <2>1. q \in Seq(Entry)  BY RecordsFacts DEF Calls
  <2>2. Records(file)' = q  BY DEF Records
  <2> HIDE DEF q
  <2>3. q \o <<>> = q  BY <2>1, ConcatEmptySeq
  <2>4. QED  BY <1>2, <2>2, <2>3 DEF Logged, q
<1>4. Len(Logged') = Len(file')  BY <1>3, RecordsFacts
<1>5. NumberInv'  BY <1>1, <1>2, <1>3, <1>4, NumbersShrink
<1>6. <<>> \in Calls  BY DEF Calls
<1>7. TypeOK'
  <2>1. (last \in Int)'  BY <1>2
  <2>2. doc' = NULL /\ ~(pc' \in {"save", "write", "rename"})  BY <1>2
  <2>3. pc' \in {"idle", "flush", "save", "write", "rename", "truncate", "down", "boot"}  BY <1>2
  <2>4. (open \in BOOLEAN)'  BY <1>2, Zenon
  <2>5. QED  BY <1>1, <1>2, <1>6, <2>1, <2>2, <2>3, <2>4 DEF TypeOK, Piece, Unreadable
<1>8. SaveInv' /\ LogInv' /\ AppendInv' /\ IngressInv'
  BY <1>2 DEF SaveInv, LogInv, AppendInv, IngressInv, Unreadable
<1>9. IngressOrdered'
  <2>1. Books(engine)' = Books(engine)  BY <1>2 DEF Books
  <2>2. QED  BY <1>1, <1>2, <2>1 DEF IngressOrdered
<1>10. QED  BY <1>5, <1>7, <1>8, <1>9 DEF ShardInv

\* close() and the destructor write what is staged.
LEMMA KeptByClose ==
    ASSUME ShardInv, Close
    PROVE  ShardInv'
<1>1. TypeOK /\ LogInv  BY DEF ShardInv
<1>2. pc = "idle" /\ Gone /\ (WriteStaged \/ WriteFails)  BY DEF Close
<1>3. /\ file' \in Seq(Piece) /\ Len(file') \in Nat /\ synced' \in 0..Len(file')
      /\ trouble' \in {"none", "restart", "failure", "snapshot"}
      /\ Len(file') <= Len(Logged) /\ \A i \in 1..Len(file') : Records(file')[i] = Logged[i]
      /\ \/ trouble' = "failure"
         \/ trouble' = trouble /\ file' = IF open THEN file \o Lines(pending) ELSE file
  BY <1>1, <1>2, WriteFacts
<1>4. CrashLosesTail'
  <2>1. SUFFICES ASSUME trouble' = "none" PROVE CrashLosesTail'  BY DEF CrashLosesTail
  <2>2. trouble = "none" /\ open /\ Whole(file)  BY <1>1, <1>2, <1>3, <2>1 DEF LogInv
  <2>3. file' = file \o Lines(pending)  BY <1>3, <2>1, <2>2
  <2>4. /\ file \in Seq(Piece) /\ Len(file) \in Nat /\ pending \in Calls /\ Len(pending) \in Nat
        /\ Logged \in Seq(Entry) /\ Len(Logged) = Len(file) + Len(pending)
        /\ Logged = Records(file \o Lines(pending))
    BY <1>1, LoggedFacts DEF Calls
  <2>5. Whole(file')  BY <2>2, <2>3, <2>4, WrittenFacts
  <2>6. ReplayCommands(file') = Logged  BY <1>3, <2>3, <2>4, <2>5, ReplayWhole
  <2>7. ReplayCommands(file') = SubSeq(Logged, 1, Len(Logged))  BY <2>4, <2>6, SubSeqFull
  <2>8. Len(Logged) \in Len(file)..Len(Logged)  BY <2>4
  <2>9. /\ IsPrefix(Books(Rebuilt(snapshot, file')), Books(engine))
        /\ Len(Books(engine)) - Len(Books(Rebuilt(snapshot, file'))) <= Batch
    BY <1>2, <2>2, <2>7, <2>8, TailLost
  <2>10. Books(Rebuilt(snapshot, file))' = Books(Rebuilt(snapshot, file')) /\ Books(engine)' = Books(engine)
    BY <1>2 DEF Gone, Books, Rebuilt, Loaded
  <2>11. QED  BY <2>9, <2>10 DEF CrashLosesTail
<1>5. QED  BY <1>2, <1>3, <1>4, KeptByGone

\* The process dies, with a flush under way or not.
LEMMA KeptByCrash ==
    ASSUME ShardInv, Crash
    PROVE  ShardInv'
<1>1. TypeOK /\ SaveInv /\ LogInv  BY DEF ShardInv
<1> DEFINE l == file \o Lines(pending)
           w == IF pc \in {"flush", "save"} /\ open THEN l ELSE file
           safe == IF PowerLoss THEN synced ELSE Len(file)
<1>2. /\ pc # "down" /\ Gone /\ file' \in Cut(w, safe) /\ synced' = Len(file')
      /\ trouble' = trouble
  BY ShardAssumption DEF Crash
<1>3. /\ file \in Seq(Piece) /\ Len(file) \in Nat /\ pending \in Calls /\ Len(pending) \in Nat
      /\ Logged \in Seq(Entry) /\ Len(Logged) = Len(file) + Len(pending)
      /\ Logged = Records(l) /\ Records(file) = SubSeq(Logged, 1, Len(file))
  BY <1>1, LoggedFacts DEF Calls
<1>4. l \in Seq(Piece) /\ Len(l) = Len(file) + Len(pending) /\ (Whole(file) => Whole(l))
  BY <1>3, WrittenFacts
<1>5. synced \in 0..Len(file) /\ trouble \in {"none", "restart", "failure", "snapshot"}  BY <1>1 DEF TypeOK
<1> HIDE DEF l
<1>6. /\ w \in Seq(Piece) /\ Len(w) \in Nat /\ Len(w) >= Len(file) /\ Len(w) <= Len(Logged)
      /\ (Whole(file) => Whole(w))
  BY <1>3, <1>4
<1>7. safe \in 0..Len(w)  BY <1>3, <1>5, <1>6
<1>8. \A i \in 1..Len(file) : SubSeq(Logged, 1, Len(file))[i] = Logged[i]
  <2>1. \A i \in 1..Len(file) : i \in 1..Len(Logged)  BY <1>3
  <2>2. \A i \in 1..Len(file) : Logged[i] \in Entry  BY <1>3, <2>1, ElementOfSeq
  <2>3. QED  BY <1>3, <2>2, SubSeqProperties
<1>9. \A i \in 1..Len(w) : Records(w)[i] = Logged[i]  BY <1>3, <1>8
<1>10. w = l \/ w = file  OBVIOUS
<1> HIDE DEF w, safe
<1>11. /\ file' \in Seq(Piece) /\ Len(file') \in safe..Len(w)
       /\ \A i \in 1..Len(file') : file'[i].record = w[i].record
  BY <1>2, <1>6, <1>7, CutFacts
<1>12. Len(file') \in Nat /\ Len(file') <= Len(Logged) /\ synced' \in 0..Len(file')
       /\ Len(file') <= Len(w)
  BY <1>2, <1>3, <1>6, <1>7, <1>11
<1>13. ASSUME NEW i \in 1..Len(file') PROVE Records(file')[i] = Logged[i]
  <2>1. i \in 1..Len(w)  BY <1>6, <1>12
  <2>2. Records(w)[i] = w[i].record  BY <1>6, <2>1, RecordsFacts
  <2>3. Records(file')[i] = file'[i].record  BY <1>11, RecordsFacts
  <2>4. QED  BY <1>9, <1>11, <2>1, <2>2, <2>3
<1>14. Books(Rebuilt(snapshot, file))' = Books(Rebuilt(snapshot, file')) /\ Books(engine)' = Books(engine)
       /\ snapshot' = snapshot /\ engine' = engine
  BY <1>2 DEF Gone, Books, Rebuilt, Loaded
<1>15. CrashLosesTail'
  <2>1. SUFFICES ASSUME trouble = "none", PowerLoss => Fsync PROVE CrashLosesTail'
    BY <1>2 DEF CrashLosesTail
  <2>2. CASE pc = "truncate"
    <3>1. snapshot = engine  BY <1>1, <2>1, <2>2 DEF SaveInv
    <3>2. QED  BY <1>14, <3>1 DEF CrashLosesTail
  <2>3. CASE pc # "truncate"
    <3>1. Whole(file) /\ (Fsync => synced = Len(file))  BY <1>1, <1>2, <2>1 DEF LogInv
    <3>2. safe = Len(file)  BY <2>1, <3>1 DEF safe
    <3>3. PICK m \in safe..Len(w) : ReplayCommands(file') = SubSeq(Records(w), 1, m)
      BY <1>2, <1>6, <1>7, <3>1, ReplayCut
    <3>4. m \in Len(file)..Len(Logged)  BY <1>3, <1>6, <3>2
    <3>5. ReplayCommands(file') = SubSeq(Logged, 1, m)
      <4>1. CASE w = l  BY <1>3, <3>3, <4>1
      <4>2. CASE w = file
        <5>1. m = Len(file)  BY <1>3, <3>2, <4>2
        <5>2. Records(file) \in Seq(Entry) /\ Len(Records(file)) = Len(file)
          BY <1>3, RecordsFacts DEF Calls
        <5>3. SubSeq(Records(file), 1, Len(file)) = Records(file)
          <6> DEFINE q == Records(file)
          <6> HIDE DEF q
          <6>1. q \in Seq(Entry) /\ Len(q) = Len(file)  BY <5>2 DEF q
          <6>2. SubSeq(q, 1, Len(q)) = q  BY <6>1, SubSeqFull
          <6>3. QED  BY <6>1, <6>2 DEF q
        <5>4. QED  BY <1>3, <3>3, <4>2, <5>1, <5>3
      <4>3. QED  BY <1>10, <4>1, <4>2
    <3>6. /\ IsPrefix(Books(Rebuilt(snapshot, file')), Books(engine))
          /\ Len(Books(engine)) - Len(Books(Rebuilt(snapshot, file'))) <= Batch
      BY <1>2, <2>1, <2>3, <3>4, <3>5, TailLost
    <3>7. QED  BY <1>14, <3>6 DEF CrashLosesTail
  <2>4. QED  BY <2>2, <2>3
<1>16. trouble' \in {"none", "restart", "failure", "snapshot"}  BY <1>2, <1>5
<1>17. QED  BY <1>2, <1>11, <1>12, <1>13, <1>15, <1>16, KeptByGone

\* A new process starts with an empty engine and the log it finds.
LEMMA KeptByRestart ==
    ASSUME ShardInv, Restart
    PROVE  ShardInv'
<1>1. TypeOK /\ SaveInv  BY DEF ShardInv
<1>2. /\ pc = "down" /\ restarts < MaxRestarts /\ restarts' = restarts + 1
      /\ engine' = <<>> /\ open' = TRUE /\ appended' = <<>> /\ trouble' = "restart" /\ pc' = "boot"
      /\ UNCHANGED <<last, pending, file, synced, sent>> /\ UNCHANGED saveVars
  BY DEF Restart
<1>3. snapshot' = snapshot /\ doc' = doc /\ doc = NULL /\ pending = <<>>
  BY <1>1, <1>2 DEF saveVars, TypeOK, SaveInv
<1>4. restarts' \in 0..MaxRestarts /\ restarts' > 0  BY <1>1, <1>2, ShardAssumption DEF TypeOK
<1>5. <<>> \in Calls  BY DEF Calls
<1>6. TypeOK'  BY <1>1, <1>2, <1>3, <1>4, <1>5 DEF TypeOK, Unreadable
<1>7. SaveInv'  BY <1>2, <1>3, <1>4 DEF SaveInv, Unreadable
<1>8. Logged' = Logged /\ NumberInv'  BY <1>2, SameLog
<1>9. LogInv'  BY <1>2 DEF LogInv
<1>10. AppendInv'
  <2>1. Logged \in Calls  BY <1>1, LoggedFacts
  <2>2. Logged \o <<>> = Logged
    <3> DEFINE q == Logged
    <3> HIDE DEF q
    <3>1. q \in Seq(Entry)  BY <2>1 DEF q, Calls
    <3>2. q \o <<>> = q  BY <3>1, ConcatEmptySeq
    <3>3. QED  BY <3>2 DEF q
  <2>3. QED  BY <1>2, <1>8, <2>1, <2>2 DEF AppendInv
<1>11. IngressInv' /\ IngressOrdered'  BY <1>4 DEF IngressInv, IngressOrdered
<1>12. CrashLosesTail'  BY <1>2 DEF CrashLosesTail
<1>13. QED  BY <1>6, <1>7, <1>8, <1>9, <1>10, <1>11, <1>12 DEF ShardInv

\* restore_from_snapshots() makes the engine what the snapshot is.
LEMMA KeptByRestore ==
    ASSUME ShardInv, RestoreFromSnapshots
    PROVE  ShardInv'
<1>1. TypeOK /\ SaveInv /\ AppendInv  BY DEF ShardInv
<1>2. /\ pc = "boot" /\ snapshot # DAMAGED /\ engine' = Loaded(snapshot) /\ pc' = "idle"
      /\ UNCHANGED walVars /\ UNCHANGED saveVars
      /\ UNCHANGED <<last, sent, restarts, appended, trouble>>
  BY DEF RestoreFromSnapshots
<1>3. UNCHANGED <<pending, open, file, synced>> /\ snapshot' = snapshot /\ doc' = doc
  BY <1>2 DEF walVars, saveVars
<1>4. doc = NULL /\ trouble = "restart" /\ restarts > 0  BY <1>1, <1>2 DEF TypeOK, SaveInv
<1>5. engine' \in Calls
  <2>1. <<>> \in Calls  BY DEF Calls
  <2>2. QED  BY <1>1, <1>2, <2>1 DEF TypeOK, Loaded, Unreadable
<1>6. TypeOK'  BY <1>1, <1>2, <1>3, <1>4, <1>5 DEF TypeOK
<1>7. snapshot \notin Unreadable => IsPrefix(snapshot, engine')
  <2>1. SUFFICES ASSUME snapshot \notin Unreadable PROVE IsPrefix(snapshot, snapshot)
    BY <1>2 DEF Loaded
  <2>2. snapshot \in Seq(Entry)  BY <1>1, <2>1 DEF TypeOK, Calls
  <2>3. Len(snapshot) <= Len(snapshot)  BY <2>2, LenProperties
  <2>4. QED  BY <2>3 DEF IsPrefix
<1>8. SaveInv'
  <2>1. Unreadable' = Unreadable /\ NULL \in Unreadable  BY DEF Unreadable
  <2>2. QED  BY <1>2, <1>3, <1>4, <1>7, <2>1 DEF SaveInv
<1>9. Logged' = Logged /\ NumberInv'  BY <1>2, <1>3, SameLog
<1>10. LogInv'  BY <1>2, <1>4 DEF LogInv
<1>11. AppendInv'  BY <1>1, <1>2, <1>3, <1>9 DEF AppendInv
<1>12. restarts' # 0  BY <1>1, <1>2, <1>4 DEF TypeOK
<1>13. IngressInv' /\ IngressOrdered'  BY <1>12 DEF IngressInv, IngressOrdered
<1>14. CrashLosesTail'  BY <1>2 DEF CrashLosesTail
<1>15. QED  BY <1>6, <1>8, <1>9, <1>10, <1>11, <1>13, <1>14 DEF ShardInv

\* A start that fails leaves the files as it found them.
LEMMA KeptByRestoreThrows ==
    ASSUME ShardInv, RestoreThrows
    PROVE  ShardInv'
<1>1. TypeOK /\ SaveInv  BY DEF ShardInv
<1>2. pc = "boot" /\ Gone /\ file' = file /\ synced' = synced /\ trouble' = trouble
  BY DEF RestoreThrows
<1>3. /\ file \in Seq(Piece) /\ Len(file) \in Nat /\ Len(pending) \in Nat
      /\ Logged \in Seq(Entry) /\ Len(Logged) = Len(file) + Len(pending)
      /\ Records(file) = SubSeq(Logged, 1, Len(file))
  BY <1>1, LoggedFacts DEF Calls
<1>4. Len(file) <= Len(Logged)  BY <1>3
<1>5. ASSUME NEW i \in 1..Len(file) PROVE Records(file)[i] = Logged[i]
  <2>1. \A j \in 1..Len(file) : j \in 1..Len(Logged)  BY <1>3
  <2>2. \A j \in 1..Len(file) : Logged[j] \in Entry  BY <1>3, <2>1, ElementOfSeq
  <2>3. SubSeq(Logged, 1, Len(file))[i] = Logged[i]  BY <1>3, <2>2, SubSeqProperties
  <2>4. QED  BY <1>3, <2>3
<1>6. synced \in 0..Len(file) /\ trouble = "restart"  BY <1>1, <1>2 DEF TypeOK, SaveInv
<1>7. CrashLosesTail'  BY <1>2, <1>6 DEF CrashLosesTail
<1>8. QED  BY <1>2, <1>3, <1>4, <1>5, <1>6, <1>7, KeptByGone

\* Every step keeps the invariant.
LEMMA ShardInvNext == ShardInv /\ [Next]_vars => ShardInv'
<1> SUFFICES ASSUME ShardInv, [Next]_vars PROVE ShardInv'  OBVIOUS
<1>1. ASSUME NEW c \in Commands, RefuseIngress(c) PROVE ShardInv'  BY <1>1, KeptByRefuseIngress
<1>2. ASSUME NEW c \in Commands, RefuseRisk(c) PROVE ShardInv'  BY <1>2, KeptByRefuseRisk
<1>3. ASSUME NEW c \in Commands, Execute(c) PROVE ShardInv'  BY <1>3, KeptByExecute
<1>4. CASE \/ ReplayShard \/ SaveBegin \/ SaveFails \/ SaveWrite \/ SaveWriteFails
           \/ SaveRename \/ TruncateFails
  BY <1>4, KeptBySave
<1>5. CASE GroupCommit
  <2>1. Flush /\ pc = "flush" /\ pc' = "idle" /\ UNCHANGED saveVars
        /\ UNCHANGED <<engine, last, sent, restarts, appended>>
    BY <1>5 DEF GroupCommit
  <2>2. QED  BY <2>1, KeptByFlush
<1>6. CASE SaveFlush
  <2>1. Flush /\ pc = "save" /\ pc' = "write" /\ UNCHANGED saveVars
        /\ UNCHANGED <<engine, last, sent, restarts, appended>>
    BY <1>6 DEF SaveFlush
  <2>2. QED  BY <2>1, KeptByFlush
<1>7. CASE SaveTruncate  BY <1>7, KeptBySaveTruncate
<1>8. CASE Close  BY <1>8, KeptByClose
<1>9. CASE Crash  BY <1>9, KeptByCrash
<1>10. CASE Restart  BY <1>10, KeptByRestart
<1>11. CASE RestoreFromSnapshots  BY <1>11, KeptByRestore
<1>12. CASE RestoreThrows  BY <1>12, KeptByRestoreThrows
<1>13. CASE UNCHANGED vars
  <2>1. /\ UNCHANGED <<engine, last, pending, open, file, synced, snapshot>>
        /\ UNCHANGED <<doc, pc, sent, restarts, appended, trouble>>
    BY <1>13 DEF vars
  <2>2. Logged' = Logged /\ Books(engine)' = Books(engine) /\ Whole(file)' = Whole(file)
        /\ Books(Loaded(snapshot))' = Books(Loaded(snapshot)) /\ Books(Logged)' = Books(Logged)
        /\ Books(Rebuilt(snapshot, file))' = Books(Rebuilt(snapshot, file))
    BY <2>1 DEF Logged, Records, Books, Whole, Loaded, Unreadable, Rebuilt
  <2>3. TypeOK'  BY <2>1 DEF ShardInv, TypeOK, Unreadable
  <2>4. SaveInv'  BY <2>1 DEF ShardInv, SaveInv, Unreadable
  <2>5. NumberInv'  BY <2>1, <2>2 DEF ShardInv, NumberInv
  <2>6. LogInv'  BY <2>1, <2>2 DEF ShardInv, LogInv
  <2>7. AppendInv'  BY <2>1, <2>2 DEF ShardInv, AppendInv
  <2>8. IngressInv' /\ IngressOrdered'  BY <2>1, <2>2 DEF ShardInv, IngressInv, IngressOrdered
  <2>9. CrashLosesTail'  BY <2>1, <2>2 DEF ShardInv, CrashLosesTail
  <2>10. QED  BY <2>3, <2>4, <2>5, <2>6, <2>7, <2>8, <2>9 DEF ShardInv
<1>14. QED
  BY <1>1, <1>2, <1>3, <1>4, <1>5, <1>6, <1>7, <1>8, <1>9, <1>10, <1>11, <1>12, <1>13 DEF Next

-----------------------------------------------------------------------------
(***************************************************************************)
(* The theorems.                                                           *)
(***************************************************************************)
\* The invariant, for every behaviour.
THEOREM Invariance == Spec => []ShardInv
<1>1. QED  BY ShardInvInit, ShardInvNext, PTL DEF Spec

\* Every variable keeps its type, and there is a document or its temporary file
\* only between snapshot() and rename().
THEOREM TypeCorrect == Spec => []TypeOK
<1>1. ShardInv => TypeOK  BY DEF ShardInv
<1>2. QED  BY <1>1, Invariance, PTL

\* Snapshot, file and staged records rebuild the books of the live engine at
\* every step of a process in which nothing failed, whatever the batch.
THEOREM RebuildsEngine == Spec => []Recoverable
<1>1. ShardInv => Recoverable
  <2>1. SUFFICES ASSUME ShardInv, trouble = "none",
                        pc \in {"idle", "flush", "save", "write", "rename"}
                 PROVE  /\ snapshot # DAMAGED
                        /\ Books(Rebuilt(snapshot, file \o Lines(pending))) = Books(engine)
    BY DEF Recoverable
  <2>2. TypeOK /\ LogInv  BY <2>1 DEF ShardInv
  <2> DEFINE w == file \o Lines(pending)
  <2>3. /\ file \in Seq(Piece) /\ Len(file) \in Nat /\ pending \in Calls /\ Len(pending) \in Nat
        /\ Logged \in Seq(Entry) /\ Len(Logged) = Len(file) + Len(pending) /\ Logged = Records(w)
    BY <2>2, LoggedFacts DEF Calls
  <2>4. Whole(file) /\ snapshot # DAMAGED  BY <2>1, <2>2 DEF LogInv
  <2>5. w \in Seq(Piece) /\ Whole(w)  BY <2>3, <2>4, WrittenFacts
  <2> HIDE DEF w
  <2>6. ReplayCommands(w) = Logged  BY <2>3, <2>5, ReplayWhole
  <2>7. ReplayCommands(w) = SubSeq(Logged, 1, Len(Logged))  BY <2>3, <2>6, SubSeqFull
  <2>8. Len(Logged) \in Len(file)..Len(Logged)  BY <2>3
  <2>9. Books(Rebuilt(snapshot, w)) = Books(engine)  BY <2>1, <2>7, <2>8, TailLost
  <2>10. QED  BY <2>4, <2>9 DEF w
<1>2. QED  BY <1>1, Invariance, PTL

\* A crash at any point loses at most one group commit off the end.
THEOREM CrashBounded == Spec => []CrashLosesTail
<1>1. ShardInv => CrashLosesTail  BY DEF ShardInv
<1>2. QED  BY <1>1, Invariance, PTL

\* Until a restart, nothing is executed twice or behind a later ingress number.
THEOREM IngressInOrder == Spec => []IngressOrdered
<1>1. ShardInv => IngressOrdered  BY DEF ShardInv
<1>2. QED  BY <1>1, Invariance, PTL

\* What this process appended is what a replay reads last.
THEOREM AppendedIsReplayed == Spec => []AppendedReplayed
<1>1. ShardInv => AppendedReplayed
  <2>1. SUFFICES ASSUME ShardInv, trouble # "failure",
                        \A i \in DOMAIN file : file[i].form = "full", pc # "down"
                 PROVE  IsSuffix(appended, ReplayCommands(file \o Lines(pending)))
    BY DEF AppendedReplayed
  <2>2. TypeOK /\ AppendInv  BY <2>1 DEF ShardInv
  <2> DEFINE w == file \o Lines(pending)
  <2>3. file \in Seq(Piece) /\ pending \in Calls /\ Logged = Records(w)  BY <2>2, LoggedFacts
  <2>4. DOMAIN file = 1..Len(file)  BY <2>3, LenProperties
  <2>5. Whole(file)  BY <2>1, <2>4 DEF Whole
  <2>6. w \in Seq(Piece) /\ Whole(w)  BY <2>3, <2>5, WrittenFacts
  <2> HIDE DEF w
  <2>7. ReplayCommands(w) = Logged  BY <2>3, <2>6, ReplayWhole
  <2>8. PICK before \in Calls : Logged = before \o appended  BY <2>1, <2>2 DEF AppendInv
  <2>9. before \in Seq(Entry) /\ appended \in Seq(Entry)  BY <2>2 DEF TypeOK, Calls
  <2>10. IsSuffix(appended, before \o appended)  BY <2>9, SuffixOfConcat
  <2>11. QED  BY <2>7, <2>8, <2>10 DEF w
<1>2. QED  BY <1>1, Invariance, PTL

\* A replay never reorders or repeats, however the log was torn.
THEOREM ReplayNeverReorders == Spec => []ReplayInOrder
<1>1. ShardInv => ReplayInOrder
  <2>1. SUFFICES ASSUME ShardInv PROVE ReplayInOrder  OBVIOUS
  <2>2. TypeOK /\ NumberInv  BY <2>1 DEF ShardInv
  <2> DEFINE s == Records(file)
             I == {i \in DOMAIN file : Valid(file, i) /\ \A j \in 1..i : ~Corrupt(file, j)}
             k == Kept(s, I)
  <2>3. /\ file \in Seq(Piece) /\ Len(file) \in Nat /\ Len(pending) \in Nat
        /\ Logged \in Seq(Entry) /\ Len(Logged) = Len(file) + Len(pending)
        /\ s = SubSeq(Logged, 1, Len(file))
    BY <2>2, LoggedFacts DEF Calls
  <2>4. s \in Seq(Entry) /\ Len(s) = Len(file)  BY <2>3, RecordsFacts DEF Calls
  <2>5. \A i \in 1..Len(file) : s[i] = Logged[i] /\ i \in 1..Len(Logged)
    <3>1. \A i \in 1..Len(file) : i \in 1..Len(Logged)  BY <2>3
    <3>2. \A i \in 1..Len(file) : Logged[i] \in Entry  BY <2>3, <3>1, ElementOfSeq
    <3>3. QED  BY <2>3, <3>1, <3>2, SubSeqProperties
  <2>6. ReplayCommands(file) = k  BY DEF ReplayCommands
  <2> HIDE DEF s, I
  <2>7. k \in Seq(Entry)  BY <2>4, KeptType
  <2>8. \E p \in [1..Len(k) -> 1..Len(s)] :
            /\ \A j \in 1..Len(k) : p[j] \in I /\ k[j] = s[p[j]]
            /\ \A j1, j2 \in 1..Len(k) : j1 < j2 => p[j1] < p[j2]
    BY <2>4, KeptPlaces
  <2> HIDE DEF k
  <2>9. PICK p \in [1..Len(k) -> 1..Len(s)] :
            /\ \A j \in 1..Len(k) : p[j] \in I /\ k[j] = s[p[j]]
            /\ \A j1, j2 \in 1..Len(k) : j1 < j2 => p[j1] < p[j2]
    BY <2>8
  <2>10. DOMAIN k = 1..Len(k)  BY <2>7, LenProperties
  <2>11. ASSUME NEW i \in 1..Len(k), NEW j \in 1..Len(k), i < j PROVE k[i].number < k[j].number
    <3>1. p[i] \in 1..Len(file) /\ p[j] \in 1..Len(file) /\ p[i] < p[j]  BY <2>4, <2>9, <2>11
    <3>2. k[i] = Logged[p[i]] /\ k[j] = Logged[p[j]]  BY <2>5, <2>9, <3>1
    <3>3. QED  BY <2>2, <2>5, <3>1, <3>2 DEF NumberInv
  <2>12. QED  BY <2>6, <2>10, <2>11 DEF ReplayInOrder
<1>2. QED  BY <1>1, Invariance, PTL

\* A snapshot that can be loaded is only ever replaced by one that continues it, or
\* by a file that was not written whole: where no write fails, never by that.
THEOREM SnapshotsContinue == Spec => SnapshotNeverRegresses
<1>1. ASSUME ShardInv, [Next]_vars
      PROVE  [snapshot' # snapshot /\ snapshot \notin Unreadable =>
                 \/ snapshot' \notin Unreadable /\ IsPrefix(snapshot, snapshot')
                 \/ snapshot' \in Unreadable /\ "write" \in Failures]_vars
  <2>1. SUFFICES ASSUME Next, snapshot' # snapshot, snapshot \notin Unreadable
                 PROVE  \/ snapshot' \notin Unreadable /\ IsPrefix(snapshot, snapshot')
                        \/ snapshot' \in Unreadable /\ "write" \in Failures
    BY <1>1
  <2>2. SaveRename
    BY <2>1 DEF Next, RefuseIngress, RefuseRisk, Execute, ReplayShard, GroupCommit, SaveBegin,
        SaveFlush, SaveFails, SaveWrite, SaveWriteFails, SaveTruncate, TruncateFails, Close, Crash,
        Gone, Restart, RestoreFromSnapshots, RestoreThrows, saveVars
  <2>3. TypeOK /\ SaveInv  BY <1>1 DEF ShardInv
  <2>4. pc = "rename" /\ snapshot' = doc  BY <2>2 DEF SaveRename
  <2>5. CASE doc \in Unreadable  BY <2>3, <2>4, <2>5 DEF SaveInv
  <2>6. CASE doc \notin Unreadable
    <3>1. doc = engine /\ IsPrefix(snapshot, engine)  BY <2>1, <2>3, <2>4, <2>6 DEF SaveInv
    <3>2. QED  BY <2>4, <2>6, <3>1
  <2>7. QED  BY <2>5, <2>6
<1>2. QED  BY <1>1, Invariance, PTL DEF Spec, SnapshotNeverRegresses

-----------------------------------------------------------------------------
(***************************************************************************)
(* The log in bytes: hexadecimal numbers.                                  *)
(***************************************************************************)
\* The powers exist up to every bound.
LEMMA HexPowersUpTo ==
    ASSUME NEW n \in Nat
    PROVE  \E f \in [0..n -> Nat \ {0}] : f[0] = 1 /\ \A i \in 1..n : f[i] = 16 * f[i - 1]
<1> DEFINE V == Nat \ {0}
           F == [i \in 1..n |-> [x \in V |-> 16 * x]]
<1>1. F \in Steps(n, V) /\ 1 \in V  BY DEF Steps
<1>2. PICK f \in [0..n -> V] : Takes(f, n, 1, F)
  <2> HIDE DEF V, F
  <2>1. QED  BY <1>1, BoundedRecursion
<1>3. ASSUME NEW i \in 1..n PROVE f[i] = 16 * f[i - 1]
  <2>1. f[i - 1] \in V /\ f[i] = F[i][f[i - 1]]  BY <1>2 DEF Takes
  <2>2. QED  BY <2>1
<1>4. QED  BY <1>2, <1>3 DEF Takes

\* The recursive definition of HexPower has a solution, so HexPower is one.
LEMMA HexPowerUnfolds ==
    /\ HexPower[0] = 1
    /\ \A n \in Nat : HexPower[n] \in Nat \ {0} /\ HexPower[n + 1] = 16 * HexPower[n]
<1> DEFINE V == Nat \ {0}
           R(n, f) == f[0] = 1 /\ \A i \in 1..n : f[i] = 16 * f[i - 1]
           g == [n \in Nat |-> CHOOSE f \in [0..n -> V] : R(n, f)]
           p == [n \in Nat |-> g[n][n]]
<1>1. ASSUME NEW n \in Nat PROVE g[n] \in [0..n -> V] /\ R(n, g[n])
  <2>1. \E f \in [0..n -> V] : R(n, f)  BY HexPowersUpTo
  <2> HIDE DEF R, V
  <2>2. QED  BY <2>1
<1> HIDE DEF g
<1>2. ASSUME NEW n \in Nat PROVE g[n + 1][n] = g[n][n]
  <2> DEFINE a == g[n]
             c == g[n + 1]
             E == {i \in Nat : a[i] = c[i]}
  <2>1. R(n, a) /\ R(n + 1, c)
    <3>1. n + 1 \in Nat  OBVIOUS
    <3> HIDE DEF R
    <3>2. QED  BY <1>1, <3>1
  <2> HIDE DEF a, c
  <2>2. 0 \in E  BY <2>1
  <2>3. ASSUME NEW i \in 0..(n - 1), i \in E PROVE i + 1 \in E
    <3>1. i + 1 \in 1..n /\ i + 1 \in 1..(n + 1) /\ (i + 1) - 1 = i /\ a[i] = c[i]  BY <2>3
    <3>2. a[i + 1] = 16 * a[i] /\ c[i + 1] = 16 * c[i]  BY <2>1, <3>1
    <3>3. QED  BY <3>1, <3>2
  <2>4. n \in E
    <3> HIDE DEF E
    <3>1. \A i \in 0..n : i \in E  BY <2>2, <2>3, BoundedInduction
    <3>2. QED  BY <3>1
  <2>5. QED  BY <2>4 DEF a, c
<1>3. p[0] = 1 /\ \A n \in Nat : p[n] \in V /\ p[n + 1] = 16 * p[n]
  <2>1. p[0] = 1  BY <1>1
  <2>2. ASSUME NEW n \in Nat PROVE p[n] \in V /\ p[n + 1] = 16 * p[n]
    <3>1. n + 1 \in Nat /\ n + 1 \in 1..(n + 1) /\ (n + 1) - 1 = n /\ n \in 0..n  OBVIOUS
    <3>2. R(n + 1, g[n + 1])  BY <1>1, <3>1
    <3>3. g[n + 1][n + 1] = 16 * g[n + 1][n]  BY <3>1, <3>2
    <3>4. g[n] \in [0..n -> V]  BY <1>1
    <3>5. g[n][n] \in V  BY <3>1, <3>4
    <3>6. p[n] = g[n][n] /\ p[n + 1] = g[n + 1][n + 1]  BY <3>1
    <3>7. QED  BY <1>2, <3>3, <3>5, <3>6
  <2>3. QED  BY <2>1, <2>2
<1>4. p = [n \in Nat |-> IF n = 0 THEN 1 ELSE 16 * p[n - 1]]
  <2>1. ASSUME NEW n \in Nat PROVE p[n] = IF n = 0 THEN 1 ELSE 16 * p[n - 1]
    <3> HIDE DEF p
    <3>1. CASE n = 0  BY <1>3, <3>1
    <3>2. CASE n # 0
      <4>1. n - 1 \in Nat /\ (n - 1) + 1 = n  BY <3>2
      <4>2. QED  BY <1>3, <3>2, <4>1
    <3>3. QED  BY <3>1, <3>2
  <2>2. p = [n \in Nat |-> p[n]]  OBVIOUS
  <2> HIDE DEF p
  <2>3. QED  BY <2>1, <2>2
<1> HIDE DEF p
<1> DEFINE Solves(f) == f = [n \in Nat |-> IF n = 0 THEN 1 ELSE 16 * f[n - 1]]
           k == HexPower
<1>5. k = CHOOSE f : Solves(f)  BY DEF HexPower
<1> HIDE DEF k
<1>6. Solves(k)
  <2>1. Solves(p)  BY <1>4
  <2> HIDE DEF Solves
  <2>2. QED  BY <1>5, <2>1
<1>7. ASSUME NEW n \in Nat PROVE k[n] = p[n]
  <2> DEFINE E == {i \in Nat : k[i] = p[i]}
  <2>1. 0 \in E  BY <1>3, <1>6
  <2>2. ASSUME NEW i \in 0..(n - 1), i \in E PROVE i + 1 \in E
    <3>1. i + 1 \in Nat /\ i + 1 # 0 /\ (i + 1) - 1 = i /\ k[i] = p[i] /\ i \in Nat  BY <2>2
    <3>2. k[i + 1] = 16 * k[i]  BY <1>6, <3>1
    <3>3. p[i + 1] = 16 * p[i]  BY <1>3, <3>1
    <3>4. QED  BY <3>1, <3>2, <3>3
  <2>3. \A i \in 0..n : i \in E
    <3> HIDE DEF E
    <3>1. QED  BY <2>1, <2>2, BoundedInduction
  <2>4. QED  BY <2>3
<1>8. \A n \in Nat : k[n] = p[n] /\ k[n + 1] = p[n + 1]  BY <1>7
<1>9. QED  BY <1>3, <1>7, <1>8 DEF k

\* Shifting by one digit more is shifting once more by one digit.
LEMMA ShiftDigit ==
    ASSUME NEW v \in Int, NEW k \in Nat
    PROVE  v \div HexPower[k + 1] = (v \div HexPower[k]) \div 16
<1> DEFINE m == HexPower[k]
           q == v \div m
           r == v % m
           d == q \div 16
           e == q % 16
<1>1. m \in Nat \ {0} /\ HexPower[k + 1] = 16 * m  BY HexPowerUnfolds
<1> HIDE DEF m
<1>2. q \in Int /\ r \in 0..(m - 1) /\ v = m * q + r  BY <1>1, DivMod
<1> HIDE DEF q, r
<1>3. d \in Int /\ e \in 0..15 /\ q = 16 * d + e  BY <1>2, DivMod
<1> HIDE DEF d, e
<1>4. v = (16 * m) * d + (m * e + r)
  <2>1. m * q = m * (16 * d) + m * e  BY <1>1, <1>2, <1>3
  <2>2. m * (16 * d) = (16 * m) * d  BY <1>1, <1>3
  <2>3. m * (16 * d) \in Int /\ m * e \in Int  BY <1>1, <1>3
  <2>4. QED  BY <1>2, <2>1, <2>2, <2>3
<1>5. m * e + r \in 0..(16 * m - 1)
  <2>1. m * e <= m * 15 /\ 0 <= m * e  BY <1>1, <1>3
  <2>2. m * e \in Int  BY <1>1, <1>3
  <2>3. QED  BY <1>1, <1>2, <2>1, <2>2
<1>6. 16 * m \in Nat \ {0}  BY <1>1
<1>7. ((16 * m) * d + (m * e + r)) \div (16 * m) = d  BY <1>3, <1>5, <1>6, DivUnique
<1>8. QED  BY <1>1, <1>4, <1>7 DEF d, q, m

\* The characters of hexadecimal numbers.
HexChar == Digit \cup 97..102

\* A digit is read as what it stands for.
LEMMA DigitRead ==
    ASSUME NEW d \in 0..15
    PROVE  HexDigit(d) \in HexChar /\ DigitValue(HexDigit(d)) = d
<1>1. CASE d < 10  BY <1>1 DEF HexDigit, DigitValue, HexChar, Digit
<1>2. CASE d >= 10  BY <1>2 DEF HexDigit, DigitValue, HexChar, Digit
<1>3. QED  BY <1>1, <1>2

\* "%0nx" writes n digits.
LEMMA HexType ==
    ASSUME NEW n \in Nat, NEW v \in Int
    PROVE  /\ Hex(n, v) \in Seq(HexChar) /\ Len(Hex(n, v)) = n
           /\ \A i \in 1..n : /\ (v \div HexPower[n - i]) % 16 \in 0..15
                              /\ Hex(n, v)[i] = HexDigit((v \div HexPower[n - i]) % 16)
<1>1. ASSUME NEW i \in 1..n PROVE (v \div HexPower[n - i]) % 16 \in 0..15
  <2>1. n - i \in Nat  OBVIOUS
  <2>2. HexPower[n - i] \in Nat \ {0}  BY <2>1, HexPowerUnfolds
  <2>3. v \div HexPower[n - i] \in Int  BY <2>2, DivMod
  <2> DEFINE x == v \div HexPower[n - i]
  <2> HIDE DEF x
  <2>4. x \in Int  BY <2>3 DEF x
  <2>5. x % 16 \in 0..15  BY <2>4
  <2>6. QED  BY <2>5 DEF x
<1> DEFINE s == [i \in 1..n |-> HexDigit((v \div HexPower[n - i]) % 16)]
<1>2. ASSUME NEW i \in 1..n PROVE s[i] \in HexChar  BY <1>1, DigitRead
<1>3. s \in [1..n -> HexChar]
  <2>1. s = [i \in 1..n |-> s[i]]  OBVIOUS
  <2> HIDE DEF s
  <2>2. QED  BY <1>2, <2>1
<1>4. s \in Seq(HexChar) /\ Len(s) = n
  <2> HIDE DEF s
  <2>1. s \in Seq(HexChar)  BY <1>3
  <2>2. QED  BY <1>3, <2>1
<1>5. QED  BY <1>1, <1>4 DEF Hex

\* The number that strtoul() has read after each digit.
HexReadsAs(f, digits) ==
    /\ f[0] = 0
    /\ \A i \in 1..Len(digits) : f[i] = 16 * f[i - 1] + DigitValue(digits[i])
    /\ HexValue(digits) = f[Len(digits)]

\* It takes one digit after the other.
LEMMA HexValueUnfolds ==
    ASSUME NEW digits \in Seq(HexChar)
    PROVE  \E f \in [0..Len(digits) -> Nat] : HexReadsAs(f, digits)
<1> DEFINE n == Len(digits)
           F == [i \in 1..n |-> [x \in Nat |-> 16 * x + DigitValue(digits[i])]]
<1>n. n \in Nat  BY LenProperties
<1>1. ASSUME NEW i \in 1..n PROVE DigitValue(digits[i]) \in Nat
  <2>1. digits[i] \in HexChar  BY ElementOfSeq
  <2>2. ASSUME NEW c \in HexChar PROVE DigitValue(c) \in Nat
    <3>1. CASE c \in Digit  BY <3>1 DEF Digit, DigitValue
    <3>2. CASE c \notin Digit
      <4>1. c \in 97..102 /\ DigitValue(c) = c - 87  BY <3>2 DEF HexChar, DigitValue
      <4>2. QED  BY <4>1
    <3>3. QED  BY <3>1, <3>2
  <2>3. QED  BY <2>1, <2>2
<1> HIDE DEF n
<1>2. F \in Steps(n, Nat) /\ 0 \in Nat  BY <1>1 DEF Steps
<1>3. PICK f \in [0..n -> Nat] : Takes(f, n, 0, F)
  <2> HIDE DEF F
  <2>1. QED  BY <1>n, <1>2, BoundedRecursion
<1>4. f[0] = 0 /\ \A i \in 1..n : f[i] = 16 * f[i - 1] + DigitValue(digits[i])
  <2>1. f[0] = 0 /\ \A i \in 1..n : f[i] = F[i][f[i - 1]]
    <3> HIDE DEF F
    <3>1. QED  BY <1>3 DEF Takes
  <2>2. ASSUME NEW i \in 1..n PROVE f[i] = 16 * f[i - 1] + DigitValue(digits[i])
    <3>1. f[i - 1] \in Nat /\ f[i] = F[i][f[i - 1]]
      <4> HIDE DEF F
      <4>1. i - 1 \in 0..n  BY <1>n
      <4>2. QED  BY <1>3, <2>1, <4>1
    <3>2. QED  BY <3>1
  <2>3. QED  BY <2>1, <2>2
<1> HIDE DEF F
<1> DEFINE Solves(v) == v = [i \in 0..n |-> IF i = 0 THEN 0 ELSE 16 * v[i - 1] + DigitValue(digits[i])]
           k == CHOOSE v : Solves(v)
<1>5. Solves(f)
  <2>1. ASSUME NEW i \in 0..n
        PROVE  f[i] = IF i = 0 THEN 0 ELSE 16 * f[i - 1] + DigitValue(digits[i])
    <3>1. CASE i = 0  BY <1>4, <3>1
    <3>2. CASE i # 0
      <4>1. i \in 1..n  BY <1>n, <3>2
      <4>2. QED  BY <1>4, <3>2, <4>1
    <3>3. QED  BY <3>1, <3>2
  <2>2. f = [i \in 0..n |-> f[i]]  BY <1>3
  <2>3. QED  BY <2>1, <2>2
<1>6. HexValue(digits) = k[n]  BY DEF HexValue, n
<1>7. Solves(k)
  <2> HIDE DEF Solves
  <2>1. QED  BY <1>5
<1> HIDE DEF k
<1>8. k[n] = f[n]
  <2> DEFINE E == {i \in Nat : k[i] = f[i]}
  <2>1. 0 \in E  BY <1>n, <1>4, <1>7
  <2>2. ASSUME NEW i \in 0..(n - 1), i \in E PROVE i + 1 \in E
    <3>1. /\ i + 1 \in 1..n /\ i + 1 \in 0..n /\ i + 1 # 0
          /\ (i + 1) - 1 = i /\ k[i] = f[i] /\ i \in Nat /\ i + 1 \in Nat
      BY <1>n, <2>2
    <3>2. k[i + 1] = 16 * k[i] + DigitValue(digits[i + 1])  BY <1>7, <3>1
    <3>3. f[i + 1] = 16 * f[i] + DigitValue(digits[i + 1])  BY <1>4, <3>1
    <3>4. QED  BY <3>1, <3>2, <3>3
  <2>3. n \in E
    <3> HIDE DEF E
    <3>1. \A i \in 0..n : i \in E  BY <1>n, <2>1, <2>2, BoundedInduction
    <3>2. QED  BY <1>n, <3>1
  <2>4. QED  BY <2>3
<1>9. QED  BY <1>3, <1>4, <1>6, <1>8 DEF HexReadsAs, n

\* A number that its digits can hold is read as it was written.
LEMMA HexRead ==
    ASSUME NEW n \in Nat, NEW v \in 0..(HexPower[n] - 1)
    PROVE  HexValue(Hex(n, v)) = v
<1> DEFINE H(i) == v \div HexPower[n - i]
           s == Hex(n, v)
<1>0. HexPower[n] \in Nat \ {0}  BY HexPowerUnfolds
<1>v. v \in Nat /\ v \in Int  BY <1>0
<1>1. ASSUME NEW i \in 0..n PROVE H(i) \in Int
  <2>1. n - i \in Nat  OBVIOUS
  <2>2. HexPower[n - i] \in Nat \ {0}  BY <2>1, HexPowerUnfolds
  <2>3. QED  BY <1>v, <2>2, DivMod
<1>2. s \in Seq(HexChar) /\ Len(s) = n  BY <1>v, HexType
<1>3. ASSUME NEW i \in 1..n PROVE DigitValue(s[i]) = H(i) % 16
  <2>1. H(i) % 16 \in 0..15 /\ s[i] = HexDigit(H(i) % 16)  BY <1>v, HexType
  <2>2. QED  BY <2>1, DigitRead
<1> HIDE DEF s
<1>4. PICK f \in [0..n -> Nat] : HexReadsAs(f, s)  BY <1>2, HexValueUnfolds
<1>5. /\ f[0] = 0 /\ HexValue(s) = f[n]
      /\ \A i \in 1..n : f[i] = 16 * f[i - 1] + (H(i) % 16)
  <2>1. /\ f[0] = 0 /\ HexValue(s) = f[n]
        /\ \A i \in 1..n : f[i] = 16 * f[i - 1] + DigitValue(s[i])
    BY <1>2, <1>4 DEF HexReadsAs
  <2> HIDE DEF H
  <2>2. QED  BY <1>3, <2>1
<1>6. H(0) = 0
  <2>1. n - 0 = n  OBVIOUS
  <2> DEFINE m == HexPower[n]
  <2>2. m \in Nat \ {0} /\ v \in 0..(m - 1)  BY <1>0
  <2> HIDE DEF m
  <2>3. (m * 0 + v) \div m = 0  BY <2>2, DivUnique
  <2>4. m * 0 + v = v  BY <1>v, <2>2
  <2>5. v \div m = 0  BY <2>3, <2>4
  <2>6. QED  BY <2>1, <2>5 DEF m
<1> DEFINE E == {i \in Nat : f[i] = H(i)}
<1>7. 0 \in E  BY <1>5, <1>6
<1>8. ASSUME NEW i \in 0..(n - 1), i \in E PROVE i + 1 \in E
  <2> DEFINE a == H(i + 1)
             c == H(i)
  <2>1. i + 1 \in 1..n /\ i + 1 \in 0..n /\ i \in 0..n /\ (i + 1) - 1 = i /\ i + 1 \in Nat
    OBVIOUS
  <2>2. a \in Int /\ c \in Int  BY <1>1, <2>1
  <2>3. c = a \div 16
    <3>1. n - (i + 1) \in Nat /\ (n - (i + 1)) + 1 = n - i  OBVIOUS
    <3>2. v \div HexPower[(n - (i + 1)) + 1] = (v \div HexPower[n - (i + 1)]) \div 16
      BY <1>v, <3>1, ShiftDigit
    <3>3. QED  BY <3>1, <3>2
  <2>4. f[i + 1] = 16 * c + (a % 16)
    <3>1. f[i] = c  BY <1>8
    <3>2. f[i + 1] = 16 * f[(i + 1) - 1] + (a % 16)  BY <1>5, <2>1
    <3>3. QED  BY <2>1, <3>1, <3>2
  <2> HIDE DEF a, c
  <2>5. a = 16 * c + (a % 16)  BY <2>2, <2>3
  <2>6. f[i + 1] = H(i + 1)  BY <2>4, <2>5 DEF a
  <2> HIDE DEF H
  <2>7. QED  BY <2>1, <2>6
<1>9. n \in E
  <2> HIDE DEF E
  <2>1. \A i \in 0..n : i \in E  BY <1>7, <1>8, BoundedInduction
  <2>2. QED  BY <2>1
<1>10. H(n) = v
  <2>1. n - n = 0 /\ HexPower[0] = 1  BY HexPowerUnfolds
  <2>2. v \div 1 = v
    <3>1. 1 \in Nat \ {0} /\ 0 \in 0..(1 - 1)  OBVIOUS
    <3>2. (1 * v + 0) \div 1 = v  BY <1>v, <3>1, DivUnique
    <3>3. QED  BY <1>v, <3>2
  <2>3. QED  BY <2>1, <2>2
<1>11. f[n] = H(n)  BY <1>9
<1>12. QED  BY <1>5, <1>10, <1>11 DEF s

-----------------------------------------------------------------------------
(***************************************************************************)
(* Reading byte after byte.                                                *)
(***************************************************************************)
\* What texts are read as, and the states of the loop.
Values == {Decoded(b) : b \in Seq(Byte)}
ReaderType == [line: Seq(Byte), commands: Seq(Values), stopped: BOOLEAN]

LEMMA ReaderIsTyped ==
    ASSUME NEW l \in Seq(Byte), NEW c \in Seq(Values), NEW s \in BOOLEAN
    PROVE  /\ Reader(l, c, s) \in ReaderType
           /\ Reader(l, c, s).line = l /\ Reader(l, c, s).commands = c
           /\ Reader(l, c, s).stopped = s
BY DEF Reader, ReaderType

LEMMA ReaderParts ==
    ASSUME NEW r \in ReaderType
    PROVE  /\ r.line \in Seq(Byte) /\ r.commands \in Seq(Values) /\ r.stopped \in BOOLEAN
           /\ r = Reader(r.line, r.commands, r.stopped)
BY DEF Reader, ReaderType

LEMMA ChompType ==
    ASSUME NEW l \in Seq(Byte)
    PROVE  Chomp(l) \in Seq(Byte)
<1>1. Len(l) \in Nat /\ \A i \in 1..(Len(l) - 1) : l[i] \in Byte  BY LenProperties, ElementOfSeq
<1>2. SubSeq(l, 1, Len(l) - 1) \in Seq(Byte)
  <2>1. 1 \in Int /\ Len(l) - 1 \in Int  BY <1>1
  <2>2. QED  BY <1>1, <2>1, SubSeqProperties
<1>3. QED  BY <1>2 DEF Chomp

LEMMA DocumentType ==
    ASSUME NEW l \in Seq(Byte)
    PROVE  Document(l) \in Seq(Byte)
<1>1. CrcDigits + 2 \in Int /\ CrcDigits + 2 >= 1  BY WalBytesAssumption
<1>2. Len(l) \in Int  BY LenProperties
<1>3. \A i \in (CrcDigits + 2)..Len(l) : l[i] \in Byte  BY <1>1, <1>2, ElementOfSeq
<1>4. QED  BY <1>1, <1>2, <1>3, SubSeqProperties DEF Document

LEMMA TakeLineType ==
    ASSUME NEW r \in ReaderType
    PROVE  TakeLine(r) \in ReaderType
<1> DEFINE line == Chomp(r.line)
           c == Append(r.commands, Decoded(Document(line)))
<1>1. r.line \in Seq(Byte) /\ r.commands \in Seq(Values) /\ r.stopped \in BOOLEAN  BY ReaderParts
<1>2. line \in Seq(Byte)  BY <1>1, ChompType
<1>3. Decoded(Document(line)) \in Values
  <2>1. Document(line) \in Seq(Byte)  BY <1>2, DocumentType
  <2>2. QED  BY <2>1 DEF Values
<1>4. c \in Seq(Values)  BY <1>1, <1>3, AppendProperties
<1>5. <<>> \in Seq(Byte)  OBVIOUS
<1>6. /\ Reader(<<>>, r.commands, r.stopped) \in ReaderType
      /\ Reader(<<>>, r.commands, TRUE) \in ReaderType
      /\ Reader(<<>>, c, FALSE) \in ReaderType
  BY <1>1, <1>4, <1>5, ReaderIsTyped
<1>7. QED  BY <1>6 DEF TakeLine

LEMMA ReadByteType ==
    ASSUME NEW r \in ReaderType, NEW b \in Byte
    PROVE  ReadByte(r, b) \in ReaderType
<1>1. r.line \in Seq(Byte)  BY ReaderParts
<1>2. Append(r.line, b) \in Seq(Byte)  BY <1>1, AppendProperties
<1>3. [r EXCEPT !.line = Append(@, b)] \in ReaderType  BY <1>2 DEF ReaderType
<1>4. QED  BY <1>3, TakeLineType DEF ReadByte

\* The states the loop goes through.
ReadsThrough(f, r, bytes) ==
    f[0] = r /\ \A i \in 1..Len(bytes) : f[i] = ReadByte(f[i - 1], bytes[i])

\* There are such states, ...
LEMMA ReadingExists ==
    ASSUME NEW r \in ReaderType, NEW bytes \in Seq(Byte)
    PROVE  \E f \in [0..Len(bytes) -> ReaderType] : ReadsThrough(f, r, bytes)
<1> DEFINE n == Len(bytes)
           F == [i \in 1..n |-> [x \in ReaderType |-> ReadByte(x, bytes[i])]]
<1>1. n \in Nat  BY LenProperties
<1>2. ASSUME NEW i \in 1..n, NEW x \in ReaderType PROVE ReadByte(x, bytes[i]) \in ReaderType
  <2>1. bytes[i] \in Byte  BY ElementOfSeq
  <2>2. QED  BY <2>1, ReadByteType
<1> HIDE DEF n
<1>3. F \in Steps(n, ReaderType)  BY <1>2 DEF Steps
<1>4. PICK f \in [0..n -> ReaderType] : Takes(f, n, r, F)
  <2> HIDE DEF F
  <2>1. QED  BY <1>1, <1>3, BoundedRecursion
<1>5. ASSUME NEW i \in 1..n PROVE f[i] = ReadByte(f[i - 1], bytes[i])
  <2>1. f[i - 1] \in ReaderType
    <3>1. i - 1 \in 0..n  BY <1>1
    <3>2. QED  BY <1>4, <3>1
  <2>2. f[i] = F[i][f[i - 1]]
    <3> HIDE DEF F
    <3>1. QED  BY <1>4 DEF Takes
  <2>3. QED  BY <2>1, <2>2
<1>6. f[0] = r
  <2> HIDE DEF F
  <2>1. QED  BY <1>4 DEF Takes
<1>7. QED  BY <1>4, <1>5, <1>6 DEF ReadsThrough, n

\* ... and ReadBytes is the last of them.
LEMMA ReadingIs ==
    ASSUME NEW r, NEW bytes \in Seq(Byte), NEW V,
           NEW f \in [0..Len(bytes) -> V], ReadsThrough(f, r, bytes)
    PROVE  ReadBytes(r, bytes) = f[Len(bytes)]
<1> DEFINE n == Len(bytes)
           Solves(v) == v = [i \in 0..n |-> IF i = 0 THEN r ELSE ReadByte(v[i - 1], bytes[i])]
           k == CHOOSE v : Solves(v)
<1>n. n \in Nat  BY LenProperties
<1>4. f[0] = r /\ \A i \in 1..n : f[i] = ReadByte(f[i - 1], bytes[i])  BY DEF ReadsThrough
<1>6. ReadBytes(r, bytes) = k[n]  BY DEF ReadBytes
<1>a. f \in [0..n -> V]  OBVIOUS
<1> HIDE DEF n
<1>5. Solves(f)
  <2>1. ASSUME NEW i \in 0..n
        PROVE  f[i] = IF i = 0 THEN r ELSE ReadByte(f[i - 1], bytes[i])
    <3>1. CASE i = 0  BY <1>4, <3>1
    <3>2. CASE i # 0
      <4>1. i \in 1..n  BY <1>n, <3>2
      <4>2. QED  BY <1>4, <3>2, <4>1
    <3>3. QED  BY <3>1, <3>2
  <2>2. f = [i \in 0..n |-> f[i]]  BY <1>a
  <2>3. QED  BY <2>1, <2>2
<1>7. Solves(k)
  <2> HIDE DEF Solves
  <2>1. QED  BY <1>5
<1> HIDE DEF k
<1>8. k[n] = f[n]
  <2> DEFINE E == {i \in Nat : k[i] = f[i]}
  <2>1. 0 \in E  BY <1>n, <1>4, <1>7
  <2>2. ASSUME NEW i \in 0..(n - 1), i \in E PROVE i + 1 \in E
    <3>1. /\ i + 1 \in 1..n /\ i + 1 \in 0..n /\ i + 1 # 0
          /\ (i + 1) - 1 = i /\ k[i] = f[i] /\ i \in Nat /\ i + 1 \in Nat
      BY <1>n, <2>2
    <3>2. k[i + 1] = ReadByte(k[i], bytes[i + 1])  BY <1>7, <3>1
    <3>3. f[i + 1] = ReadByte(f[i], bytes[i + 1])  BY <1>4, <3>1
    <3>4. QED  BY <3>1, <3>2, <3>3
  <2>3. n \in E
    <3> HIDE DEF E
    <3>1. \A i \in 0..n : i \in E  BY <1>n, <2>1, <2>2, BoundedInduction
    <3>2. QED  BY <1>n, <3>1
  <2>4. QED  BY <2>3
<1>9. QED  BY <1>6, <1>8 DEF n

LEMMA ReadBytesType ==
    ASSUME NEW r \in ReaderType, NEW bytes \in Seq(Byte)
    PROVE  ReadBytes(r, bytes) \in ReaderType
<1>1. PICK f \in [0..Len(bytes) -> ReaderType] : ReadsThrough(f, r, bytes)  BY ReadingExists
<1>2. Len(bytes) \in 0..Len(bytes)  BY LenProperties
<1>3. QED  BY <1>1, <1>2, ReadingIs

\* Reading two parts is reading one and then the other.
LEMMA ReadInParts ==
    ASSUME NEW r \in ReaderType, NEW x \in Seq(Byte), NEW y \in Seq(Byte)
    PROVE  ReadBytes(r, x \o y) = ReadBytes(ReadBytes(r, x), y)
<1> DEFINE n == Len(x)
           m == Len(y)
           z == x \o y
<1>1. n \in Nat /\ m \in Nat  BY LenProperties
<1>2. z \in Seq(Byte) /\ Len(z) = n + m
      /\ \A i \in 1..(n + m) : z[i] = IF i <= n THEN x[i] ELSE y[i - n]
  BY ConcatProperties
<1>3. PICK f \in [0..n -> ReaderType] : ReadsThrough(f, r, x)  BY ReadingExists
<1>4. ReadBytes(r, x) = f[n] /\ f[n] \in ReaderType  BY <1>1, <1>3, ReadingIs
<1>5. PICK g \in [0..m -> ReaderType] : ReadsThrough(g, f[n], y)  BY <1>4, ReadingExists
<1>6. ReadBytes(f[n], y) = g[m]  BY <1>5, ReadingIs
<1>7. f[0] = r /\ \A i \in 1..n : f[i] = ReadByte(f[i - 1], x[i])  BY <1>3 DEF ReadsThrough
<1>8. g[0] = f[n] /\ \A i \in 1..m : g[i] = ReadByte(g[i - 1], y[i])  BY <1>5 DEF ReadsThrough
<1> HIDE DEF n, m, z
<1> DEFINE h == [i \in 0..(n + m) |-> IF i <= n THEN f[i] ELSE g[i - n]]
<1>9. h \in [0..(n + m) -> ReaderType]
  <2>1. ASSUME NEW i \in 0..(n + m) PROVE (IF i <= n THEN f[i] ELSE g[i - n]) \in ReaderType
    <3>1. CASE i <= n
      <4>1. i \in 0..n  BY <1>1, <3>1
      <4>2. QED  BY <1>3, <3>1, <4>1
    <3>2. CASE ~(i <= n)
      <4>1. i - n \in 0..m  BY <1>1, <3>2
      <4>2. QED  BY <1>5, <3>2, <4>1
    <3>3. QED  BY <3>1, <3>2
  <2>2. QED  BY <2>1
<1>10. h[0] = r  BY <1>1, <1>7
<1>11. ASSUME NEW i \in 1..(n + m) PROVE h[i] = ReadByte(h[i - 1], z[i])
  <2>0. i \in 0..(n + m) /\ i - 1 \in 0..(n + m)  BY <1>1
  <2>1. CASE i <= n
    <3>1. i \in 1..n /\ i - 1 <= n  BY <1>1, <2>1
    <3>2. h[i] = f[i] /\ h[i - 1] = f[i - 1] /\ z[i] = x[i]  BY <1>2, <2>0, <2>1, <3>1
    <3> HIDE DEF h
    <3>3. QED  BY <1>7, <3>1, <3>2
  <2>2. CASE ~(i <= n)
    <3>1. i - n \in 1..m /\ (i - 1) - n = (i - n) - 1  BY <1>1, <2>2
    <3>2. h[i] = g[i - n] /\ z[i] = y[i - n]  BY <1>2, <2>0, <2>2
    <3>3. h[i - 1] = g[(i - n) - 1]
      <4>1. CASE i = n + 1
        <5>1. i - 1 <= n /\ i - 1 = n /\ (i - n) - 1 = 0  BY <1>1, <4>1
        <5>2. h[i - 1] = f[n]  BY <2>0, <5>1
        <5>3. QED  BY <1>8, <5>1, <5>2
      <4>2. CASE i # n + 1
        <5>1. ~(i - 1 <= n)  BY <1>1, <2>2, <4>2
        <5>2. QED  BY <2>0, <3>1, <5>1
      <4>3. QED  BY <4>1, <4>2
    <3> HIDE DEF h
    <3>4. QED  BY <1>8, <3>1, <3>2, <3>3
  <2>3. QED  BY <2>1, <2>2
<1>12. h[n + m] = g[m]
  <2>1. CASE m = 0
    <3>1. n + m <= n /\ n + m = n  BY <1>1, <2>1
    <3>2. h[n + m] = f[n]  BY <1>1, <3>1
    <3>3. QED  BY <1>8, <2>1, <3>2
  <2>2. CASE m # 0
    <3>1. ~(n + m <= n) /\ (n + m) - n = m /\ n + m \in 0..(n + m)  BY <1>1, <2>2
    <3>2. QED  BY <3>1
  <2>3. QED  BY <2>1, <2>2
<1> HIDE DEF h
<1>13. ReadsThrough(h, r, z)  BY <1>2, <1>10, <1>11 DEF ReadsThrough
<1>14. ReadBytes(r, z) = h[n + m]  BY <1>2, <1>9, <1>13, ReadingIs
<1>15. QED  BY <1>4, <1>6, <1>12, <1>14 DEF z

\* The bytes of a line are gathered.
Plain == Byte \ {NewLine, Return}

LEMMA PlainIsByte ==
    ASSUME NEW s \in Seq(Plain)
    PROVE  s \in Seq(Byte)
<1>1. Plain \subseteq Byte  BY DEF Plain
<1>2. QED  BY <1>1, SeqMonotonic

LEMMA ReadPlain ==
    ASSUME NEW r \in ReaderType, NEW s \in Seq(Plain)
    PROVE  ReadBytes(r, s) = Reader(r.line \o s, r.commands, r.stopped)
<1> DEFINE n == Len(s)
           l == r.line
           G(i) == Reader(l \o SubSeq(s, 1, i), r.commands, r.stopped)
           f == [i \in 0..n |-> G(i)]
<1>1. n \in Nat /\ s \in Seq(Byte) /\ \A i \in 1..n : s[i] \in Plain
  BY LenProperties, ElementOfSeq, PlainIsByte
<1>2. l \in Seq(Byte) /\ r = Reader(l, r.commands, r.stopped)  BY ReaderParts
<1>n. n = Len(s)  OBVIOUS
<1> HIDE DEF n, l
<1>3. G(0) = r
  <2>1. SubSeq(s, 1, 0) = <<>>  BY SubSeqEmpty
  <2>2. l \o <<>> = l  BY <1>2, ConcatEmptySeq
  <2>3. QED  BY <1>2, <2>1, <2>2
<1>4. ASSUME NEW i \in 1..n PROVE G(i) = ReadByte(G(i - 1), s[i])
  <2> DEFINE a == SubSeq(s, 1, i - 1)
             b == s[i]
             c == r.commands
             d == r.stopped
  <2>1. b \in Byte /\ b # NewLine  BY <1>1 DEF Plain
  <2>2. a \in Seq(Byte)
    <3>1. \A j \in 1..(i - 1) : s[j] \in Byte  BY <1>1 DEF Plain
    <3>2. 1 \in Int /\ i - 1 \in Int  OBVIOUS
    <3>3. QED  BY <3>1, <3>2, SubSeqProperties
  <2>3. SubSeq(s, 1, i) = a \o <<b>>
    <3>1. 1 \in 1..Len(s) /\ i \in 1..Len(s)  BY <1>1, <1>n
    <3>2. QED  BY <1>1, <3>1, SubSeqRecursiveSecond
  <2>5. G(i) = Reader(l \o (a \o <<b>>), c, d)  BY <2>3
  <2>6. G(i - 1) = Reader(l \o a, c, d)  OBVIOUS
  <2> HIDE DEF a, b, c, d, G
  <2>4. l \o (a \o <<b>>) = Append(l \o a, b)
    <3>1. <<b>> \in Seq(Byte)  BY <2>1
    <3>2. l \o a \in Seq(Byte)  BY <1>2, <2>2, ConcatProperties
    <3>3. (l \o a) \o <<b>> = l \o (a \o <<b>>)  BY <1>2, <2>2, <3>1, ConcatAssociative
    <3>4. Append(l \o a, b) = (l \o a) \o <<b>>  BY <2>1, <3>2, AppendIsConcat
    <3>5. QED  BY <3>3, <3>4
  <2>7. ReadByte(Reader(l \o a, c, d), b) = Reader(Append(l \o a, b), c, d)
    BY <2>1 DEF ReadByte, Reader
  <2>8. G(i) = ReadByte(G(i - 1), b)  BY <2>4, <2>5, <2>6, <2>7
  <2>9. QED  BY <2>8 DEF b
<1>5. f[n] = Reader(l \o s, r.commands, r.stopped)
  <2>1. SubSeq(s, 1, n) = s  BY <1>1, <1>n, SubSeqFull
  <2>2. G(n) = Reader(l \o s, r.commands, r.stopped)  BY <2>1
  <2> HIDE DEF G
  <2>3. QED  BY <1>1, <2>2
<1> HIDE DEF G
<1>6. f \in [0..n -> {G(i) : i \in 0..n}]  OBVIOUS
<1>7. ReadsThrough(f, r, s)
  <2>1. f[0] = r  BY <1>1, <1>3
  <2>2. ASSUME NEW i \in 1..n PROVE f[i] = ReadByte(f[i - 1], s[i])
    <3>1. i \in 0..n /\ i - 1 \in 0..n  BY <1>1
    <3>2. QED  BY <1>4, <3>1
  <2>3. QED  BY <1>n, <2>1, <2>2 DEF ReadsThrough
<1> HIDE DEF f
<1>8. ReadBytes(r, s) = f[n]  BY <1>1, <1>n, <1>6, <1>7, ReadingIs
<1>9. QED  BY <1>5, <1>8 DEF l

\* The newline takes the line.
LEMMA ReadNewLine ==
    ASSUME NEW r \in ReaderType
    PROVE  ReadBytes(r, <<NewLine>>) = TakeLine(r)
<1> DEFINE s == <<NewLine>>
           f == [i \in 0..1 |-> IF i = 0 THEN r ELSE TakeLine(r)]
<1>1. s \in Seq(Byte) /\ Len(s) = 1 /\ s[1] = NewLine  BY DEF Byte, NewLine
<1> HIDE DEF s
<1>2. f \in [0..1 -> {r, TakeLine(r)}]  OBVIOUS
<1>3. f[0] = r /\ f[1] = TakeLine(r)  OBVIOUS
<1> HIDE DEF f
<1>4. ReadsThrough(f, r, s)
  <2>1. ASSUME NEW i \in 1..1 PROVE f[i] = ReadByte(f[i - 1], s[i])
    <3>1. i = 1 /\ i - 1 = 0  OBVIOUS
    <3>2. QED  BY <1>1, <1>3, <3>1 DEF ReadByte
  <2>2. QED  BY <1>1, <1>3, <2>1 DEF ReadsThrough
<1>5. ReadBytes(r, s) = f[1]  BY <1>1, <1>2, <1>4, ReadingIs
<1>6. QED  BY <1>3, <1>5 DEF s

-----------------------------------------------------------------------------
(***************************************************************************)
(* Parts joined.                                                           *)
(***************************************************************************)
JoinsThrough(f, parts) == f[0] = <<>> /\ \A i \in 1..Len(parts) : f[i] = f[i - 1] \o parts[i]

LEMMA JoiningExists ==
    ASSUME NEW parts \in Seq(Seq(Byte))
    PROVE  \E f \in [0..Len(parts) -> Seq(Byte)] : JoinsThrough(f, parts)
<1> DEFINE n == Len(parts)
           V == Seq(Byte)
           F == [i \in 1..n |-> [x \in V |-> x \o parts[i]]]
<1>1. n \in Nat  BY LenProperties
<1>2. ASSUME NEW i \in 1..n, NEW x \in V PROVE x \o parts[i] \in V
  <2>1. parts[i] \in Seq(Byte)  BY ElementOfSeq
  <2>2. QED  BY <2>1, ConcatProperties
<1>b. <<>> \in V  OBVIOUS
<1>v. V = Seq(Byte)  OBVIOUS
<1> HIDE DEF n, V
<1>3. F \in Steps(n, V)  BY <1>2 DEF Steps
<1>4. PICK f \in [0..n -> V] : Takes(f, n, <<>>, F)
  <2> HIDE DEF F
  <2>1. QED  BY <1>1, <1>3, <1>b, BoundedRecursion
<1>5. ASSUME NEW i \in 1..n PROVE f[i] = f[i - 1] \o parts[i]
  <2>1. f[i - 1] \in V
    <3>1. i - 1 \in 0..n  BY <1>1
    <3>2. QED  BY <1>4, <3>1
  <2>2. f[i] = F[i][f[i - 1]]
    <3> HIDE DEF F
    <3>1. QED  BY <1>4 DEF Takes
  <2>3. QED  BY <2>1, <2>2
<1>6. f[0] = <<>>
  <2> HIDE DEF F
  <2>1. QED  BY <1>4 DEF Takes
<1>7. QED  BY <1>4, <1>5, <1>6, <1>v DEF JoinsThrough, n

LEMMA JoiningIs ==
    ASSUME NEW parts \in Seq(Seq(Byte)), NEW V,
           NEW f \in [0..Len(parts) -> V], JoinsThrough(f, parts)
    PROVE  Joined(parts) = f[Len(parts)]
<1> DEFINE n == Len(parts)
           Solves(v) == v = [i \in 0..n |-> IF i = 0 THEN <<>> ELSE v[i - 1] \o parts[i]]
           k == CHOOSE v : Solves(v)
<1>n. n \in Nat  BY LenProperties
<1>4. f[0] = <<>> /\ \A i \in 1..n : f[i] = f[i - 1] \o parts[i]  BY DEF JoinsThrough
<1>6. Joined(parts) = k[n]  BY DEF Joined
<1>a. f \in [0..n -> V]  OBVIOUS
<1> HIDE DEF n
<1>5. Solves(f)
  <2>1. ASSUME NEW i \in 0..n
        PROVE  f[i] = IF i = 0 THEN <<>> ELSE f[i - 1] \o parts[i]
    <3>1. CASE i = 0  BY <1>4, <3>1
    <3>2. CASE i # 0
      <4>1. i \in 1..n  BY <1>n, <3>2
      <4>2. QED  BY <1>4, <3>2, <4>1
    <3>3. QED  BY <3>1, <3>2
  <2>2. f = [i \in 0..n |-> f[i]]  BY <1>a
  <2>3. QED  BY <2>1, <2>2
<1>7. Solves(k)
  <2> HIDE DEF Solves
  <2>1. QED  BY <1>5
<1> HIDE DEF k
<1>8. k[n] = f[n]
  <2> DEFINE E == {i \in Nat : k[i] = f[i]}
  <2>1. 0 \in E  BY <1>n, <1>4, <1>7
  <2>2. ASSUME NEW i \in 0..(n - 1), i \in E PROVE i + 1 \in E
    <3>1. /\ i + 1 \in 1..n /\ i + 1 \in 0..n /\ i + 1 # 0
          /\ (i + 1) - 1 = i /\ k[i] = f[i] /\ i \in Nat /\ i + 1 \in Nat
      BY <1>n, <2>2
    <3>2. k[i + 1] = k[i] \o parts[i + 1]  BY <1>7, <3>1
    <3>3. f[i + 1] = f[i] \o parts[i + 1]  BY <1>4, <3>1
    <3>4. QED  BY <3>1, <3>2, <3>3
  <2>3. n \in E
    <3> HIDE DEF E
    <3>1. \A i \in 0..n : i \in E  BY <1>n, <2>1, <2>2, BoundedInduction
    <3>2. QED  BY <1>n, <3>1
  <2>4. QED  BY <2>3
<1>9. QED  BY <1>6, <1>8 DEF n

LEMMA JoinedType ==
    ASSUME NEW parts \in Seq(Seq(Byte))
    PROVE  Joined(parts) \in Seq(Byte)
<1>1. PICK f \in [0..Len(parts) -> Seq(Byte)] : JoinsThrough(f, parts)  BY JoiningExists
<1>2. Len(parts) \in 0..Len(parts)  BY LenProperties
<1>3. QED  BY <1>1, <1>2, JoiningIs

LEMMA JoinedNone == Joined(<<>>) = <<>>
<1> DEFINE s == <<>>
           V == Seq(Byte)
<1>1. s \in Seq(V) /\ Len(s) = 0  BY EmptySeq
<1> HIDE DEF s, V
<1>v. s \in Seq(Seq(Byte))  BY <1>1 DEF V
<1>2. PICK f \in [0..Len(s) -> Seq(Byte)] : JoinsThrough(f, s)  BY <1>v, JoiningExists
<1>3. Joined(s) = f[Len(s)]  BY <1>v, <1>2, JoiningIs
<1>4. f[0] = <<>>  BY <1>2 DEF JoinsThrough
<1>5. QED  BY <1>1, <1>3, <1>4 DEF s

\* One part more.
LEMMA JoinedAppend ==
    ASSUME NEW parts \in Seq(Seq(Byte)), NEW x \in Seq(Byte)
    PROVE  Joined(Append(parts, x)) = Joined(parts) \o x
<1> DEFINE n == Len(parts)
           V == Seq(Byte)
           t == Append(parts, x)
<1>1. n \in Nat  BY LenProperties
<1>2. t \in Seq(V) /\ Len(t) = n + 1 /\ t[n + 1] = x /\ \A i \in 1..n : t[i] = parts[i]
  <2>1. parts \in Seq(V) /\ x \in V  OBVIOUS
  <2> HIDE DEF V
  <2>2. QED  BY <2>1, AppendProperties
<1>3. PICK f \in [0..n -> V] : JoinsThrough(f, parts)  BY JoiningExists
<1>4. Joined(parts) = f[n]  BY <1>3, JoiningIs
<1>5. f[0] = <<>> /\ \A i \in 1..n : f[i] = f[i - 1] \o parts[i]  BY <1>3 DEF JoinsThrough
<1>v. V = Seq(Byte)  OBVIOUS
<1> HIDE DEF n, t, V
<1> DEFINE h == [i \in 0..(n + 1) |-> IF i = n + 1 THEN f[n] \o x ELSE f[i]]
<1>6. h \in [0..(n + 1) -> {h[i] : i \in 0..(n + 1)}]  OBVIOUS
<1>7. h[0] = <<>> /\ h[n + 1] = f[n] \o x  BY <1>1, <1>5
<1>8. ASSUME NEW i \in 1..(n + 1) PROVE h[i] = h[i - 1] \o t[i]
  <2>1. CASE i = n + 1
    <3>1. h[i] = f[n] \o x /\ h[i - 1] = f[n]  BY <1>1, <2>1
    <3>2. QED  BY <1>2, <2>1, <3>1
  <2>2. CASE i # n + 1
    <3>1. i \in 1..n /\ i - 1 \in 0..n /\ i - 1 # n + 1  BY <1>1, <2>2
    <3>2. h[i] = f[i] /\ h[i - 1] = f[i - 1]  BY <1>1, <2>2, <3>1
    <3>3. QED  BY <1>2, <1>5, <3>1, <3>2
  <2>3. QED  BY <2>1, <2>2
<1> HIDE DEF h
<1>9. JoinsThrough(h, t)  BY <1>2, <1>7, <1>8 DEF JoinsThrough
<1>10. Joined(t) = h[n + 1]
  <2>1. t \in Seq(Seq(Byte))  BY <1>2, <1>v
  <2>2. QED  BY <1>2, <1>6, <1>9, <2>1, JoiningIs
<1>11. QED  BY <1>4, <1>7, <1>10 DEF t

\* The parts from a place on, and one more.
LEMMA JoinedGrows ==
    ASSUME NEW parts \in Seq(Seq(Byte)), NEW n \in 1..Len(parts), NEW m \in 1..n
    PROVE  /\ SubSeq(parts, m, n - 1) \in Seq(Seq(Byte))
           /\ Joined(SubSeq(parts, m, n)) = Joined(SubSeq(parts, m, n - 1)) \o parts[n]
<1> DEFINE V == Seq(Byte)
           a == SubSeq(parts, m, n - 1)
<1>1. Len(parts) \in Nat /\ parts \in Seq(V) /\ parts[n] \in V /\ \A i \in m..(n - 1) : parts[i] \in V
  <2>1. parts \in Seq(V) /\ Len(parts) \in Nat  BY LenProperties
  <2> HIDE DEF V
  <2>2. QED  BY <2>1, ElementOfSeq
<1> HIDE DEF V
<1>2. m \in Int /\ n - 1 \in Int /\ m \in 1..Len(parts) /\ n \in m..Len(parts)  BY <1>1
<1>3. a \in Seq(V)  BY <1>1, <1>2, SubSeqProperties
<1>4. SubSeq(parts, m, n) = a \o <<parts[n]>>  BY <1>1, <1>2, SubSeqRecursiveSecond
<1>5. Append(a, parts[n]) = a \o <<parts[n]>>  BY <1>1, <1>3, AppendIsConcat
<1> HIDE DEF a
<1>6. a \in Seq(Seq(Byte)) /\ parts[n] \in Seq(Byte)  BY <1>1, <1>3 DEF V
<1>7. Joined(Append(a, parts[n])) = Joined(a) \o parts[n]  BY <1>6, JoinedAppend
<1>8. QED  BY <1>4, <1>5, <1>6, <1>7 DEF a

\* Reading what is joined is reading part after part.
LEMMA ReadJoined ==
    ASSUME NEW r \in ReaderType, NEW parts \in Seq(Seq(Byte)), NEW n \in 1..Len(parts)
    PROVE  /\ ReadBytes(r, Joined(SubSeq(parts, 1, n))) =
                  ReadBytes(ReadBytes(r, Joined(SubSeq(parts, 1, n - 1))), parts[n])
           /\ ReadBytes(r, Joined(SubSeq(parts, 1, n - 1))) \in ReaderType
<1> DEFINE a == SubSeq(parts, 1, n - 1)
<1>1. Len(parts) \in Nat  BY LenProperties
<1>2. a \in Seq(Seq(Byte)) /\ Joined(SubSeq(parts, 1, n)) = Joined(a) \o parts[n]
  <2>1. 1 \in 1..n  BY <1>1
  <2>2. QED  BY <2>1, JoinedGrows
<1>3. parts[n] \in Seq(Byte)
  <2> DEFINE V == Seq(Byte)
  <2>1. parts \in Seq(V)  OBVIOUS
  <2> HIDE DEF V
  <2>2. parts[n] \in V  BY <2>1, ElementOfSeq
  <2>3. QED  BY <2>2 DEF V
<1> HIDE DEF a
<1>4. Joined(a) \in Seq(Byte)  BY <1>2, JoinedType
<1>5. ReadBytes(r, Joined(a) \o parts[n]) = ReadBytes(ReadBytes(r, Joined(a)), parts[n])
  BY <1>3, <1>4, ReadInParts
<1>6. ReadBytes(r, Joined(a)) \in ReaderType  BY <1>4, ReadBytesType
<1>7. QED  BY <1>2, <1>5, <1>6 DEF a

-----------------------------------------------------------------------------
(***************************************************************************)
(* Lines and what is left of them.                                         *)
(***************************************************************************)
\* What was written of a record.
RestOK(p) == Loggable(p.record) /\ p.size \in 1..LineSize(p.record)
Part(p) == SubSeq(Line(p.record), 1, p.size)

\* The same without the newline.
Body(p) == SubSeq(Line(p.record), 1, IF Form(p) = "full" THEN p.size - 1 ELSE p.size)

LEMMA LineFacts ==
    ASSUME NEW rec, Loggable(rec)
    PROVE  /\ Line(rec) \in Seq(Byte) /\ Len(Line(rec)) = LineSize(rec)
           /\ LineSize(rec) \in Nat /\ LineSize(rec) >= CrcDigits + 2
           /\ LineSize(rec) = CrcDigits + 1 + Len(Encoded(rec)) + 1
           /\ \A i \in 1..CrcDigits : /\ Line(rec)[i] = Hex(CrcDigits, Crc32(Encoded(rec)))[i]
                                      /\ Line(rec)[i] \in HexChar
           /\ Line(rec)[CrcDigits + 1] = Space
           /\ \A i \in 1..Len(Encoded(rec)) : Line(rec)[CrcDigits + 1 + i] = Encoded(rec)[i]
           /\ \A i \in 1..(LineSize(rec) - 1) : Line(rec)[i] \in Plain
           /\ Line(rec)[LineSize(rec)] = NewLine
<1> DEFINE d == CrcDigits
           e == Encoded(rec)
           n == Len(e)
           h == Hex(d, Crc32(e))
           a == h \o <<Space>>
           b == a \o e
           l == b \o <<NewLine>>
<1>1. d \in Nat \ {0}  BY WalBytesAssumption
<1>2. e \in Seq(Plain) /\ Crc32(e) \in Int
  <2>1. HexPower[d] \in Nat \ {0}  BY <1>1, HexPowerUnfolds
  <2>2. QED  BY <2>1 DEF Loggable, Plain
<1>3. h \in Seq(HexChar) /\ Len(h) = d  BY <1>1, <1>2, HexType
<1>4. HexChar \subseteq Plain /\ HexChar \subseteq Byte /\ Plain \subseteq Byte
  BY DEF HexChar, Digit, Plain, Byte, NewLine, Return
<1>5. e \in Seq(Byte) /\ h \in Seq(Byte) /\ n \in Nat
  BY <1>2, <1>3, <1>4, SeqMonotonic, LenProperties
<1>6. \A i \in 1..n : e[i] \in Plain  BY <1>2, ElementOfSeq
<1>7. \A i \in 1..d : h[i] \in HexChar /\ h[i] \in Plain  BY <1>3, <1>4, ElementOfSeq
<1>8. /\ <<Space>> \in Seq(Byte) /\ Len(<<Space>>) = 1 /\ <<Space>>[1] = Space
      /\ <<NewLine>> \in Seq(Byte) /\ Len(<<NewLine>>) = 1 /\ <<NewLine>>[1] = NewLine
      /\ Space \in Plain
  BY DEF Space, NewLine, Byte, Plain, Return
<1>9. Line(rec) = l /\ LineSize(rec) = d + 1 + n + 1
  BY DEF Line, LineSize
<1> HIDE DEF d, e, n, h
<1>10. /\ a \in Seq(Byte) /\ Len(a) = d + 1
       /\ \A i \in 1..(d + 1) : a[i] = IF i <= d THEN h[i] ELSE <<Space>>[i - d]
  BY <1>3, <1>5, <1>8, ConcatProperties
<1> HIDE DEF a
<1>11. /\ b \in Seq(Byte) /\ Len(b) = (d + 1) + n
       /\ \A i \in 1..((d + 1) + n) : b[i] = IF i <= d + 1 THEN a[i] ELSE e[i - (d + 1)]
  <2>1. /\ a \o e \in Seq(Byte) /\ Len(a \o e) = Len(a) + Len(e)
        /\ \A i \in 1..(Len(a) + Len(e)) : (a \o e)[i] = IF i <= Len(a) THEN a[i] ELSE e[i - Len(a)]
    BY <1>5, <1>10, ConcatProperties
  <2>2. Len(a) = d + 1 /\ Len(e) = n  BY <1>10 DEF n
  <2>3. QED  BY <2>1, <2>2
<1> HIDE DEF b
<1>12. /\ l \in Seq(Byte) /\ Len(l) = ((d + 1) + n) + 1
       /\ \A i \in 1..(((d + 1) + n) + 1) :
              l[i] = IF i <= (d + 1) + n THEN b[i] ELSE <<NewLine>>[i - ((d + 1) + n)]
  BY <1>8, <1>11, ConcatProperties
<1> HIDE DEF l
<1>13. ASSUME NEW i \in 1..d PROVE l[i] = h[i]
  <2>1. i \in 1..(d + 1) /\ i \in 1..((d + 1) + n) /\ i \in 1..(((d + 1) + n) + 1)
        /\ i <= d /\ i <= d + 1 /\ i <= (d + 1) + n
    BY <1>1, <1>5
  <2>2. QED  BY <1>10, <1>11, <1>12, <2>1
<1>14. l[d + 1] = Space
  <2>1. d + 1 \in 1..(d + 1) /\ d + 1 \in 1..((d + 1) + n) /\ d + 1 \in 1..(((d + 1) + n) + 1)
        /\ ~(d + 1 <= d) /\ d + 1 <= d + 1 /\ d + 1 <= (d + 1) + n /\ (d + 1) - d = 1
    BY <1>1, <1>5
  <2>2. QED  BY <1>8, <1>10, <1>11, <1>12, <2>1
<1>15. ASSUME NEW i \in 1..n PROVE l[d + 1 + i] = e[i]
  <2>1. d + 1 + i \in 1..((d + 1) + n) /\ d + 1 + i \in 1..(((d + 1) + n) + 1)
        /\ ~(d + 1 + i <= d + 1) /\ d + 1 + i <= (d + 1) + n /\ (d + 1 + i) - (d + 1) = i
    BY <1>1, <1>5
  <2>2. QED  BY <1>11, <1>12, <2>1
<1>16. l[d + 1 + n + 1] = NewLine
  <2>1. d + 1 + n + 1 \in 1..(((d + 1) + n) + 1) /\ ~(d + 1 + n + 1 <= (d + 1) + n)
        /\ (d + 1 + n + 1) - ((d + 1) + n) = 1
    BY <1>1, <1>5
  <2>2. QED  BY <1>8, <1>12, <2>1
<1>17. ASSUME NEW i \in 1..((d + 1 + n + 1) - 1) PROVE l[i] \in Plain
  <2>1. CASE i \in 1..d  BY <1>7, <1>13, <2>1
  <2>2. CASE i = d + 1  BY <1>8, <1>14, <2>2
  <2>3. CASE i > d + 1
    <3>1. i - (d + 1) \in 1..n /\ d + 1 + (i - (d + 1)) = i  BY <1>1, <1>5, <2>3
    <3>2. l[i] = e[i - (d + 1)]  BY <1>15, <3>1
    <3>3. QED  BY <1>6, <3>1, <3>2
  <2>4. QED  BY <1>1, <1>5, <2>1, <2>2, <2>3
<1>18. Len(l) = d + 1 + n + 1 /\ d + 1 + n + 1 \in Nat /\ d + 1 + n + 1 >= d + 2
  BY <1>1, <1>5, <1>12
<1>19. QED
  <2>1. /\ Line(rec) \in Seq(Byte) /\ Len(Line(rec)) = LineSize(rec)
        /\ LineSize(rec) \in Nat /\ LineSize(rec) >= d + 2
        /\ LineSize(rec) = d + 1 + n + 1
        /\ Line(rec)[LineSize(rec)] = NewLine /\ Line(rec)[d + 1] = Space
        /\ \A i \in 1..d : Line(rec)[i] = h[i] /\ Line(rec)[i] \in HexChar
        /\ \A i \in 1..n : Line(rec)[d + 1 + i] = e[i]
        /\ \A i \in 1..(LineSize(rec) - 1) : Line(rec)[i] \in Plain
    BY <1>7, <1>9, <1>12, <1>13, <1>14, <1>15, <1>16, <1>17, <1>18
  <2>2. QED  BY <2>1 DEF d, e, n, h

\* A line is taken for its record.
LEMMA LineIsRead ==
    ASSUME NEW rec, Loggable(rec)
    PROVE  LET w == SubSeq(Line(rec), 1, LineSize(rec) - 1)
           IN  HasPrefix(w) /\ Intact(w) /\ Decoded(Document(w)) = rec
<1> DEFINE d == CrcDigits
           e == Encoded(rec)
           n == Len(e)
           h == Hex(d, Crc32(e))
           l == Line(rec)
           m == LineSize(rec) - 1
           w == SubSeq(l, 1, m)
<1>1. d \in Nat \ {0}  BY WalBytesAssumption
<1>2. e \in Seq(Plain) /\ Crc32(e) \in 0..(HexPower[d] - 1) /\ Decoded(e) = rec
  BY DEF Loggable, Plain
<1>3. /\ m = d + 1 + n
      /\ \A i \in 1..d : l[i] = h[i]
      /\ l[d + 1] = Space
      /\ \A i \in 1..n : l[d + 1 + i] = e[i]
      /\ \A i \in 1..m : l[i] \in Plain
  <2>1. LineSize(rec) = d + 1 + n + 1  BY LineFacts
  <2>2. n \in Nat  BY <1>2, LenProperties
  <2>3. m = d + 1 + n  BY <1>1, <2>1, <2>2
  <2>4. QED  BY <2>3, LineFacts
<1>4. n \in Nat /\ m \in Nat  BY <1>1, <1>2, <1>3, LenProperties
<1>5. h \in Seq(HexChar) /\ Len(h) = d
  <2>1. HexPower[d] \in Nat \ {0}  BY <1>1, HexPowerUnfolds
  <2>2. Crc32(e) \in Int  BY <1>2, <2>1
  <2>3. QED  BY <1>1, <2>2, HexType
<1>6. HexValue(h) = Crc32(e)  BY <1>1, <1>2, HexRead
<1>n. n = Len(e)  OBVIOUS
<1> HIDE DEF d, e, n, h, l, m
<1>7. w \in Seq(Plain) /\ Len(w) = m /\ \A i \in 1..m : w[i] = l[i]
  <2>1. m \in Int /\ 1 \in Int /\ 1 <= m /\ m - 1 + 1 = m  BY <1>1, <1>3, <1>4
  <2>2. /\ w \in Seq(Plain) /\ Len(w) = m - 1 + 1
        /\ \A i \in 1..(m - 1 + 1) : w[i] = l[1 + i - 1]
    BY <1>3, <2>1, SubSeqProperties
  <2>3. \A i \in 1..m : 1 + i - 1 = i  OBVIOUS
  <2>4. QED  BY <2>1, <2>2, <2>3
<1> HIDE DEF w
<1>8. Document(w) = e
  <2> DEFINE u == SubSeq(w, d + 2, m)
  <2>1. Document(w) = u  BY <1>7 DEF Document, d
  <2>2. \A i \in (d + 2)..m : w[i] \in Plain
    <3>1. \A i \in (d + 2)..m : i \in 1..m  BY <1>1, <1>4
    <3>2. QED  BY <1>3, <1>7, <3>1
  <2>3. d + 2 \in Int /\ m \in Int  BY <1>1, <1>4
  <2>4. u \in Seq(Plain) /\ Len(u) = (IF d + 2 <= m THEN m - (d + 2) + 1 ELSE 0)
        /\ \A i \in 1..(m - (d + 2) + 1) : u[i] = w[(d + 2) + i - 1]
    BY <2>2, <2>3, SubSeqProperties
  <2>5. m - (d + 2) + 1 = n /\ Len(u) = n  BY <1>1, <1>3, <1>4, <2>4
  <2>6. ASSUME NEW i \in 1..n PROVE u[i] = e[i]
    <3>1. (d + 2) + i - 1 = d + 1 + i /\ d + 1 + i \in 1..m  BY <1>1, <1>3, <1>4
    <3>2. u[i] = w[d + 1 + i]  BY <2>4, <2>5, <3>1
    <3>3. QED  BY <1>3, <1>7, <3>1, <3>2
  <2> HIDE DEF u
  <2>7. u = e  BY <1>2, <1>n, <2>4, <2>5, <2>6, SeqEqual
  <2>8. QED  BY <2>1, <2>7
<1>9. SubSeq(w, 1, d) = h
  <2> DEFINE u == SubSeq(w, 1, d)
  <2>1. \A i \in 1..d : i \in 1..m  BY <1>1, <1>3, <1>4
  <2>2. \A i \in 1..d : w[i] = h[i] /\ h[i] \in HexChar  BY <1>3, <1>5, <1>7, <2>1, ElementOfSeq
  <2>3. d \in Int /\ 1 \in Int /\ 1 <= d /\ d - 1 + 1 = d  BY <1>1
  <2>4. u \in Seq(HexChar) /\ Len(u) = d /\ \A i \in 1..(d - 1 + 1) : u[i] = w[1 + i - 1]
    BY <2>2, <2>3, SubSeqProperties
  <2>5. ASSUME NEW i \in 1..d PROVE u[i] = h[i]
    <3>1. 1 + i - 1 = i  BY <1>1
    <3>2. QED  BY <2>2, <2>3, <2>4, <3>1
  <2> HIDE DEF u
  <2>6. u = h  BY <1>5, <2>4, <2>5, SeqEqual
  <2>7. QED  BY <2>6 DEF u
<1>10. Intact(w)  BY <1>6, <1>8, <1>9 DEF Intact, d
<1>11. HasPrefix(w)
  <2>1. Len(w) > d /\ d + 1 \in 1..m  BY <1>1, <1>3, <1>4, <1>7
  <2>2. w[d + 1] = Space  BY <1>3, <1>7, <2>1
  <2>3. QED  BY <2>1, <2>2 DEF HasPrefix, d
<1>12. QED  BY <1>2, <1>8, <1>10, <1>11 DEF w, l, m

LEMMA BodyFacts ==
    ASSUME NEW p, RestOK(p)
    PROVE  /\ Body(p) \in Seq(Plain) /\ Len(Body(p)) \in Nat \ {0}
           /\ Part(p) = IF Form(p) = "full" THEN Body(p) \o <<NewLine>> ELSE Body(p)
           /\ \A i \in 1..Len(Body(p)) : i <= CrcDigits => Body(p)[i] # Space
           /\ Form(p) = "short" <=> Len(Body(p)) <= CrcDigits
           /\ Form(p) # "short" => HasPrefix(Body(p))
           /\ Form(p) \in {"full", "whole"} =>
                  Intact(Body(p)) /\ Decoded(Document(Body(p))) = p.record
           /\ Form(p) \in {"full", "whole", "long", "short"}
<1> DEFINE d == CrcDigits
           rec == p.record
           l == Line(rec)
           z == LineSize(rec)
           k == p.size
           m == IF Form(p) = "full" THEN k - 1 ELSE k
           w == SubSeq(l, 1, m)
<1>1. d \in Nat \ {0} /\ Loggable(rec) /\ k \in 1..z  BY WalBytesAssumption DEF RestOK
<1>2. /\ l \in Seq(Byte) /\ Len(l) = z /\ z \in Nat /\ z >= d + 2
      /\ \A i \in 1..d : l[i] \in HexChar
      /\ l[d + 1] = Space
      /\ \A i \in 1..(z - 1) : l[i] \in Plain
      /\ l[z] = NewLine
  BY <1>1, LineFacts
<1>3. /\ Form(p) = "short" <=> k <= d
      /\ Form(p) = "full" <=> k = z
      /\ Form(p) \in {"full", "whole"} => k >= z - 1
      /\ Form(p) \in {"full", "whole", "long", "short"}
  BY <1>1, <1>2 DEF Form
<1>4. m \in 1..(z - 1) /\ (k <= d <=> m <= d) /\ (Form(p) = "full" => m = k - 1)
      /\ (Form(p) # "full" => m = k) /\ (Form(p) \in {"full", "whole"} => m = z - 1)
  BY <1>1, <1>2, <1>3
<1>5. Body(p) = w /\ Part(p) = SubSeq(l, 1, k)  BY DEF Body, Part
<1>6. LET v == SubSeq(Line(rec), 1, LineSize(rec) - 1)
      IN  HasPrefix(v) /\ Intact(v) /\ Decoded(Document(v)) = rec
  BY <1>1, LineIsRead
<1>7. Form(p) \in {"full", "whole"} => HasPrefix(w) /\ Intact(w) /\ Decoded(Document(w)) = rec
  BY <1>4, <1>6
<1> HIDE DEF d, rec, l, z, k, m
<1>8. w \in Seq(Plain) /\ Len(w) = m /\ \A i \in 1..m : w[i] = l[i]
  <2>1. m \in Int /\ 1 \in Int /\ 1 <= m /\ m - 1 + 1 = m  BY <1>2, <1>4
  <2>2. \A i \in 1..m : l[i] \in Plain  BY <1>2, <1>4
  <2>3. /\ w \in Seq(Plain) /\ Len(w) = m - 1 + 1
        /\ \A i \in 1..(m - 1 + 1) : w[i] = l[1 + i - 1]
    BY <2>1, <2>2, SubSeqProperties
  <2>4. \A i \in 1..m : 1 + i - 1 = i  OBVIOUS
  <2>5. QED  BY <2>1, <2>3, <2>4
<1>9. Form(p) = "full" => SubSeq(l, 1, k) = w \o <<NewLine>>
  <2>1. SUFFICES ASSUME Form(p) = "full" PROVE SubSeq(l, 1, k) = w \o <<NewLine>>  OBVIOUS
  <2>2. k = z /\ m = k - 1 /\ k \in 1..Len(l) /\ 1 \in 1..Len(l)  BY <1>1, <1>2, <1>3, <1>4, <2>1
  <2>3. SubSeq(l, 1, k) = SubSeq(l, 1, k - 1) \o <<l[k]>>  BY <1>2, <2>2, SubSeqRecursiveSecond
  <2>4. QED  BY <1>2, <2>2, <2>3
<1>10. Form(p) # "full" => SubSeq(l, 1, k) = w  BY <1>4
<1> HIDE DEF w
<1>11. ASSUME NEW i \in 1..m, i <= d PROVE w[i] # Space
  <2>1. i \in 1..d  BY <1>1, <1>2, <1>4, <1>11
  <2>2. w[i] \in HexChar  BY <1>2, <1>8, <2>1
  <2>3. QED  BY <2>2 DEF HexChar, Digit, Space
<1>12. Form(p) # "short" => HasPrefix(w)
  <2>1. SUFFICES ASSUME Form(p) # "short" PROVE HasPrefix(w)  OBVIOUS
  <2>2. ~(m <= d)  BY <1>3, <1>4, <2>1
  <2>3. m > d /\ d + 1 \in 1..m  BY <1>1, <1>2, <1>4, <2>2
  <2>4. Len(w) > d /\ w[d + 1] = Space  BY <1>2, <1>8, <2>3
  <2>5. QED  BY <2>4 DEF HasPrefix, d
<1>13. m \in Nat \ {0}  BY <1>2, <1>4
<1>14. Form(p) = "short" <=> m <= d  BY <1>3, <1>4
<1>15. Part(p) = IF Form(p) = "full" THEN w \o <<NewLine>> ELSE w  BY <1>5, <1>9, <1>10
<1>16. \A i \in 1..Len(w) : i <= d => w[i] # Space  BY <1>8, <1>11
<1>17. QED  BY <1>3, <1>5, <1>7, <1>8, <1>12, <1>13, <1>14, <1>15, <1>16 DEF d, rec

-----------------------------------------------------------------------------
(***************************************************************************)
(* The file and its lines.                                                 *)
(***************************************************************************)
Parts(g) == [i \in DOMAIN g |-> Part(g[i])]
Bodies(g) == [i \in DOMAIN g |-> Body(g[i])]

\* The line that rests make, the one behind the other.
Span(g, i, k) == Joined(SubSeq(Bodies(g), i, k))

\* The places whose records are replayed.
Places(f) == {i \in DOMAIN f : Valid(f, i) /\ \A j \in 1..i : ~Corrupt(f, j)}

\* The checksum finds every line that is not what append() wrote: in this file
\* no two texts that are taken for each other have the same checksum.
TornNoticed(g) ==
    \A i, k \in 1..Len(g) :
        /\ i <= k /\ Corrupt(Pieces(g), i)
        /\ \A j \in i..(k - 1) : Form(g[j]) # "full"
        /\ Form(g[k]) = "full" \/ k = Len(g)
        => ~Intact(Span(g, i, k))

LEMMA FileFacts ==
    ASSUME NEW T, NEW g \in Seq(T), \A i \in 1..Len(g) : RestOK(g[i])
    PROVE  /\ Len(g) \in Nat /\ DOMAIN g = 1..Len(g)
           /\ Parts(g) \in Seq(Seq(Byte)) /\ Len(Parts(g)) = Len(g)
           /\ Bodies(g) \in Seq(Seq(Byte)) /\ Len(Bodies(g)) = Len(g)
           /\ Records(Pieces(g)) \in Seq(Values) /\ Len(Records(Pieces(g))) = Len(g)
           /\ DOMAIN Pieces(g) = 1..Len(g) /\ Len(Pieces(g)) = Len(g)
           /\ \A i \in 1..Len(g) :
                  /\ Parts(g)[i] = Part(g[i]) /\ Bodies(g)[i] = Body(g[i])
                  /\ Pieces(g)[i].form = Form(g[i]) /\ Records(Pieces(g))[i] = g[i].record
                  /\ Part(g[i]) \in Seq(Byte) /\ Body(g[i]) \in Seq(Byte)
<1> DEFINE n == Len(g)
           V == Seq(Byte)
           P == Parts(g)
           B == Bodies(g)
           f == Pieces(g)
           R == Records(f)
<1>1. n \in Nat /\ DOMAIN g = 1..n  BY LenProperties
<1> HIDE DEF n
<1>2. ASSUME NEW i \in 1..n PROVE Part(g[i]) \in V /\ Body(g[i]) \in V /\ g[i].record \in Values
  <2>0. RestOK(g[i])  BY DEF n
  <2>1. Body(g[i]) \in Seq(Plain)  BY <2>0, BodyFacts
  <2>2. Body(g[i]) \in Seq(Byte)  BY <2>1, PlainIsByte
  <2>3. <<NewLine>> \in Seq(Byte)  BY DEF NewLine, Byte
  <2>4. Body(g[i]) \o <<NewLine>> \in Seq(Byte)  BY <2>2, <2>3, ConcatProperties
  <2>5. Part(g[i]) = IF Form(g[i]) = "full" THEN Body(g[i]) \o <<NewLine>> ELSE Body(g[i])
    BY <2>0, BodyFacts
  <2>6. Part(g[i]) \in Seq(Byte)  BY <2>2, <2>4, <2>5
  <2>7. g[i].record \in Values
    <3>1. /\ Encoded(g[i].record) \in Seq(Byte \ {NewLine, Return})
          /\ Decoded(Encoded(g[i].record)) = g[i].record
      BY <2>0 DEF RestOK, Loggable
    <3>2. Encoded(g[i].record) \in Seq(Plain)  BY <3>1 DEF Plain
    <3>3. Encoded(g[i].record) \in Seq(Byte)  BY <3>2, PlainIsByte
    <3>4. QED  BY <3>1, <3>3 DEF Values
  <2>8. QED  BY <2>2, <2>6, <2>7
<1> HIDE DEF V
<1>3. P = [i \in 1..n |-> Part(g[i])] /\ B = [i \in 1..n |-> Body(g[i])]
  BY <1>1 DEF Parts, Bodies
<1>4. P \in Seq(V) /\ B \in Seq(V) /\ Len(P) = n /\ Len(B) = n
  <2>1. P \in [1..n -> V] /\ B \in [1..n -> V]  BY <1>2, <1>3
  <2> HIDE DEF P, B
  <2>2. P \in Seq(V) /\ B \in Seq(V)  BY <1>1, <2>1
  <2>3. QED  BY <1>1, <2>1, <2>2
<1>5. f = [i \in 1..n |-> [form |-> Form(g[i]), record |-> g[i].record]]  BY <1>1 DEF Pieces
<1> HIDE DEF P, B, f
<1>6. DOMAIN f = 1..n /\ Len(f) = n
  <2> DEFINE W == {f[i] : i \in 1..n}
  <2>1. f \in [1..n -> W]  BY <1>5
  <2> HIDE DEF W
  <2>2. f \in Seq(W)  BY <1>1, <2>1
  <2>3. QED  BY <1>1, <2>1, <2>2
<1>7. \A i \in 1..n : f[i].form = Form(g[i]) /\ f[i].record = g[i].record  BY <1>5
<1>8. R = [i \in 1..n |-> f[i].record]  BY <1>6 DEF Records
<1>9. R \in Seq(Values) /\ Len(R) = n
  <2>1. R \in [1..n -> Values]  BY <1>2, <1>7, <1>8
  <2> HIDE DEF R
  <2>2. R \in Seq(Values)  BY <1>1, <2>1
  <2>3. QED  BY <1>1, <2>1, <2>2
<1>10. \A i \in 1..n : R[i] = g[i].record  BY <1>7, <1>8
<1> HIDE DEF R
<1>11. \A i \in 1..n : P[i] = Part(g[i]) /\ B[i] = Body(g[i])  BY <1>3
<1>12. P \in Seq(Seq(Byte)) /\ B \in Seq(Seq(Byte))  BY <1>4 DEF V
<1>13. \A i \in 1..n : Part(g[i]) \in Seq(Byte) /\ Body(g[i]) \in Seq(Byte)  BY <1>2 DEF V
<1>14. QED  BY <1>1, <1>4, <1>6, <1>7, <1>9, <1>10, <1>11, <1>12, <1>13 DEF n, P, B, f, R

LEMMA SpanGrows ==
    ASSUME NEW T, NEW g \in Seq(T), \A i \in 1..Len(g) : RestOK(g[i]),
           NEW k \in 1..Len(g), NEW s \in 1..k
    PROVE  Span(g, s, k) = Span(g, s, k - 1) \o Body(g[k]) /\ Span(g, s, k - 1) \in Seq(Byte)
<1>1. Bodies(g) \in Seq(Seq(Byte)) /\ Len(Bodies(g)) = Len(g) /\ Bodies(g)[k] = Body(g[k])
  BY FileFacts
<1>2. k \in 1..Len(Bodies(g))  BY <1>1
<1>3. /\ SubSeq(Bodies(g), s, k - 1) \in Seq(Seq(Byte))
      /\ Joined(SubSeq(Bodies(g), s, k)) = Joined(SubSeq(Bodies(g), s, k - 1)) \o Bodies(g)[k]
  BY <1>1, <1>2, JoinedGrows
<1>4. Joined(SubSeq(Bodies(g), s, k - 1)) \in Seq(Byte)  BY <1>3, JoinedType
<1>5. QED  BY <1>1, <1>3, <1>4 DEF Span

LEMMA SpanEmpty ==
    ASSUME NEW g, NEW k \in Int
    PROVE  Span(g, k + 1, k) = <<>>
<1>1. SubSeq(Bodies(g), k + 1, k) = <<>>  BY SubSeqEmpty
<1>2. QED  BY <1>1, JoinedNone DEF Span

LEMMA SpanOne ==
    ASSUME NEW T, NEW g \in Seq(T), \A i \in 1..Len(g) : RestOK(g[i]), NEW k \in 1..Len(g)
    PROVE  Span(g, k, k) = Body(g[k])
<1>1. Len(g) \in Nat  BY FileFacts
<1>2. k \in 1..k /\ k - 1 \in Int /\ (k - 1) + 1 = k  BY <1>1
<1>3. Span(g, k, k) = Span(g, k, k - 1) \o Body(g[k])  BY <1>2, SpanGrows
<1>4. Span(g, k, k - 1) = <<>>
  <2>1. Span(g, (k - 1) + 1, k - 1) = <<>>  BY <1>2, SpanEmpty
  <2>2. QED  BY <1>2, <2>1
<1>5. Body(g[k]) \in Seq(Byte)  BY FileFacts
<1>6. QED  BY <1>3, <1>4, <1>5, ConcatEmptySeq

\* A line that starts with a short rest has no blank at the place for it, any
\* other line has.
NoBlank(line) == \A i \in 1..Len(line) : i <= CrcDigits + 1 => line[i] # Space

SpanOK(g, s, k) ==
    /\ Span(g, s, k) \in Seq(Plain) /\ Len(Span(g, s, k)) >= 1
    /\ Form(g[s]) = "short" => NoBlank(Span(g, s, k))
    /\ Form(g[s]) # "short" => HasPrefix(Span(g, s, k))

LEMMA SpanFacts ==
    ASSUME NEW T, NEW g \in Seq(T), \A i \in 1..Len(g) : RestOK(g[i]),
           NEW k \in 1..Len(g), NEW s \in 1..k
    PROVE  SpanOK(g, s, k)
<1> DEFINE d == CrcDigits
           n == Len(g)
           E == {j \in Nat : s + j <= n => SpanOK(g, s, s + j)}
<1>1. n \in Nat /\ d \in Nat \ {0} /\ s \in 1..n  BY FileFacts, WalBytesAssumption
<1>2. 0 \in E
  <2> DEFINE b == Body(g[s])
  <2>1. s + 0 = s /\ Span(g, s, s) = b /\ RestOK(g[s])  BY <1>1, SpanOne
  <2>2. /\ b \in Seq(Plain) /\ Len(b) \in Nat \ {0}
        /\ \A i \in 1..Len(b) : i <= d => b[i] # Space
        /\ Form(g[s]) = "short" <=> Len(b) <= d
        /\ Form(g[s]) # "short" => HasPrefix(b)
    BY <2>1, BodyFacts
  <2> HIDE DEF b
  <2>3. Form(g[s]) = "short" => NoBlank(b)  BY <1>1, <2>2 DEF NoBlank
  <2>4. SpanOK(g, s, s)  BY <2>1, <2>2, <2>3 DEF SpanOK
  <2>5. QED  BY <2>1, <2>4
<1>3. ASSUME NEW j \in 0..((k - s) - 1), j \in E PROVE j + 1 \in E
  <2> DEFINE q == s + (j + 1)
             a == Span(g, s, s + j)
             b == Body(g[q])
             c == Span(g, s, q)
  <2>1. SUFFICES ASSUME q <= n PROVE SpanOK(g, s, q)  OBVIOUS
  <2>2. q \in 1..n /\ s \in 1..q /\ q - 1 = s + j /\ s + j <= n  BY <1>1, <2>1
  <2>3. SpanOK(g, s, s + j)  BY <1>3, <2>2
  <2>4. a \in Seq(Plain) /\ Len(a) >= 1 /\ Len(a) \in Nat
        /\ (Form(g[s]) = "short" => NoBlank(a)) /\ (Form(g[s]) # "short" => HasPrefix(a))
    BY <2>3, LenProperties DEF SpanOK
  <2>5. c = a \o b
    <3>1. c = Span(g, s, q - 1) \o b  BY <2>2, SpanGrows
    <3>2. QED  BY <2>2, <3>1
  <2>6. RestOK(g[q])  BY <2>2
  <2>7. /\ b \in Seq(Plain) /\ Len(b) \in Nat
        /\ \A i \in 1..Len(b) : i <= d => b[i] # Space
    BY <2>6, BodyFacts
  <2> HIDE DEF a, b, c
  <2>8. /\ c \in Seq(Plain) /\ Len(c) = Len(a) + Len(b)
        /\ \A i \in 1..(Len(a) + Len(b)) : c[i] = IF i <= Len(a) THEN a[i] ELSE b[i - Len(a)]
    BY <2>4, <2>5, <2>7, ConcatProperties
  <2>9. ASSUME NoBlank(a) PROVE NoBlank(c)
    <3>1. ASSUME NEW i \in 1..Len(c), i <= d + 1 PROVE c[i] # Space
      <4>1. CASE i <= Len(a)
        <5>1. i \in 1..Len(a) /\ c[i] = a[i]  BY <2>4, <2>7, <2>8, <4>1
        <5>2. QED  BY <2>9, <3>1, <5>1 DEF NoBlank, d
      <4>2. CASE ~(i <= Len(a))
        <5>1. i - Len(a) \in 1..Len(b) /\ i - Len(a) <= d /\ c[i] = b[i - Len(a)]
          BY <1>1, <2>4, <2>7, <2>8, <3>1, <4>2
        <5>2. QED  BY <2>7, <5>1
      <4>3. QED  BY <4>1, <4>2
    <3>2. QED  BY <3>1 DEF NoBlank, d
  <2>10. ASSUME HasPrefix(a) PROVE HasPrefix(c)
    <3>1. Len(a) > d /\ a[d + 1] = Space  BY <2>10 DEF HasPrefix, d
    <3>2. Len(c) > d /\ d + 1 \in 1..(Len(a) + Len(b)) /\ d + 1 <= Len(a)
      <4>1. ASSUME NEW x \in Nat, NEW y \in Nat, x > d
            PROVE  x + y > d /\ d + 1 \in 1..(x + y) /\ d + 1 <= x
        BY <1>1, <4>1
      <4>2. Len(a) \in Nat /\ Len(b) \in Nat /\ Len(c) = Len(a) + Len(b)  BY <2>4, <2>7, <2>8
      <4>3. QED  BY <3>1, <4>1, <4>2
    <3>3. c[d + 1] = Space  BY <2>8, <3>1, <3>2
    <3>4. QED  BY <3>2, <3>3 DEF HasPrefix, d
  <2>11. Len(c) >= 1  BY <2>4, <2>7, <2>8
  <2>12. QED  BY <2>4, <2>8, <2>9, <2>10, <2>11 DEF SpanOK, c
<1>4. k - s \in E
  <2>1. k - s \in Nat  BY <1>1
  <2> HIDE DEF E
  <2>2. \A i \in 0..(k - s) : i \in E  BY <1>2, <1>3, <2>1, BoundedInduction
  <2>3. QED  BY <2>1, <2>2
<1>5. s + (k - s) = k /\ k <= n  BY <1>1
<1>6. QED  BY <1>4, <1>5

\* A line of plain bytes has nothing to chomp.
LEMMA ChompPlain ==
    ASSUME NEW l \in Seq(Plain), Len(l) >= 1
    PROVE  Chomp(l) = l
<1>1. Len(l) \in 1..Len(l)  BY LenProperties
<1>2. l[Len(l)] \in Plain  BY <1>1, ElementOfSeq
<1>3. l[Len(l)] # Return  BY <1>2 DEF Plain
<1>4. QED  BY <1>3 DEF Chomp

\* Whether something before place s stops the reading.
StoppedBefore(f, s) == \E j \in 1..(s - 1) : Corrupt(f, j)

\* A line starts at s and reaches to q.
OneLine(g, s, q) ==
    /\ LineStart(Pieces(g), s)
    /\ \A j \in s..(q - 1) : Form(g[j]) # "full"

\* At the end of a line its record is taken, the reading stops, or it is passed
\* over, as WalFile says of its pieces.
LEMMA LineTaken ==
    ASSUME NEW T, NEW g \in Seq(T), \A i \in 1..Len(g) : RestOK(g[i]), TornNoticed(g),
           NEW q \in 1..Len(g), NEW s \in 1..q, OneLine(g, s, q),
           Form(g[q]) = "full" \/ q = Len(g),
           NEW r \in ReaderType, r.line = Span(g, s, q),
           r.stopped <=> StoppedBefore(Pieces(g), s)
    PROVE  LET t == TakeLine(r) IN
           /\ t.line = <<>>
           /\ t.stopped <=> StoppedBefore(Pieces(g), q + 1)
           /\ t.commands = IF q \in Places(Pieces(g)) THEN Append(r.commands, g[q].record)
                           ELSE r.commands
<1> DEFINE n == Len(g)
           f == Pieces(g)
           l == Span(g, s, q)
           t == TakeLine(r)
<1>0. /\ n \in Nat /\ DOMAIN f = 1..n /\ Len(f) = n
      /\ \A i \in 1..n : f[i].form = Form(g[i])
  BY FileFacts
<1>n. n = Len(g) /\ f = Pieces(g)  OBVIOUS
<1>a. n \in Nat /\ q \in 1..n /\ s \in 1..q  BY <1>0
<1> HIDE DEF n, f
<1>1. /\ n \in Nat /\ q \in Nat /\ s \in Nat /\ 1 <= s /\ s <= q /\ q <= n
      /\ q \in 1..n /\ s \in 1..n
  BY <1>a
<1>2. l \in Seq(Plain) /\ Len(l) >= 1 /\ (Form(g[s]) = "short" => NoBlank(l))
      /\ (Form(g[s]) # "short" => HasPrefix(l))
  BY SpanFacts DEF SpanOK
<1>3. Chomp(r.line) = l  BY <1>2, ChompPlain
<1>4. LineStart(f, s) /\ \A j \in s..(q - 1) : Form(g[j]) # "full"  BY <1>n DEF OneLine
<1>5. ASSUME NEW j \in (s + 1)..q PROVE ~LineStart(f, j)
  <2>1. j - 1 \in s..(q - 1) /\ j - 1 \in 1..n /\ j # 1  BY <1>1
  <2>2. f[j - 1].form # "full"  BY <1>0, <1>4, <2>1
  <2>3. QED  BY <2>1, <2>2 DEF LineStart
<1>6. StoppedBefore(f, q + 1) <=> (StoppedBefore(f, s) \/ Corrupt(f, s))
  <2>1. ASSUME NEW j \in 1..((q + 1) - 1), Corrupt(f, j) PROVE StoppedBefore(f, s) \/ Corrupt(f, s)
    <3>1. CASE j < s
      <4>1. j \in 1..(s - 1)  BY <1>1, <3>1
      <4>2. QED  BY <2>1, <4>1 DEF StoppedBefore
    <3>2. CASE j = s  BY <2>1, <3>2
    <3>3. CASE j > s
      <4>1. j \in (s + 1)..q  BY <1>1, <3>3
      <4>2. QED  BY <1>5, <2>1, <4>1 DEF Corrupt
    <3>4. QED  BY <1>1, <3>1, <3>2, <3>3
  <2>2. ASSUME StoppedBefore(f, s) PROVE StoppedBefore(f, q + 1)
    <3>1. PICK j \in 1..(s - 1) : Corrupt(f, j)  BY <2>2 DEF StoppedBefore
    <3>2. j \in 1..((q + 1) - 1)  BY <1>1
    <3>3. QED  BY <3>1, <3>2 DEF StoppedBefore
  <2>3. ASSUME Corrupt(f, s) PROVE StoppedBefore(f, q + 1)
    <3>1. s \in 1..((q + 1) - 1)  BY <1>1
    <3>2. QED  BY <2>3, <3>1 DEF StoppedBefore
  <2>4. QED
    <3>1. StoppedBefore(f, q + 1) => StoppedBefore(f, s) \/ Corrupt(f, s)  BY <2>1 DEF StoppedBefore
    <3>2. QED  BY <2>2, <2>3, <3>1
<1>7. q \in Places(f) <=> (Valid(f, q) /\ ~StoppedBefore(f, q + 1))
  <2>1. (q + 1) - 1 = q /\ q \in DOMAIN f  BY <1>0, <1>1
  <2>2. QED  BY <2>1 DEF Places, StoppedBefore
<1>8. r.commands \in Seq(Values) /\ r.stopped \in BOOLEAN  BY ReaderParts
<1> HIDE DEF l
<1>9. CASE Form(g[s]) = "short"
  <2>1. ~HasPrefix(l)
    <3>1. SUFFICES ASSUME Len(l) > CrcDigits, l[CrcDigits + 1] = Space PROVE FALSE  BY DEF HasPrefix
    <3>2. CrcDigits + 1 \in 1..Len(l) /\ CrcDigits + 1 <= CrcDigits + 1
      BY <1>2, <3>1, WalBytesAssumption, LenProperties
    <3>3. QED  BY <1>2, <1>9, <3>1, <3>2 DEF NoBlank
  <2>2. t = Reader(<<>>, r.commands, r.stopped)  BY <1>3, <2>1 DEF TakeLine
  <2>3. ~Corrupt(f, s)  BY <1>0, <1>1, <1>4, <1>9 DEF Corrupt, Passed
  <2>4. ~Valid(f, q)
    <3>1. CASE s = q  BY <1>0, <1>1, <1>9, <3>1 DEF Valid
    <3>2. CASE s # q
      <4>1. q \in (s + 1)..q  BY <1>1, <3>2
      <4>2. QED  BY <1>5, <4>1 DEF Valid
    <3>3. QED  BY <3>1, <3>2
  <2>5. t.line = <<>> /\ t.stopped = r.stopped /\ t.commands = r.commands  BY <2>2 DEF Reader
  <2>6. QED  BY <1>6, <1>7, <2>3, <2>4, <2>5 DEF f
<1>10. CASE Form(g[s]) # "short" /\ s = q /\ Form(g[q]) \in {"full", "whole"}
  <2>1. HasPrefix(l)  BY <1>2, <1>10
  <2>2. Intact(l) /\ Decoded(Document(l)) = g[q].record
    <3>1. l = Body(g[q])  BY <1>10, SpanOne DEF l
    <3>2. RestOK(g[q])  OBVIOUS
    <3>3. QED  BY <1>10, <3>1, <3>2, BodyFacts
  <2>3. f[q].form = Form(g[q]) /\ LineStart(f, q) /\ f[q].form \in {"full", "whole"}
    BY <1>0, <1>1, <1>4, <1>10
  <2>4. LineAlone(f, q)  BY <1>0, <1>n, <2>3 DEF LineAlone
  <2>5. Valid(f, q) /\ ~Corrupt(f, s)  BY <1>10, <2>3, <2>4 DEF Valid, Corrupt
  <2>6. CASE r.stopped
    <3>1. t = Reader(<<>>, r.commands, r.stopped)  BY <1>3, <2>6 DEF TakeLine
    <3>2. t.line = <<>> /\ t.stopped = r.stopped /\ t.commands = r.commands  BY <3>1 DEF Reader
    <3>3. StoppedBefore(f, q + 1)  BY <1>6, <2>6 DEF f
    <3>4. QED  BY <1>7, <2>6, <3>2, <3>3 DEF f
  <2>7. CASE ~r.stopped
    <3>1. t = Reader(<<>>, Append(r.commands, g[q].record), FALSE)
      BY <1>3, <2>1, <2>2, <2>7 DEF TakeLine
    <3>2. t.line = <<>> /\ ~t.stopped /\ t.commands = Append(r.commands, g[q].record)
      BY <3>1 DEF Reader
    <3>3. ~StoppedBefore(f, q + 1)  BY <1>6, <2>5, <2>7 DEF f
    <3>4. QED  BY <1>7, <2>5, <3>2, <3>3 DEF f
  <2>8. QED  BY <2>6, <2>7
<1>11. CASE Form(g[s]) # "short" /\ ~(s = q /\ Form(g[q]) \in {"full", "whole"})
  <2>1. ~Valid(f, s)
    <3>1. CASE s = q  BY <1>0, <1>1, <1>11, <3>1 DEF Valid
    <3>2. CASE s # q
      <4>1. s \in s..(q - 1) /\ s # n  BY <1>1, <3>2
      <4>2. f[s].form # "full" /\ s # Len(f)  BY <1>0, <1>1, <1>4, <4>1
      <4>3. QED  BY <4>2 DEF Valid, LineAlone
    <3>3. QED  BY <3>1, <3>2
  <2>2. ~Passed(f, s)  BY <1>0, <1>1, <1>11 DEF Passed
  <2>3. Corrupt(f, s)  BY <1>4, <2>1, <2>2 DEF Corrupt
  <2>4. ~Intact(l)
    <3>1. s \in 1..Len(g) /\ q \in 1..Len(g) /\ s <= q  BY <1>1, <1>n
    <3>2. QED  BY <1>n, <1>4, <2>3, <3>1, <1>11 DEF TornNoticed, l
  <2>5. HasPrefix(l)  BY <1>2, <1>11
  <2>6. t = Reader(<<>>, r.commands, TRUE)
    <3>1. CASE r.stopped
      <4>1. r.stopped = TRUE  BY <1>8, <3>1
      <4>2. t = Reader(<<>>, r.commands, r.stopped)  BY <1>3, <3>1 DEF TakeLine
      <4>3. QED  BY <4>1, <4>2
    <3>2. CASE ~r.stopped  BY <1>3, <2>4, <2>5, <3>2 DEF TakeLine
    <3>3. QED  BY <3>1, <3>2
  <2>7. t.line = <<>> /\ t.stopped /\ t.commands = r.commands  BY <2>6 DEF Reader
  <2>8. StoppedBefore(f, q + 1)  BY <1>6, <2>3
  <2>9. QED  BY <1>7, <2>7, <2>8 DEF f
<1>12. QED  BY <1>9, <1>10, <1>11

\* What has been read when k pieces have been.
ReadUpTo(g, k, r) ==
    /\ r \in ReaderType
    /\ r.commands = KeptUpTo(Records(Pieces(g)), Places(Pieces(g)))[k]
    /\ \E s \in 1..(k + 1) :
          /\ OneLine(g, s, k + 1)
          /\ r.line = Span(g, s, k)
          /\ r.stopped <=> StoppedBefore(Pieces(g), s)

\* One piece more.
LEMMA PieceRead ==
    ASSUME NEW T, NEW g \in Seq(T), \A i \in 1..Len(g) : RestOK(g[i]), TornNoticed(g),
           NEW q \in 1..Len(g), NEW r, ReadUpTo(g, q - 1, r)
    PROVE  LET t == ReadBytes(r, Part(g[q])) IN
           /\ Form(g[q]) = "full" \/ q < Len(g) => ReadUpTo(g, q, t)
           /\ Form(g[q]) = "full" => t.line = <<>>
           /\ Form(g[q]) # "full" /\ q = Len(g) =>
                  /\ t.line # <<>>
                  /\ TakeLine(t).commands = KeptUpTo(Records(Pieces(g)), Places(Pieces(g)))[q]
<1> DEFINE n == Len(g)
           f == Pieces(g)
           b == Body(g[q])
           R == Records(f)
           I == Places(f)
           K == KeptUpTo(R, I)
           t == ReadBytes(r, Part(g[q]))
<1>1. /\ n \in Nat /\ DOMAIN f = 1..n /\ Len(f) = n /\ R \in Seq(Values) /\ Len(R) = n
      /\ \A i \in 1..n : f[i].form = Form(g[i])
      /\ R[q] = g[q].record /\ b \in Seq(Byte)
  BY FileFacts
<1>2. K[q] = KeptStep(R, I, K[q - 1], q)
  <2>1. q \in 1..Len(R)  BY <1>1
  <2> HIDE DEF R, I
  <2>2. QED  BY <1>1, <2>1, KeptUnfolds
<1>3. r \in ReaderType /\ r.commands = K[q - 1]  BY DEF ReadUpTo
<1>n. n = Len(g) /\ q \in 1..n /\ n \in Nat  BY <1>1
<1>4. (q - 1) + 1 = q /\ (q + 1) - 1 = q  BY <1>1
<1>5. PICK s \in 1..q : /\ OneLine(g, s, q)
                        /\ r.line = Span(g, s, q - 1)
                        /\ r.stopped <=> StoppedBefore(f, s)
  BY <1>4 DEF ReadUpTo
<1>6. RestOK(g[q])  OBVIOUS
<1>7. b \in Seq(Plain) /\ Part(g[q]) = IF Form(g[q]) = "full" THEN b \o <<NewLine>> ELSE b
  BY <1>6, BodyFacts
<1> DEFINE u == ReadBytes(r, b)
<1>8. u \in ReaderType /\ u.line = Span(g, s, q) /\ u.commands = K[q - 1]
      /\ u.stopped = r.stopped
  <2>1. u = Reader(r.line \o b, r.commands, r.stopped)  BY <1>3, <1>7, ReadPlain
  <2>2. Span(g, s, q) = r.line \o b
    <3>1. Span(g, s, q) = Span(g, s, q - 1) \o b  BY SpanGrows
    <3>2. QED  BY <1>5, <3>1
  <2>3. u \in ReaderType  BY <1>1, <1>3, ReadBytesType
  <2> HIDE DEF u, b
  <2>4. u.line = r.line \o b /\ u.commands = r.commands /\ u.stopped = r.stopped
    BY <2>1 DEF Reader
  <2>5. QED  BY <1>3, <2>2, <2>3, <2>4
<1>9. u.stopped <=> StoppedBefore(f, s)  BY <1>5, <1>8
<1> HIDE DEF u, K, b, R, I, n
<1>10. CASE Form(g[q]) = "full"
  <2>1. t = TakeLine(u)
    <3>1. <<NewLine>> \in Seq(Byte)  BY DEF NewLine, Byte
    <3>2. ReadBytes(r, b \o <<NewLine>>) = ReadBytes(u, <<NewLine>>)
      BY <1>1, <1>3, <3>1, ReadInParts DEF u
    <3>3. QED  BY <1>7, <1>8, <1>10, <3>2, ReadNewLine
  <2>2. /\ t.line = <<>>
        /\ t.stopped <=> StoppedBefore(f, q + 1)
        /\ t.commands = IF q \in I THEN Append(u.commands, g[q].record) ELSE u.commands
    <3>1. LET v == TakeLine(u) IN
          /\ v.line = <<>>
          /\ v.stopped <=> StoppedBefore(Pieces(g), q + 1)
          /\ v.commands = IF q \in Places(Pieces(g)) THEN Append(u.commands, g[q].record)
                          ELSE u.commands
      BY <1>5, <1>8, <1>9, <1>10, LineTaken
    <3>2. QED  BY <2>1, <3>1 DEF I
  <2>3. t \in ReaderType  BY <1>8, <2>1, TakeLineType
  <2>4. t.commands = K[q]  BY <1>1, <1>2, <1>8, <2>2 DEF KeptStep
  <2>5. OneLine(g, q + 1, q + 1)
    <3>1. LineStart(f, q + 1)  BY <1>1, <1>n, <1>4, <1>10 DEF LineStart
    <3>2. \A j \in (q + 1)..((q + 1) - 1) : FALSE  BY <1>1, <1>n
    <3>3. QED  BY <3>1, <3>2 DEF OneLine
  <2>6. t.line = Span(g, q + 1, q)
    <3>1. q \in Int  BY <1>1, <1>n
    <3>2. QED  BY <2>2, <3>1, SpanEmpty
  <2>7. q + 1 \in 1..(q + 1)  BY <1>1, <1>n
  <2> HIDE DEF t
  <2>8. ReadUpTo(g, q, t)  BY <2>2, <2>3, <2>4, <2>5, <2>6, <2>7 DEF ReadUpTo, K, R, I
  <2>9. QED  BY <1>10, <2>2, <2>8 DEF t
<1>11. CASE Form(g[q]) # "full"
  <2>1. t = u  BY <1>7, <1>11 DEF u
  <2>2. OneLine(g, s, q + 1)
    <3>1. \A j \in s..((q + 1) - 1) : j \in s..(q - 1) \/ j = q  BY <1>1, <1>n
    <3>2. QED  BY <1>5, <1>11, <3>1 DEF OneLine
  <2>3. CASE q < n
    <3>0. q # n  BY <1>n, <2>3
    <3>1. ~LineAlone(f, q)
      <4>1. f[q].form # "full" /\ Len(f) = n  BY <1>1, <1>n, <1>11
      <4>2. QED  BY <3>0, <4>1 DEF LineAlone
    <3>2. q \notin I  BY <3>1 DEF I, Places, Valid
    <3>3. t.commands = K[q]  BY <1>2, <1>8, <2>1, <3>2 DEF KeptStep
    <3>4. s \in 1..(q + 1)  BY <1>1, <1>n
    <3> HIDE DEF t
    <3>5. ReadUpTo(g, q, t)  BY <1>8, <1>9, <2>1, <2>2, <3>3, <3>4 DEF ReadUpTo, K, R, I
    <3>6. QED  BY <1>n, <1>11, <3>0, <3>5 DEF t
  <2>4. CASE q = n
    <3>1. LET v == TakeLine(u) IN
          v.commands = IF q \in Places(Pieces(g)) THEN Append(u.commands, g[q].record)
                       ELSE u.commands
      BY <1>n, <1>5, <1>8, <1>9, <2>4, LineTaken
    <3>2. TakeLine(t).commands = K[q]  BY <1>1, <1>2, <1>8, <2>1, <3>1 DEF KeptStep, I
    <3>3. t.line # <<>>
      <4>1. Len(Span(g, s, q)) >= 1  BY SpanFacts DEF SpanOK
      <4>2. QED  BY <1>8, <2>1, <4>1
    <3>4. ~(q < n)  BY <1>n, <2>4
    <3>5. ~(q < Len(g)) /\ K[q] = KeptUpTo(Records(Pieces(g)), Places(Pieces(g)))[q]
      BY <1>n, <3>4 DEF K, R, I
    <3> HIDE DEF t
    <3>6. QED  BY <1>11, <3>2, <3>3, <3>5 DEF t
  <2>5. QED  BY <1>1, <1>n, <2>3, <2>4
<1>12. QED  BY <1>10, <1>11

LEMMA ReadNothing ==
    ASSUME NEW r \in ReaderType
    PROVE  ReadBytes(r, <<>>) = r
<1>1. <<>> \in Seq(Plain)  OBVIOUS
<1>2. r.line \in Seq(Byte) /\ r = Reader(r.line, r.commands, r.stopped)  BY ReaderParts
<1>3. ReadBytes(r, <<>>) = Reader(r.line \o <<>>, r.commands, r.stopped)  BY <1>1, ReadPlain
<1>4. r.line \o <<>> = r.line  BY <1>2, ConcatEmptySeq
<1>5. QED  BY <1>2, <1>3, <1>4

\* The loop of replay_commands() when the first k pieces have been read.
Opened == Reader(<<>>, <<>>, FALSE)
After(g, k) == ReadBytes(Opened, Joined(SubSeq(Parts(g), 1, k)))

LEMMA ReadUpToStart ==
    ASSUME NEW T, NEW g \in Seq(T), \A i \in 1..Len(g) : RestOK(g[i])
    PROVE  After(g, 0) = Opened /\ ReadUpTo(g, 0, Opened)
<1> DEFINE f == Pieces(g)
           R == Records(f)
           I == Places(f)
<1>1. <<>> \in Seq(Byte) /\ <<>> \in Seq(Values)  OBVIOUS
<1>2. /\ Opened \in ReaderType /\ Opened.line = <<>> /\ Opened.commands = <<>>
      /\ Opened.stopped = FALSE
  BY <1>1, ReaderIsTyped DEF Opened
<1>3. SubSeq(Parts(g), 1, 0) = <<>>  BY SubSeqEmpty
<1>4. After(g, 0) = Opened  BY <1>2, <1>3, JoinedNone, ReadNothing DEF After
<1>5. R \in Seq(Values)  BY FileFacts
<1> HIDE DEF f, R, I
<1>6. KeptUpTo(R, I)[0] = <<>>  BY <1>5, KeptUnfolds
<1>7. OneLine(g, 1, 0 + 1)  BY DEF OneLine, LineStart
<1>8. Span(g, 1, 0) = <<>>
  <2>1. 0 + 1 = 1 /\ 0 \in Int  OBVIOUS
  <2>2. QED  BY <2>1, SpanEmpty
<1>9. ~StoppedBefore(f, 1)  BY DEF StoppedBefore
<1>10. 1 \in 1..(0 + 1)  OBVIOUS
<1>11. QED  BY <1>2, <1>4, <1>6, <1>7, <1>8, <1>9, <1>10 DEF ReadUpTo, f, R, I

LEMMA AfterPiece ==
    ASSUME NEW T, NEW g \in Seq(T), \A i \in 1..Len(g) : RestOK(g[i]), NEW k \in 1..Len(g)
    PROVE  After(g, k) = ReadBytes(After(g, k - 1), Part(g[k]))
<1>1. Parts(g) \in Seq(Seq(Byte)) /\ Len(Parts(g)) = Len(g) /\ Parts(g)[k] = Part(g[k])
  BY FileFacts
<1>2. Opened \in ReaderType
  <2>1. <<>> \in Seq(Byte) /\ <<>> \in Seq(Values)  OBVIOUS
  <2>2. QED  BY <2>1, ReaderIsTyped DEF Opened
<1>3. k \in 1..Len(Parts(g))  BY <1>1
<1>4. QED  BY <1>1, <1>2, <1>3, ReadJoined DEF After

\* Read in bytes or in pieces, the log gives the same commands: whatever processes
\* that died in the middle of a line, and others that went on behind them, left in
\* the file, if the checksum tells every torn line.
THEOREM FileReadsAsPieces ==
    ASSUME NEW T, NEW g \in Seq(T), \A i \in 1..Len(g) : RestOK(g[i]), TornNoticed(g)
    PROVE  ReadsAsPieces(g)
<1> DEFINE n == Len(g)
           f == Pieces(g)
           R == Records(f)
           K == KeptUpTo(R, Places(f))
           S == {k \in Nat : k < n => ReadUpTo(g, k, After(g, k))}
<1>1. /\ n \in Nat /\ Parts(g) \in Seq(Seq(Byte)) /\ Len(Parts(g)) = n /\ Len(R) = n
      /\ DOMAIN g = 1..n
  BY FileFacts
<1>2. ReplayCommands(f) = K[n]
  <2>1. ReplayCommands(f) = Kept(R, Places(f))  BY DEF ReplayCommands, Places
  <2>2. QED  BY <1>1, <2>1 DEF Kept
<1>3. ReplayBytes(File(g)) = IF After(g, n).line = <<>> THEN After(g, n).commands
                             ELSE TakeLine(After(g, n)).commands
  <2>1. SubSeq(Parts(g), 1, n) = Parts(g)
    <3> DEFINE V == Seq(Byte)
    <3>1. Parts(g) \in Seq(V)  BY <1>1
    <3> HIDE DEF V
    <3>2. SubSeq(Parts(g), 1, Len(Parts(g))) = Parts(g)  BY <3>1, SubSeqFull
    <3>3. QED  BY <1>1, <3>2
  <2>2. File(g) = Joined(Parts(g))  BY DEF File, Parts, Part
  <2>3. QED  BY <2>1, <2>2 DEF ReplayBytes, After, Opened
<1>n. n = Len(g)  OBVIOUS
<1> HIDE DEF n, f, R, K
<1>4. 0 \in S
  <2>1. ReadUpTo(g, 0, After(g, 0))  BY ReadUpToStart
  <2>2. QED  BY <2>1
<1>5. ASSUME NEW k \in 0..((n - 1) - 1), k \in S PROVE k + 1 \in S
  <2> DEFINE q == k + 1
  <2>1. q \in 1..n /\ q < n /\ q - 1 = k /\ k < n /\ q \in Nat  BY <1>1, <1>5
  <2>2. ReadUpTo(g, q - 1, After(g, q - 1))  BY <1>5, <2>1
  <2>3. q \in 1..Len(g) /\ q < Len(g)  BY <1>n, <2>1
  <2> HIDE DEF q
  <2>4. After(g, q) = ReadBytes(After(g, q - 1), Part(g[q]))  BY <2>3, AfterPiece
  <2>5. ReadUpTo(g, q, ReadBytes(After(g, q - 1), Part(g[q])))  BY <2>2, <2>3, PieceRead
  <2>6. ReadUpTo(g, q, After(g, q))  BY <2>4, <2>5
  <2>7. QED  BY <2>1, <2>6 DEF q
<1>6. CASE n = 0
  <2>1. After(g, n) = Opened /\ ReadUpTo(g, n, After(g, n))  BY <1>6, ReadUpToStart
  <2>2. After(g, n).line = <<>>  BY <2>1 DEF Opened, Reader
  <2>3. After(g, n).commands = K[n]  BY <2>1 DEF ReadUpTo, K, R, f
  <2>4. ReplayBytes(File(g)) = ReplayCommands(f)  BY <1>2, <1>3, <2>2, <2>3
  <2>5. QED  BY <2>4 DEF ReadsAsPieces, f
<1>7. CASE n # 0
  <2>1. n - 1 \in Nat /\ n - 1 < n /\ n \in 1..n  BY <1>1, <1>7
  <2>2. ReadUpTo(g, n - 1, After(g, n - 1))
    <3>1. n - 1 \in S
      <4> HIDE DEF S
      <4>1. \A i \in 0..(n - 1) : i \in S  BY <1>4, <1>5, <2>1, BoundedInduction
      <4>2. QED  BY <2>1, <4>1
    <3>2. QED  BY <2>1, <3>1
  <2>3. n \in 1..Len(g) /\ n = Len(g)  BY <1>n, <2>1
  <2>4. After(g, n) = ReadBytes(After(g, n - 1), Part(g[n]))  BY <2>3, AfterPiece
  <2>5. LET t == ReadBytes(After(g, n - 1), Part(g[n])) IN
        /\ Form(g[n]) = "full" \/ n < Len(g) => ReadUpTo(g, n, t)
        /\ Form(g[n]) = "full" => t.line = <<>>
        /\ Form(g[n]) # "full" /\ n = Len(g) =>
               /\ t.line # <<>>
               /\ TakeLine(t).commands = KeptUpTo(Records(Pieces(g)), Places(Pieces(g)))[n]
    BY <2>2, <2>3, PieceRead
  <2> DEFINE t == After(g, n)
  <2>6. /\ Form(g[n]) = "full" => ReadUpTo(g, n, t) /\ t.line = <<>>
        /\ Form(g[n]) # "full" => t.line # <<>> /\ TakeLine(t).commands = K[n]
    BY <2>3, <2>4, <2>5 DEF K, R, f
  <2>7. Form(g[n]) = "full" => t.commands = K[n]  BY <2>6 DEF ReadUpTo, K, R, f
  <2>8. ReplayBytes(File(g)) = ReplayCommands(f)  BY <1>2, <1>3, <2>6, <2>7
  <2>9. QED  BY <2>8 DEF ReadsAsPieces, f
<1>8. QED  BY <1>6, <1>7

\* Of two commands that can be logged, the log is read as the log in pieces with
\* its last line cut anywhere, and when the next process goes on behind the cut.
THEOREM CrashedLogIsRead ==
    ASSUME Loggable(LogRecord(batch[1])), Loggable(LogRecord(batch[2])),
           TornNoticed(<<Complete(LogRecord(batch[2])), Rest(LogRecord(batch[1]), cut)>>),
           TornNoticed(<<Rest(LogRecord(batch[1]), cut), Complete(LogRecord(batch[2])),
                         Complete(LogRecord(batch[1]))>>)
    PROVE  LogReadsAsPieces
<1> DEFINE a == LogRecord(batch[1])
           b == LogRecord(batch[2])
           x == Rest(a, cut)
           y == Complete(b)
           z == Complete(a)
<1>1. SUFFICES ASSUME cut \in 1..LineSize(a)
               PROVE  ReadsAsPieces(<<y, x>>) /\ ReadsAsPieces(<<x, y, z>>)
  BY DEF LogReadsAsPieces
<1>2. LineSize(a) \in 1..LineSize(a) /\ LineSize(b) \in 1..LineSize(b)
  <2>1. /\ LineSize(a) \in Nat /\ LineSize(a) >= CrcDigits + 2
        /\ LineSize(b) \in Nat /\ LineSize(b) >= CrcDigits + 2
    BY LineFacts
  <2>2. QED  BY <2>1, WalBytesAssumption
<1>3. RestOK(x) /\ RestOK(y) /\ RestOK(z)  BY <1>1, <1>2 DEF RestOK, Rest, Complete
<1>4. TornNoticed(<<y, x>>) /\ TornNoticed(<<x, y, z>>)  OBVIOUS
<1> HIDE DEF x, y, z
<1>5. ReadsAsPieces(<<y, x>>)
  <2> DEFINE g == <<y, x>>
  <2>1. g \in Seq({x, y, z}) /\ Len(g) = 2 /\ g[1] = y /\ g[2] = x  OBVIOUS
  <2> HIDE DEF g
  <2>2. \A i \in 1..Len(g) : i = 1 \/ i = 2  BY <2>1
  <2>3. \A i \in 1..Len(g) : RestOK(g[i])  BY <1>3, <2>1, <2>2
  <2>4. TornNoticed(g)  BY <1>4 DEF g
  <2>5. ReadsAsPieces(g)  BY <2>1, <2>3, <2>4, FileReadsAsPieces
  <2>6. QED  BY <2>5 DEF g
<1>6. ReadsAsPieces(<<x, y, z>>)
  <2> DEFINE g == <<x, y, z>>
  <2>1. g \in Seq({x, y, z}) /\ Len(g) = 3 /\ g[1] = x /\ g[2] = y /\ g[3] = z  OBVIOUS
  <2> HIDE DEF g
  <2>2. \A i \in 1..Len(g) : i = 1 \/ i = 2 \/ i = 3  BY <2>1
  <2>3. \A i \in 1..Len(g) : RestOK(g[i])  BY <1>3, <2>1, <2>2
  <2>4. TornNoticed(g)  BY <1>4 DEF g
  <2>5. ReadsAsPieces(g)  BY <2>1, <2>3, <2>4, FileReadsAsPieces
  <2>6. QED  BY <2>5 DEF g
<1>7. QED  BY <1>5, <1>6

\* The bytes of a log whose lines are all complete.
CompleteLog(f) == [i \in DOMAIN f |-> Complete(f[i].record)]

\* Complete lines are read as such, whatever the checksum is.
LEMMA WholeInBytes ==
    ASSUME NEW f \in Seq(Piece), Whole(f), \A e \in Entry : Loggable(e)
    PROVE  ReplayBytes(File(CompleteLog(f))) = ReplayCommands(f)
<1> DEFINE n == Len(f)
           g == CompleteLog(f)
<1>1. n \in Nat /\ DOMAIN f = 1..n /\ f \in [1..n -> Piece]  BY LenProperties
<1>2. \A i \in 1..n : f[i] \in Piece /\ f[i].form = "full" /\ f[i].record \in Entry
  BY <1>1 DEF Whole, Piece
<1> HIDE DEF n
<1>3. g = [i \in 1..n |-> Complete(f[i].record)]  BY <1>1 DEF CompleteLog
<1> HIDE DEF g
<1>4. ASSUME NEW i \in 1..n PROVE RestOK(g[i]) /\ Form(g[i]) = "full" /\ g[i].record = f[i].record
  <2> DEFINE e == f[i].record
             z == LineSize(e)
  <2>1. g[i] = [record |-> e, size |-> z]  BY <1>3 DEF Complete, Rest
  <2>2. Loggable(e)  BY <1>2
  <2>3. z \in Nat /\ z >= CrcDigits + 2 /\ CrcDigits \in Nat  BY <2>2, LineFacts, WalBytesAssumption
  <2>4. g[i].record = e /\ g[i].size = z /\ LineSize(g[i].record) = z  BY <2>1
  <2> HIDE DEF e, z
  <2>5. RestOK(g[i])  BY <2>2, <2>3, <2>4 DEF RestOK
  <2>6. Form(g[i]) = "full"  BY <2>3, <2>4 DEF Form
  <2>7. QED  BY <2>4, <2>5, <2>6 DEF e
<1> DEFINE T == {g[i] : i \in 1..n}
<1>5. g \in Seq(T) /\ Len(g) = n
  <2>1. g \in [1..n -> T]  BY <1>3
  <2> HIDE DEF T
  <2>2. g \in Seq(T)  BY <1>1, <2>1
  <2>3. QED  BY <1>1, <2>1, <2>2
<1>6. Pieces(g) = f
  <2>1. DOMAIN g = 1..n  BY <1>3
  <2>2. Pieces(g) = [i \in 1..n |-> [form |-> Form(g[i]), record |-> g[i].record]]
    BY <2>1 DEF Pieces
  <2>3. ASSUME NEW i \in 1..n PROVE [form |-> Form(g[i]), record |-> g[i].record] = f[i]
    <3>1. f[i] = [form |-> f[i].form, record |-> f[i].record]  BY <1>2 DEF Piece
    <3>2. QED  BY <1>2, <1>4, <3>1
  <2>4. f = [i \in 1..n |-> f[i]]  BY <1>1
  <2>5. QED  BY <2>2, <2>3, <2>4
<1>7. TornNoticed(g)
  <2>1. ASSUME NEW i \in 1..n PROVE ~Corrupt(f, i)
    BY <1>2 DEF Corrupt, Valid, LineAlone
  <2>2. QED  BY <1>5, <1>6, <2>1 DEF TornNoticed
<1> HIDE DEF T
<1>8. \A i \in 1..Len(g) : RestOK(g[i])  BY <1>4, <1>5
<1>9. ReadsAsPieces(g)  BY <1>5, <1>7, <1>8, FileReadsAsPieces
<1>10. QED  BY <1>6, <1>9 DEF ReadsAsPieces, g

\* Between two steps of a store in which nothing failed, what replay_shard() reads
\* out of the bytes of the log rebuilds the books of the live engine.
THEOREM BytesRebuildEngine ==
    ASSUME \A e \in Entry : Loggable(e)
    PROVE  Spec => [](/\ trouble = "none"
                      /\ pc \in {"idle", "flush", "save", "write", "rename"} /\ open
                      => Books(Loaded(snapshot) \o
                               Books(ReplayBytes(File(CompleteLog(file \o Lines(pending)))))) =
                         Books(engine))
<1> DEFINE Healthy == /\ trouble = "none"
                      /\ pc \in {"idle", "flush", "save", "write", "rename"} /\ open
           Read == Books(Loaded(snapshot) \o
                         Books(ReplayBytes(File(CompleteLog(file \o Lines(pending))))))
<1>1. ShardInv /\ Recoverable => (Healthy => Read = Books(engine))
  <2>0. SUFFICES ASSUME ShardInv, Recoverable, Healthy PROVE Read = Books(engine)  OBVIOUS
  <2> DEFINE w == file \o Lines(pending)
  <2>1. TypeOK /\ LogInv  BY <2>0 DEF ShardInv
  <2>2. file \in Seq(Piece) /\ pending \in Calls  BY <2>1, LoggedFacts DEF Calls
  <2>3. Whole(file)  BY <2>0, <2>1 DEF LogInv
  <2>4. w \in Seq(Piece) /\ Whole(w)  BY <2>2, <2>3, WrittenFacts DEF Calls
  <2>5. Books(Rebuilt(snapshot, w)) = Books(engine)  BY <2>0 DEF Recoverable
  <2> HIDE DEF w
  <2>6. ReplayBytes(File(CompleteLog(w))) = ReplayCommands(w)  BY <2>4, WholeInBytes
  <2>7. Books(Loaded(snapshot) \o Books(ReplayBytes(File(CompleteLog(w))))) = Books(engine)
    BY <2>5, <2>6 DEF Rebuilt
  <2>8. QED  BY <2>7 DEF w
<1> HIDE DEF Healthy, Read
<1>2. Spec => [](Healthy => Read = Books(engine))  BY <1>1, Invariance, RebuildsEngine, PTL
<1>3. QED  BY <1>2 DEF Healthy, Read
=============================================================================
