------------------------ MODULE EncryptServerProofs -------------------------
(***************************************************************************)
(* The encrypt server for any number of clients, keys, bins and requests:  *)
(* its types, OwnAnswer and DecryptAfterEncrypt, that every bin of the     *)
(* hash table stays sorted, and that the table is a map.                   *)
(***************************************************************************)
EXTENDS EncryptServer, NumberFacts, SequenceTheorems

(* A connection that waits is that of a client which has connected, and no two of them   *)
(* are the same.                                                                         *)
Waiting ==
    /\ \A m, n \in DOMAIN queue : queue[m] = queue[n] => m = n
    /\ \A n \in DOMAIN queue : /\ client[queue[n]] # "start" /\ reply[queue[n]] = None
                               /\ read[queue[n]] = NoRequest

(* What the clients have asked and got, and what the server took it for. *)
Asking ==
    \A c \in Clients :
        /\ client[c] \in {"start", "connected"} => asked[c] = NoRequest /\ read[c] = NoRequest
        /\ c \in served => read[c] # NoRequest
        /\ (asked[c] # NoRequest /\ read[c] # NoRequest) => read[c] \in Tokens(asked[c])
        /\ reply[c] # None => /\ asked[c] # NoRequest /\ read[c] # NoRequest
                              /\ c \in served \/ read[c].head = "digit"
                              /\ reply[c] = asked[c].op

(* Some request to encrypt key was carried out. *)
Encrypted(key) == \E d \in served : read[d].head = "e" /\ read[d].func = key

(* While a connection is served, its client is not in the queue as well; the line buffer *)
(* has its line, and when an answer goes out there was a reason for it.  Nothing is in   *)
(* the buffer for a client that has sent nothing, except for one that is dead.           *)
Serving ==
    /\ server \in {"recv", "handle", "send"} =>
          client[conn] # "start" /\ reply[conn] = None /\ \A n \in DOMAIN queue : queue[n] # conn
    /\ server = "recv" => read[conn] = NoRequest
    /\ server \in {"handle", "send"} => /\ str = read[conn] /\ str # NoRequest
                                        /\ asked[conn] = NoRequest => client[conn] = "dead"
    /\ server = "send" => /\ conn \in served \/ str.head = "digit"
                          /\ str.head = "d" => Encrypted(str.func)

(* The table has only what was put there, and so have the answers to decrypts. *)
Entries ==
    /\ \A b \in 0 .. Size - 1 : \A n \in DOMAIN ht[b] : Encrypted(ht[b][n].key)
    /\ \A c \in Clients : (reply[c] # None /\ read[c].head = "d") => Encrypted(read[c].func)

IInv == ServerTypeOK /\ BinsSorted /\ Waiting /\ Asking /\ Serving /\ Entries

(* The lists of the hash table. *)

(* The walk along a bin stops behind the pairs that come before the key, and before the *)
(* others.                                                                              *)
LEMMA StopIs ==
    ASSUME NEW list \in Seq(Pair), NEW key \in Keys
    PROVE  /\ Stop(list, key) \in 1 .. Len(list) + 1
           /\ \A m \in 1 .. Len(list) : m < Stop(list, key) => list[m].key < key
           /\ Stop(list, key) <= Len(list) => list[Stop(list, key)].key >= key
<1> DEFINE T == Stops(list, key)
           n == Stop(list, key)
<1>0. Len(list) \in Nat /\ \A m \in 1 .. Len(list) : list[m] \in Pair
  OBVIOUS
<1>1. Len(list) \in Nat /\ \A m \in 1 .. Len(list) : list[m].key \in Nat
  BY <1>0, HashAssumption DEF Pair
<1>2. T \subseteq Nat
  BY <1>1 DEF Stops
<1>3. Len(list) + 1 \in T
  BY <1>1 DEF Stops
<1>4. n \in T /\ \A m \in T : n <= m
  BY <1>2, <1>3, LeastNatural DEF Stop
<1>5. n \in 1 .. Len(list) + 1 /\ (n <= Len(list) => list[n].key >= key)
  BY <1>4 DEF Stops
<1>6. ASSUME NEW m \in 1 .. Len(list), m < n PROVE list[m].key < key
  <2>1. m \notin T
    BY <1>1, <1>4, <1>5, <1>6
  <2>2. ~(list[m].key >= key)
    BY <1>1, <2>1 DEF Stops
  <2> QED
    BY <1>1, <2>2, HashAssumption
<1> QED
  BY <1>5, <1>6

(* What a list has when an element was linked in at place n. *)
LEMMA InsertIs ==
    ASSUME NEW S, NEW list \in Seq(S), NEW e \in S, NEW n \in 1 .. Len(list) + 1
    PROVE  /\ InsertAt(list, n, e) \in Seq(S) /\ Len(InsertAt(list, n, e)) = Len(list) + 1
           /\ \A k \in 1 .. Len(list) + 1 :
                 InsertAt(list, n, e)[k] = IF k < n THEN list[k] ELSE IF k = n THEN e ELSE list[k - 1]
<1> DEFINE L == Len(list)
           front == SubSeq(list, 1, n - 1)
           back  == SubSeq(list, n, L)
<1>1. L \in Nat /\ n \in Nat
  OBVIOUS
<1>2. front \in Seq(S) /\ Len(front) = n - 1 /\ \A k \in 1 .. n - 1 : front[k] = list[k]
  BY <1>1
<1>3. back \in Seq(S) /\ Len(back) = L - n + 1 /\ \A k \in 1 .. L - n + 1 : back[k] = list[n + k - 1]
  BY <1>1
<1>4. <<e>> \in Seq(S) /\ Len(<<e>>) = 1 /\ <<e>>[1] = e
  OBVIOUS
<1> HIDE DEF front, back
<1>5. /\ front \o <<e>> \in Seq(S) /\ Len(front \o <<e>>) = n
      /\ \A k \in 1 .. n : (front \o <<e>>)[k] = IF k < n THEN list[k] ELSE e
  BY <1>1, <1>2, <1>4
<1>6. InsertAt(list, n, e) = (front \o <<e>>) \o back
  BY DEF InsertAt, front, back
<1> DEFINE ff == front \o <<e>>
<1>7. ff \in Seq(S) /\ Len(ff) = n /\ \A k \in 1 .. n : ff[k] = IF k < n THEN list[k] ELSE e
  BY <1>5
<1> HIDE DEF ff
<1>8. /\ ff \o back \in Seq(S) /\ Len(ff \o back) = n + (L - n + 1)
      /\ \A k \in 1 .. n + (L - n + 1) : (ff \o back)[k] = IF k <= n THEN ff[k] ELSE back[k - n]
  <2>1. /\ ff \o back \in Seq(S) /\ Len(ff \o back) = Len(ff) + Len(back)
        /\ \A k \in 1 .. Len(ff) + Len(back) :
              (ff \o back)[k] = IF k <= Len(ff) THEN ff[k] ELSE back[k - Len(ff)]
    <3>1. ff \in Seq(S) /\ back \in Seq(S)
      BY <1>3, <1>7
    <3> QED
      BY <3>1, ConcatProperties, Zenon
  <2>2. Len(ff) = n /\ Len(back) = L - n + 1
    BY <1>3, <1>7
  <2> QED
    BY <2>1, <2>2, Zenon
<1>9. ASSUME NEW k \in 1 .. L + 1
      PROVE  (ff \o back)[k] = IF k < n THEN list[k] ELSE IF k = n THEN e ELSE list[k - 1]
  <2>1. CASE k <= n
    BY <1>1, <1>7, <1>8, <2>1
  <2>2. CASE k > n
    <3>1. k - n \in 1 .. L - n + 1 /\ n + (k - n) - 1 = k - 1
      BY <1>1, <2>2
    <3>2. back[k - n] = list[n + (k - n) - 1]
      BY <1>3, <3>1
    <3> QED
      BY <1>1, <1>8, <2>2, <3>1, <3>2
  <2>3. k \in Nat /\ n \in Nat
    BY <1>1
  <2>4. k <= n \/ k > n
    BY <2>3
  <2> QED
    BY <2>1, <2>2, <2>4
<1> QED
  BY <1>1, <1>6, <1>8, <1>9 DEF ff

(* What htSet makes of a bin and what htGet finds in one. *)
Sorted(list) == \A m, n \in DOMAIN list : m < n => list[m].key < list[n].key

NewList(list, key, value) ==
    IF Present(list, key) THEN [list EXCEPT ![Stop(list, key)].value = value]
                          ELSE InsertAt(list, Stop(list, key), htNewpair(key, value))

(* A sorted list has a key only where the walk stops. *)
LEMMA FoundIs ==
    ASSUME NEW list \in Seq(Pair), Sorted(list), NEW key \in Keys, NEW m \in DOMAIN list
    PROVE  /\ list[m].key = key => m = Stop(list, key) /\ Present(list, key)
           /\ m > Stop(list, key) => list[m].key > key
           /\ m = Stop(list, key) /\ ~Present(list, key) => list[m].key > key
<1> DEFINE n == Stop(list, key)
<1>1. /\ n \in 1 .. Len(list) + 1 /\ (\A k \in 1 .. Len(list) : k < n => list[k].key < key)
      /\ n <= Len(list) => list[n].key >= key
  BY StopIs
<1>2. DOMAIN list = 1 .. Len(list) /\ Len(list) \in Nat /\ \A k \in 1 .. Len(list) : list[k] \in Pair
  OBVIOUS
<1>3. key \in Nat /\ \A k \in 1 .. Len(list) : list[k].key \in Nat
  BY <1>2, HashAssumption DEF Pair
<1> HIDE DEF n
<1>4. m > n => list[m].key > key
  <2> SUFFICES ASSUME m > n PROVE list[m].key > key
    OBVIOUS
  <2>1. n \in 1 .. Len(list) /\ m \in 1 .. Len(list)
    BY <1>1, <1>2
  <2>2. list[n].key < list[m].key /\ list[n].key >= key
    BY <1>1, <1>2, <2>1 DEF Sorted
  <2> QED
    BY <1>3, <2>1, <2>2
<1>5. list[m].key = key => m = n
  BY <1>1, <1>2, <1>3, <1>4
<1>6. m = n => (Present(list, key) <=> list[m].key = key)
  BY <1>2 DEF Present, n
<1>7. m = n => list[m].key >= key
  BY <1>1, <1>2
<1> QED
  BY <1>2, <1>3, <1>4, <1>5, <1>6, <1>7 DEF n

(* htSet puts the new pair in, keeps the others with another key, and keeps the order. *)
LEMMA NewListIs ==
    ASSUME NEW list \in Seq(Pair), Sorted(list), NEW key \in Keys, NEW value \in Values
    PROVE  LET new == NewList(list, key, value)
           IN  /\ new \in Seq(Pair) /\ Sorted(new)
               /\ \A k \in DOMAIN new : \/ new[k] = htNewpair(key, value)
                                        \/ \E m \in DOMAIN list : new[k] = list[m] /\ list[m].key # key
               /\ \A m \in DOMAIN list : list[m].key # key => \E k \in DOMAIN new : new[k] = list[m]
               /\ \E k \in DOMAIN new : new[k] = htNewpair(key, value)
<1> DEFINE n == Stop(list, key)
           e == htNewpair(key, value)
           new == NewList(list, key, value)
           L == Len(list)
<1>1. /\ n \in 1 .. L + 1 /\ (\A k \in 1 .. L : k < n => list[k].key < key)
  BY StopIs
<1>2. DOMAIN list = 1 .. L /\ L \in Nat /\ \A k \in 1 .. L : list[k] \in Pair
  OBVIOUS
<1>3. e \in Pair /\ e.key = key
  BY DEF htNewpair, Pair
<1>4. key \in Nat /\ \A k \in 1 .. L : list[k].key \in Nat
  BY <1>2, HashAssumption DEF Pair
<1>5. /\ \A m \in 1 .. L : m > n => list[m].key > key
      /\ \A m \in 1 .. L : list[m].key = key => m = n /\ Present(list, key)
      /\ ~Present(list, key) /\ n <= L => list[n].key > key
  BY <1>1, <1>2, FoundIs
<1>6. CASE Present(list, key)
  <2>1. n \in 1 .. L /\ list[n].key = key
    BY <1>1, <1>2, <1>6 DEF Present
  <2>2. [list[n] EXCEPT !.value = value] = e
    BY <1>2, <2>1 DEF Pair, htNewpair
  <2>3. new = [list EXCEPT ![n] = e]
    BY <1>2, <1>6, <2>1, <2>2 DEF NewList
  <2> HIDE DEF n, e, new
  <2>4. /\ new \in Seq(Pair) /\ DOMAIN new = 1 .. L
        /\ new[n] = e /\ \A k \in 1 .. L : k # n => new[k] = list[k]
    BY <1>2, <1>3, <2>1, <2>3
  <2>5. \A k \in 1 .. L : new[k].key = list[k].key
    BY <1>3, <2>1, <2>4
  <2>6. Sorted(new)
    BY <1>2, <2>4, <2>5 DEF Sorted
  <2>7. \A k \in 1 .. L : new[k] = e \/ (new[k] = list[k] /\ list[k].key # key)
    BY <1>5, <2>4
  <2>8. \A m \in 1 .. L : list[m].key # key => new[m] = list[m]
    BY <2>1, <2>4
  <2> QED
    BY <1>2, <2>1, <2>4, <2>6, <2>7, <2>8 DEF new, e
<1>7. CASE ~Present(list, key)
  <2>1. new = InsertAt(list, n, e)
    BY <1>7 DEF NewList
  <2> HIDE DEF n, e, new
  <2>2. /\ new \in Seq(Pair) /\ Len(new) = L + 1
        /\ \A k \in 1 .. L + 1 : new[k] = IF k < n THEN list[k] ELSE IF k = n THEN e ELSE list[k - 1]
    BY <1>1, <1>3, <2>1, InsertIs, SMTT(30)
  <2>3. DOMAIN new = 1 .. L + 1
    BY <1>2, <2>2
  <2>4. n \in Int
    BY <1>1, <1>2
  <2>5. \A k \in 1 .. L + 1 : /\ k < n => new[k] = list[k] /\ k \in 1 .. L
                              /\ k = n => new[k] = e
                              /\ k > n => new[k] = list[k - 1] /\ k - 1 \in 1 .. L
    BY <1>1, <1>2, <2>2, <2>4
  <2>6. Sorted(new)
    <3> SUFFICES ASSUME NEW i \in 1 .. L + 1, NEW j \in 1 .. L + 1, i < j
                 PROVE  new[i].key < new[j].key
      BY <2>3 DEF Sorted
    <3>1. \A k \in 1 .. L : k >= n => list[k].key > key
      BY <1>2, <1>5, <1>7, <2>4
    <3>2. CASE j < n
      BY <1>2, <2>4, <2>5, <3>2 DEF Sorted
    <3>3. CASE j = n
      BY <1>1, <1>2, <1>3, <2>4, <2>5, <3>3
    <3>4. CASE j > n /\ i < n
      <4>1. new[j] = list[j - 1] /\ j - 1 \in 1 .. L /\ new[i] = list[i] /\ i \in 1 .. L /\ i < j - 1
        BY <1>2, <2>4, <2>5, <3>4
      <4> QED
        BY <1>2, <4>1 DEF Sorted
    <3>5. CASE j > n /\ i = n
      <4>1. new[j] = list[j - 1] /\ j - 1 \in 1 .. L /\ new[i] = e /\ j - 1 >= n
        BY <1>2, <2>4, <2>5, <3>5
      <4> QED
        BY <1>3, <1>4, <3>1, <4>1
    <3>6. CASE j > n /\ i > n
      <4>1. /\ new[j] = list[j - 1] /\ j - 1 \in 1 .. L /\ new[i] = list[i - 1] /\ i - 1 \in 1 .. L
            /\ i - 1 < j - 1
        BY <1>2, <2>4, <2>5, <3>6
      <4> QED
        BY <1>2, <4>1 DEF Sorted
    <3> QED
      BY <1>2, <2>4, <3>2, <3>3, <3>4, <3>5, <3>6
  <2>7. \A m \in 1 .. L : list[m].key # key
    BY <1>5, <1>7
  <2>8. ASSUME NEW k \in 1 .. L + 1
        PROVE  new[k] = e \/ \E m \in 1 .. L : new[k] = list[m] /\ list[m].key # key
    BY <1>2, <2>4, <2>5, <2>7
  <2>9. ASSUME NEW m \in 1 .. L PROVE \E k \in 1 .. L + 1 : new[k] = list[m]
    <3>1. CASE m < n
      BY <1>2, <2>5, <3>1
    <3>2. CASE m >= n
      <4>1. m + 1 \in 1 .. L + 1 /\ m + 1 > n /\ (m + 1) - 1 = m
        BY <1>2, <2>4, <3>2
      <4> QED
        BY <2>5, <4>1
    <3> QED
      BY <1>2, <2>4, <3>1, <3>2
  <2>10. \E k \in 1 .. L + 1 : new[k] = e
    BY <1>1, <2>5
  <2> QED
    BY <1>2, <2>2, <2>3, <2>6, <2>8, <2>9, <2>10 DEF new, e
<1> QED
  BY <1>6, <1>7

(* The table before and after a request. *)
LEMMA SetTable ==
    ASSUME BinsSorted, NEW key \in Keys, NEW value \in Values, Set(key, value)
    PROVE  /\ BinsSorted'
           /\ \E bin \in Bins[key] :
                 /\ bin \in 0 .. Size - 1 /\ Sorted(ht[bin]) /\ ht[bin] \in Seq(Pair)
                 /\ ht' = [ht EXCEPT ![bin] = NewList(ht[bin], key, value)]
<1>1. PICK bin \in Bins[key] : ht' = htSet(ht, bin, key, value)
  BY DEF Set
<1>2. bin \in 0 .. Size - 1
  BY HashAssumption
<1>3. ht[bin] \in Seq(Pair) /\ Sorted(ht[bin])
  BY <1>2 DEF BinsSorted, Sorted
<1>4. ht' = [ht EXCEPT ![bin] = NewList(ht[bin], key, value)]
  BY <1>1 DEF htSet, NewList
<1>5. NewList(ht[bin], key, value) \in Seq(Pair) /\ Sorted(NewList(ht[bin], key, value))
  BY <1>3, NewListIs
<1>6. /\ ht' \in [0 .. Size - 1 -> Seq(Pair)]
      /\ call' \in [fn : {"htCreate", "htSet", "htGet"}, key : Nat, value : Values \cup {None}]
  BY <1>4, <1>5, HashAssumption DEF BinsSorted, Set, Called
<1>7. \A b \in 0 .. Size - 1 : Sorted(ht'[b])
  <2> TAKE b \in 0 .. Size - 1
  <2>1. CASE b = bin
    BY <1>2, <1>4, <1>5, <2>1 DEF BinsSorted
  <2>2. CASE b # bin
    <3>1. ht'[b] = ht[b]
      BY <1>4, <2>2 DEF BinsSorted
    <3>2. Sorted(ht[b])
      BY DEF BinsSorted, Sorted
    <3> QED
      BY <3>1, <3>2
  <2> QED
    BY <2>1, <2>2
<1>8. BinsSorted'
  BY <1>6, <1>7 DEF BinsSorted, Sorted
<1> QED
  BY <1>2, <1>3, <1>4, <1>8

(* htGet answers with a pair of the bin that has the key, or says that there is none. *)
LEMMA GetIs ==
    ASSUME BinsSorted, NEW key \in Keys, NEW bin \in 0 .. Size - 1
    PROVE  \/ /\ htGet(ht, bin, key) = None /\ \A n \in DOMAIN ht[bin] : ht[bin][n].key # key
           \/ \E n \in DOMAIN ht[bin] : /\ ht[bin][n].key = key /\ htGet(ht, bin, key) = ht[bin][n].value
                                        /\ htGet(ht, bin, key) \in Values
<1> DEFINE list == ht[bin]
           n == Stop(list, key)
<1>1. list \in Seq(Pair) /\ Sorted(list)
  BY DEF BinsSorted, Sorted
<1>2. n \in 1 .. Len(list) + 1 /\ DOMAIN list = 1 .. Len(list) /\ Len(list) \in Nat
  BY <1>1, StopIs
<1>3. CASE Present(list, key)
  <2>1. n \in DOMAIN list /\ list[n].key = key
    BY <1>2, <1>3 DEF Present
  <2>2. htGet(ht, bin, key) = list[n].value
    BY <1>3 DEF htGet
  <2>3. list[n] \in Pair
    BY <1>1, <2>1
  <2>4. list[n].value \in Values
    BY <2>3 DEF Pair
  <2> QED
    BY <2>1, <2>2, <2>4
<1>4. CASE ~Present(list, key)
  <2>1. htGet(ht, bin, key) = None
    BY <1>4 DEF htGet
  <2> QED
    BY <1>1, <1>4, <2>1, FoundIs
<1> QED
  BY <1>3, <1>4

(* htGet leaves the table alone, and finds nothing that is not in it. *)
LEMMA GetTable ==
    ASSUME BinsSorted, NEW key \in Keys, Get(key)
    PROVE  /\ BinsSorted'
           /\ call'.value # None => \E b \in 0 .. Size - 1 : \E n \in DOMAIN ht[b] : ht[b][n].key = key
<1>1. PICK bin \in Bins[key] : call' = Called("htGet", key, htGet(ht, bin, key)) /\ ht' = ht
  BY DEF Get
<1>2. bin \in 0 .. Size - 1
  BY HashAssumption
<1>3. htGet(ht, bin, key) \in Values \cup {None} /\ key \in Nat
  BY <1>2, GetIs, HashAssumption
<1>5. call' \in [fn : {"htCreate", "htSet", "htGet"}, key : Nat, value : Values \cup {None}]
  BY <1>1, <1>3 DEF Called
<1>4. BinsSorted'
  BY <1>1, <1>5 DEF BinsSorted
<1>6. call'.value = htGet(ht, bin, key)
  BY <1>1 DEF Called
<1> QED
  BY <1>2, <1>4, <1>6, GetIs
-----------------------------------------------------------------------------
(* Types. *)
LEMMA TypeStep == IInv /\ [Next]_vars => ServerTypeOK' /\ BinsSorted'
<1> SUFFICES ASSUME IInv, [Next]_vars PROVE ServerTypeOK' /\ BinsSorted'
  OBVIOUS
<1>0. ServerTypeOK /\ BinsSorted /\ Serving
  BY DEF IInv
<1>r. \A r \in Lines : r.op \in Values /\ r.func \in Keys
  BY DEF Lines
<1>1. CASE UNCHANGED vars \/ AllDone
  BY <1>0, <1>1 DEF AllDone, vars, ServerTypeOK, BinsSorted
<1>2. CASE Main
  <2>1. CASE Accept
    <3>1. queue \in Seq(Clients) /\ queue # <<>> /\ Len(queue) <= Backlog
      BY <1>0, <2>1 DEF Accept, ServerTypeOK
    <3>2. Head(queue) \in Clients /\ Tail(queue) \in Seq(Clients) /\ Len(Tail(queue)) <= Backlog
      <4>1. Head(queue) \in Clients /\ Tail(queue) \in Seq(Clients) /\ Len(Tail(queue)) = Len(queue) - 1
        BY <3>1, HeadTailProperties
      <4>2. Len(queue) \in Nat
        BY <3>1
      <4> QED
        BY <3>1, <4>1, <4>2, ServerAssumption
    <3> QED
      BY <1>0, <2>1, <3>2 DEF Accept, ServerTypeOK, BinsSorted
  <2>2. CASE HandleMissing \/ HandleOther \/ SendBroken
    BY <1>0, <2>2 DEF HandleMissing, HandleOther, SendBroken, ServerTypeOK, BinsSorted
  <2>7. CASE Recv \/ RecvNothing
    <3>1. ASSUME NEW line \in Lines, Take(line) PROVE ServerTypeOK' /\ BinsSorted'
      BY <1>0, <3>1 DEF Take, ServerTypeOK, BinsSorted
    <3>2. CASE \E line \in Lines : Take(line)
      BY <3>1, <3>2
    <3>3. CASE ~\E line \in Lines : Take(line)
      BY <1>0, <2>7, <3>3 DEF Recv, RecvNothing, Tokens, ServerTypeOK, BinsSorted
    <3> QED
      BY <3>2, <3>3
  <2>3. ASSUME server = "handle" \/ server = "send" PROVE str \in Lines
    BY <1>0, <2>3 DEF Serving, ServerTypeOK
  <2>4. CASE HandleEncrypt
    <3>1. str \in Lines
      BY <2>3, <2>4 DEF HandleEncrypt, Handling
    <3>2. BinsSorted'
      BY <1>0, <1>r, <2>4, <3>1, SetTable DEF HandleEncrypt
    <3> QED
      BY <1>0, <2>4, <3>2 DEF HandleEncrypt, ServerTypeOK
  <2>5. CASE HandleDecrypt
    <3>1. str \in Lines
      BY <2>3, <2>5 DEF HandleDecrypt, Handling
    <3>2. BinsSorted'
      BY <1>0, <1>r, <2>5, <3>1, GetTable DEF HandleDecrypt
    <3> QED
      BY <1>0, <2>5, <3>2 DEF HandleDecrypt, ServerTypeOK
  <2>6. CASE SendBack
    <3>1. str.op \in Values
      BY <1>r, <2>3, <2>6 DEF SendBack
    <3> QED
      BY <1>0, <2>6, <3>1 DEF SendBack, ServerTypeOK, BinsSorted
  <2> QED
    BY <1>2, <2>1, <2>2, <2>4, <2>5, <2>6, <2>7 DEF Main
<1>3. ASSUME NEW c \in Clients, Request(c) \/ Die(c) PROVE ServerTypeOK' /\ BinsSorted'
  <2>1. CASE Connect(c)
    <3>1. Len(queue) < Backlog => Append(queue, c) \in Seq(Clients) /\ Len(Append(queue, c)) <= Backlog
      BY <1>0, ServerAssumption DEF ServerTypeOK
    <3>2. queue' \in Seq(Clients) /\ Len(queue') <= Backlog
      BY <1>0, <2>1, <3>1 DEF Connect, ServerTypeOK
    <3> QED
      BY <1>0, <2>1, <3>2 DEF Connect, At, ServerTypeOK, BinsSorted
  <2>2. CASE Send(c)
    BY <1>0, <2>2 DEF Send, At, ServerTypeOK, BinsSorted
  <2>3. CASE Receive(c) \/ Die(c)
    BY <1>0, <2>3 DEF Receive, Die, At, ServerTypeOK, BinsSorted
  <2> QED
    BY <1>3, <2>1, <2>2, <2>3 DEF Request
<1> QED
  BY <1>1, <1>2, <1>3 DEF Next

(* Requests and answers. *)
Talk == Waiting /\ Asking /\ Serving /\ Entries

(* An encrypt that was carried out stays so. *)
LEMMA EncryptedStays ==
    ASSUME served \subseteq served', \A d \in served : read'[d] = read[d]
    PROVE  \A key : Encrypted(key) => Encrypted(key)'
  BY DEF Encrypted

(* A client connects, sends, receives or dies. *)
LEMMA ClientStep ==
    ASSUME IInv, NEW c \in Clients, Request(c) \/ Die(c)
    PROVE  Talk'
<1>0. ServerTypeOK /\ BinsSorted /\ Waiting /\ Asking /\ Serving /\ Entries
  BY DEF IInv
<1>r. \A r \in Requests : r # NoRequest
  BY ServerAssumption, HashAssumption DEF NoRequest
<1>q. DOMAIN queue = 1 .. Len(queue) /\ Len(queue) \in Nat
  BY <1>0 DEF ServerTypeOK
<1>1. CASE Connect(c)
  <2>1. /\ client[c] = "start" /\ UNCHANGED <<ht, call, asked, read, server, conn, str, reply, served>>
        /\ client'[c] # "start" /\ (client'[c] = "connected" \/ client'[c] = "failed")
        /\ \A d \in Clients : d # c => client'[d] = client[d]
    BY <1>0, <1>1 DEF Connect, At, ServerTypeOK
  <2>2. asked[c] = NoRequest /\ read[c] = NoRequest /\ reply[c] = None /\ \A n \in DOMAIN queue : queue[n] # c
    BY <1>0, <2>1 DEF Asking, Waiting
  <2>3. \/ queue' = queue
        \/ /\ DOMAIN queue' = 1 .. Len(queue) + 1 /\ queue'[Len(queue) + 1] = c
           /\ \A n \in 1 .. Len(queue) : queue'[n] = queue[n]
    BY <1>0, <1>1, AppendProperties DEF Connect, ServerTypeOK
  <2>4. \A n \in DOMAIN queue' : (n \in DOMAIN queue /\ queue'[n] = queue[n]) \/ (n = Len(queue) + 1 /\ queue'[n] = c)
    BY <1>q, <2>3
  <2>5. \A n \in DOMAIN queue : queue[n] \in Clients
    BY <1>0 DEF ServerTypeOK
  <2>6. Waiting'
    <3>1. \A m, n \in DOMAIN queue' : queue'[m] = queue'[n] => m = n
      BY <1>0, <2>2, <2>4 DEF Waiting
    <3>2. \A n \in DOMAIN queue' : /\ client'[queue'[n]] # "start" /\ reply'[queue'[n]] = None
                                   /\ read'[queue'[n]] = NoRequest
      BY <1>0, <2>1, <2>2, <2>4, <2>5 DEF Waiting
    <3> QED
      BY <3>1, <3>2 DEF Waiting
  <2>7. Asking'
    BY <1>0, <2>1, <2>2 DEF Asking
  <2>8. \A key : Encrypted(key) => Encrypted(key)'
    BY <2>1, EncryptedStays
  <2>9. Serving'
    <3>1. server \in {"recv", "handle", "send"} => conn # c
      BY <1>0, <2>1 DEF Serving
    <3>2. server' \in {"recv", "handle", "send"} =>
             client'[conn'] # "start" /\ reply'[conn'] = None /\ \A n \in DOMAIN queue' : queue'[n] # conn'
      BY <1>0, <2>1, <2>4, <3>1 DEF Serving, ServerTypeOK
    <3>3. server \in {"recv", "handle", "send"} => client'[conn] = client[conn]
      BY <1>0, <2>1, <3>1 DEF ServerTypeOK
    <3> QED
      BY <1>0, <2>1, <2>8, <3>2, <3>3 DEF Serving
  <2>10. Entries'
    BY <1>0, <2>1, <2>8 DEF Entries
  <2> QED
    BY <2>6, <2>7, <2>9, <2>10 DEF Talk
<1>2. CASE Send(c)
  <2>1. /\ client[c] = "connected" /\ UNCHANGED <<ht, call, read, queue, server, conn, str, reply, served>>
        /\ client'[c] \in {"waiting", "failed"}
        /\ \A d \in Clients : d # c => client'[d] = client[d] /\ asked'[d] = asked[d]
    BY <1>0, <1>2 DEF Send, At, ServerTypeOK
  <2>2. asked[c] = NoRequest /\ read[c] = NoRequest /\ reply[c] = None /\ c \notin served
    BY <1>0, <2>1 DEF Asking
  <2>3. Waiting'
    <3>1. \A n \in DOMAIN queue : queue[n] \in Clients
      BY <1>0 DEF ServerTypeOK
    <3> QED
      BY <1>0, <2>1, <3>1 DEF Waiting
  <2>4. Asking'
    BY <1>0, <2>1, <2>2 DEF Asking
  <2>5. \A key : Encrypted(key) => Encrypted(key)'
    BY <1>0, <2>1, <2>2, EncryptedStays DEF ServerTypeOK
  <2>6. Serving'
    <3>1. server \in {"handle", "send"} => conn # c
      BY <1>0, <2>2 DEF Serving
    <3>2. client'[conn] # "start" \/ client[conn] = "start"
      BY <1>0, <2>1 DEF ServerTypeOK
    <3>3. server \in {"handle", "send"} => asked'[conn] = asked[conn] /\ client'[conn] = client[conn]
      BY <1>0, <2>1, <3>1 DEF ServerTypeOK
    <3> QED
      BY <1>0, <2>1, <2>5, <3>2, <3>3 DEF Serving
  <2>7. Entries'
    <3> QED
      BY <1>0, <2>1, <2>5 DEF Entries
  <2> QED
    BY <2>3, <2>4, <2>6, <2>7 DEF Talk
<1>3. CASE Receive(c) \/ Die(c)
  <2>1. /\ UNCHANGED <<ht, call, asked, read, queue, server, conn, str, reply, served>>
        /\ client'[c] \in {"answered", "failed", "dead"} /\ client[c] # "dead"
        /\ client'[c] = "dead" \/ client[c] = "waiting"
        /\ \A d \in Clients : d # c => client'[d] = client[d]
    BY <1>0, <1>3 DEF Receive, Die, At, ServerTypeOK
  <2>2. \A d \in Clients : /\ client'[d] = "start" => client[d] = "start"
                           /\ client'[d] \in {"start", "connected"} => client[d] \in {"start", "connected"}
    BY <2>1
  <2>3. Waiting'
    <3>1. \A n \in DOMAIN queue : queue[n] \in Clients
      BY <1>0 DEF ServerTypeOK
    <3> QED
      BY <1>0, <2>1, <2>2, <3>1 DEF Waiting
  <2>4. Asking'
    BY <1>0, <2>1, <2>2 DEF Asking
  <2>5. \A key : Encrypted(key) => Encrypted(key)'
    BY <2>1, EncryptedStays
  <2>6. Serving'
    <3>1. conn \in Clients /\ (client[conn] = "dead" => client'[conn] = "dead")
      BY <1>0, <2>1 DEF ServerTypeOK
    <3> QED
      BY <1>0, <2>1, <2>2, <2>5, <3>1 DEF Serving
  <2>7. Entries'
    BY <1>0, <2>1, <2>5 DEF Entries
  <2> QED
    BY <2>3, <2>4, <2>6, <2>7 DEF Talk
<1> QED
  BY <1>1, <1>2, <1>3 DEF Request

(* The server accepts, reads, handles or answers. *)
LEMMA ServerStep == ASSUME IInv, Main PROVE Talk'
<1>0. ServerTypeOK /\ BinsSorted /\ Waiting /\ Asking /\ Serving /\ Entries
  BY DEF IInv
<1>r. \A r \in Lines : r.op \in Values /\ r.op # None /\ r.func \in Keys /\ r # NoRequest
  BY HashAssumption DEF NoRequest, Lines
<1>q. \A n \in DOMAIN queue : queue[n] \in Clients
  BY <1>0 DEF ServerTypeOK
<1>1. CASE Accept
  <2>1. /\ queue \in Seq(Clients) /\ queue # <<>> /\ conn' = Head(queue) /\ queue' = Tail(queue)
        /\ server' = "recv" /\ UNCHANGED <<ht, call, client, asked, read, str, reply, served>>
    BY <1>0, <1>1 DEF Accept, ServerTypeOK
  <2>2. /\ Len(queue) \in Nat \ {0} /\ DOMAIN queue = 1 .. Len(queue) /\ conn' = queue[1]
    BY <2>1
  <2>3. Len(queue') = Len(queue) - 1 /\ queue' \in Seq(Clients) /\ \A n \in 1 .. Len(queue') : queue'[n] = queue[n + 1]
    BY <2>1, HeadTailProperties
  <2>4. \A n \in DOMAIN queue' : n + 1 \in DOMAIN queue /\ n \in Nat \ {0} /\ queue'[n] = queue[n + 1]
    BY <2>2, <2>3
  <2>5. \A m, n \in DOMAIN queue' : queue'[m] = queue'[n] => m = n
    <3> TAKE m, n \in DOMAIN queue'
    <3> HAVE queue'[m] = queue'[n]
    <3>1. m + 1 = n + 1
      BY <1>0, <2>4 DEF Waiting
    <3> QED
      BY <2>4, <3>1
  <2>6. \A n \in DOMAIN queue' : queue'[n] # conn'
    <3> TAKE n \in DOMAIN queue'
    <3>1. n + 1 # 1 /\ 1 \in DOMAIN queue
      BY <2>2, <2>4
    <3> QED
      BY <1>0, <2>2, <2>4, <3>1 DEF Waiting
  <2>7. Waiting'
    BY <1>0, <2>1, <2>4, <2>5 DEF Waiting
  <2>8. \A key : Encrypted(key) => Encrypted(key)'
    BY <2>1, EncryptedStays
  <2>9. Serving'
    BY <1>0, <2>1, <2>2, <2>6 DEF Serving, Waiting
  <2>10. Asking'
    BY <1>0, <2>1 DEF Asking
  <2>11. Entries'
    BY <1>0, <2>1, <2>8 DEF Entries
  <2> QED
    BY <2>7, <2>9, <2>10, <2>11 DEF Talk
<1>2. CASE HandleMissing \/ HandleOther \/ SendBroken
  <2>1. /\ UNCHANGED <<ht, call, client, asked, read, queue, conn, str, reply, served>>
        /\ \/ server' \in {"crashed", "killed"}
           \/ server = "handle" /\ server' = "send" /\ str.head = "digit"
    BY <1>2 DEF HandleMissing, HandleOther, SendBroken, Handling
  <2>2. \A key : Encrypted(key) => Encrypted(key)'
    BY <2>1, EncryptedStays
  <2>3. Serving'
    BY <1>0, <2>1 DEF Serving
  <2>4. Waiting' /\ Asking' /\ Entries'
    BY <1>0, <2>1, <2>2 DEF Waiting, Asking, Entries
  <2> QED
    BY <2>3, <2>4 DEF Talk
<1>6. CASE Recv \/ RecvNothing
  <2>1. CASE server' = "crashed" /\ UNCHANGED <<ht, call, client, asked, read, queue, conn, str, reply, served>>
    <3>1. \A key : Encrypted(key) => Encrypted(key)'
      BY <2>1, EncryptedStays
    <3> QED
      BY <1>0, <2>1, <3>1 DEF Talk, Serving, Waiting, Asking, Entries
  <2>2. ASSUME NEW line \in Lines, Take(line), server = "recv",
               asked[conn] # NoRequest => line \in Tokens(asked[conn]),
               asked[conn] = NoRequest => client[conn] = "dead"
        PROVE  Talk'
    <3>1. /\ str' = line /\ read' = [read EXCEPT ![conn] = line] /\ server' = "handle"
          /\ UNCHANGED <<ht, call, client, asked, queue, conn, reply, served>>
      BY <2>2 DEF Take
    <3>2. conn \in Clients /\ read'[conn] = line /\ \A c \in Clients : c # conn => read'[c] = read[c]
      BY <1>0, <3>1 DEF ServerTypeOK
    <3>3. client[conn] # "start" /\ reply[conn] = None /\ line # NoRequest
      BY <1>0, <1>r, <2>2 DEF Serving
    <3>4. read[conn] = NoRequest
      BY <1>0, <2>2 DEF Serving
    <3>5. conn \notin served
      BY <1>0, <3>2, <3>4 DEF Asking
    <3>6. \A key : Encrypted(key) => Encrypted(key)'
      BY <1>0, <3>1, <3>2, <3>5, EncryptedStays DEF ServerTypeOK
    <3>7. Serving'
      BY <1>0, <2>2, <3>1, <3>2, <3>3 DEF Serving
    <3>8. client[conn] # "connected"
      BY <1>0, <2>2, <3>2 DEF Asking
    <3>9. Asking'
      BY <1>0, <2>2, <3>1, <3>2, <3>3, <3>5, <3>8 DEF Asking
    <3>10. Waiting'
      BY <1>0, <1>q, <2>2, <3>1, <3>2 DEF Waiting, Serving
    <3>11. Entries'
      BY <1>0, <3>1, <3>2, <3>3, <3>6 DEF Entries
    <3> QED
      BY <3>7, <3>9, <3>10, <3>11 DEF Talk
  <2>3. CASE Recv
    BY <2>2, <2>3 DEF Recv, Tokens
  <2>4. CASE RecvNothing
    BY <2>1, <2>2, <2>4 DEF RecvNothing
  <2> QED
    BY <1>6, <2>3, <2>4
<1>3. CASE HandleEncrypt
  <2>1. /\ server = "handle" /\ str.head = "e" /\ Set(str.func, str.op) /\ served' = served \cup {conn}
        /\ server' \in {"send", "crashed", "exited"} /\ UNCHANGED <<client, asked, read, queue, conn, str, reply>>
    BY <1>3 DEF HandleEncrypt, Handling
  <2>2. str = read[conn] /\ str \in Lines /\ conn \in Clients
    BY <1>0, <2>1 DEF Serving, ServerTypeOK
  <2>3. \A key : Encrypted(key) => Encrypted(key)'
    BY <2>1, EncryptedStays
  <2>4. Encrypted(str.func)'
    BY <2>1, <2>2 DEF Encrypted
  <2>5. PICK key \in Keys, value \in Values : key = str.func /\ value = str.op
    BY <1>r, <2>2
  <2>6. PICK bin \in Bins[key] :
           /\ bin \in 0 .. Size - 1 /\ Sorted(ht[bin]) /\ ht[bin] \in Seq(Pair)
           /\ ht' = [ht EXCEPT ![bin] = NewList(ht[bin], key, value)]
    BY <1>0, <2>1, <2>5, SetTable
  <2>7. ASSUME NEW b \in 0 .. Size - 1, NEW n \in DOMAIN ht'[b]
        PROVE  \E d \in served' : read'[d].head = "e" /\ read'[d].func = ht'[b][n].key
    <3>1. CASE b = bin
      <4>1. ht'[b] = NewList(ht[bin], key, value)
        BY <1>0, <2>6, <3>1 DEF BinsSorted
      <4>2. \/ ht'[b][n] = htNewpair(key, value)
            \/ \E m \in DOMAIN ht[bin] : ht'[b][n] = ht[bin][m]
        BY <2>6, <2>7, <4>1, NewListIs
      <4>3. CASE ht'[b][n] = htNewpair(key, value)
        <5>1. PICK k : k = ht'[b][n].key /\ k = str.func
          BY <2>5, <4>3 DEF htNewpair
        <5>2. read'[conn].head = "e" /\ read'[conn].func = k /\ conn \in served'
          BY <2>1, <2>2, <5>1
        <5> QED
          BY <5>1, <5>2
      <4>4. CASE \E m \in DOMAIN ht[bin] : ht'[b][n] = ht[bin][m]
        <5>1. PICK k : k = ht'[b][n].key /\ Encrypted(k)
          BY <1>0, <2>6, <4>4 DEF Entries
        <5> QED
          BY <2>1, <5>1 DEF Encrypted
      <4> QED
        BY <4>2, <4>3, <4>4
    <3>2. CASE b # bin
      <4>1. ht'[b] = ht[b]
        BY <1>0, <2>6, <3>2 DEF BinsSorted
      <4>2. PICK k : k = ht'[b][n].key /\ Encrypted(k)
        BY <1>0, <2>7, <4>1 DEF Entries
      <4> QED
        BY <2>1, <4>2 DEF Encrypted
    <3> QED
      BY <3>1, <3>2
  <2>8. Entries'
    <3>1. \A c \in Clients : (reply'[c] # None /\ read'[c].head = "d") =>
             \E d \in served' : read'[d].head = "e" /\ read'[d].func = read'[c].func
      BY <1>0, <2>1 DEF Entries, Encrypted
    <3> QED
      BY <2>7, <3>1 DEF Entries, Encrypted
  <2>9. Asking'
    BY <1>0, <1>r, <2>1, <2>2 DEF Asking
  <2>10. Serving' /\ Waiting'
    BY <1>0, <2>1, <2>2 DEF Serving, Waiting
  <2> QED
    BY <2>8, <2>9, <2>10 DEF Talk
<1>4. CASE HandleDecrypt
  <2>1. /\ server = "handle" /\ str.head = "d" /\ Get(str.func)
        /\ UNCHANGED <<ht, client, asked, read, queue, conn, str, reply>>
        /\ \/ server' = "exited" /\ UNCHANGED served
           \/ server' = "send" /\ served' = served \cup {conn} /\ call'.value # None
    BY <1>4 DEF HandleDecrypt, Handling, Get
  <2>2. str = read[conn] /\ str \in Lines /\ conn \in Clients
    BY <1>0, <2>1 DEF Serving, ServerTypeOK
  <2>3. \A key : Encrypted(key) => Encrypted(key)'
    BY <2>1, EncryptedStays
  <2>4. call'.value # None => Encrypted(str.func)
    BY <1>0, <1>r, <2>1, <2>2, GetTable DEF Entries
  <2>5. Serving'
    BY <1>0, <2>1, <2>3, <2>4 DEF Serving
  <2>6. Asking'
    BY <1>0, <1>r, <2>1, <2>2 DEF Asking
  <2>7. Waiting' /\ Entries'
    BY <1>0, <2>1, <2>3 DEF Waiting, Entries
  <2> QED
    BY <2>5, <2>6, <2>7 DEF Talk
<1>5. CASE SendBack
  <2>1. /\ server = "send" /\ reply' = [reply EXCEPT ![conn] = str.op] /\ server' = "accept"
        /\ UNCHANGED <<ht, call, client, asked, read, queue, conn, str, served>>
    BY <1>5 DEF SendBack
  <2>2. str = read[conn] /\ str \in Lines /\ conn \in Clients
    BY <1>0, <2>1 DEF Serving, ServerTypeOK
  <2>3. \A key : Encrypted(key) => Encrypted(key)'
    BY <2>1, EncryptedStays
  <2>4. reply'[conn] = str.op /\ \A d \in Clients : d # conn => reply'[d] = reply[d]
    BY <1>0, <2>1, <2>2 DEF ServerTypeOK
  <2>9. asked[conn] # NoRequest /\ read[conn] # NoRequest
    BY <1>0, <1>5, <2>1 DEF SendBack, Serving
  <2>10. read[conn].op = asked[conn].op
    BY <1>0, <2>2, <2>9 DEF Asking, Tokens
  <2>5. Asking'
    BY <1>0, <1>r, <2>1, <2>2, <2>4, <2>9, <2>10 DEF Asking, Serving
  <2>6. Entries'
    BY <1>0, <2>1, <2>2, <2>3, <2>4 DEF Entries, Serving
  <2>7. Waiting'
    BY <1>0, <1>q, <2>1, <2>4 DEF Waiting, Serving
  <2>8. Serving'
    BY <2>1 DEF Serving
  <2> QED
    BY <2>5, <2>6, <2>7, <2>8 DEF Talk
<1> QED
  BY <1>1, <1>2, <1>3, <1>4, <1>5, <1>6 DEF Main

(* The server starts in a state of the invariant. *)
LEMMA InitIInv == Init => IInv
<1> SUFFICES ASSUME Init PROVE IInv
  OBVIOUS
<1> USE DEF Init, HtInit
<1>1. ServerTypeOK
  BY ServerAssumption DEF ServerTypeOK
<1>2. BinsSorted
  BY DEF BinsSorted, htCreate, Called
<1>3. Waiting /\ Asking /\ Serving
  BY DEF Waiting, Asking, Serving
<1>4. Entries
  BY DEF Entries, htCreate
<1> QED
  BY <1>1, <1>2, <1>3, <1>4 DEF IInv

(* Who waits, whose line is in the buffer and why an answer goes out: the inductive *)
(* invariant of the server's loop and the clients it serves.                        *)
THEOREM ServerInvariant == Spec => []IInv
<1>1. IInv /\ UNCHANGED vars => Talk'
  <2> SUFFICES ASSUME IInv, UNCHANGED vars PROVE Talk'
    OBVIOUS
  <2>1. \A key : Encrypted(key) => Encrypted(key)'
    BY EncryptedStays DEF vars
  <2> QED
    BY <2>1 DEF IInv, vars, Talk, Waiting, Asking, Serving, Entries
<1>2. IInv /\ [Next]_vars => Talk'
  BY <1>1, ServerStep, ClientStep DEF Next, AllDone
<1>3. IInv /\ [Next]_vars => IInv'
  BY <1>2, TypeStep DEF IInv, Talk
<1> QED
  BY <1>3, InitIInv, PTL DEF Spec

(* Lines, queue and answers have their types and the backlog is kept, for any number of *)
(* clients.                                                                              *)
THEOREM ServerTypeCorrect == Spec => []ServerTypeOK
<1>1. IInv => ServerTypeOK
  BY DEF IInv
<1> QED
  BY <1>1, ServerInvariant, PTL

(* The one line buffer never leaks a line to another connection: whoever is answered is   *)
(* answered with its own line, once, and after its request was dealt with.                *)
THEOREM OwnAnswerHolds == Spec => []OwnAnswer
<1>1. IInv => OwnAnswer
  BY DEF IInv, OwnAnswer, Asking, Waiting, Tokens
<1> QED
  BY <1>1, ServerInvariant, PTL

(* A decrypt is answered only for a function whose encrypt was carried out before, even   *)
(* for short keys, whose bin changes from call to call.                                   *)
THEOREM DecryptAfterEncryptHolds == Spec => []DecryptAfterEncrypt
<1>1. IInv => DecryptAfterEncrypt
  <2> SUFFICES ASSUME IInv, NEW c \in Clients, reply[c] # None, read[c].head = "d"
               PROVE  \E d \in served \ {c} : read[d].head = "e" /\ read[d].func = read[c].func
    BY DEF DecryptAfterEncrypt
  <2>1. PICK d \in served : read[d].head = "e" /\ read[d].func = read[c].func
    BY DEF IInv, Entries, Encrypted
  <2>2. d # c
    BY <2>1
  <2> QED
    BY <2>1, <2>2
<1> QED
  BY <1>1, ServerInvariant, PTL

(* htSet keeps every bin in strictly ascending order of its keys, whichever of its three  *)
(* ways of linking a pair in it takes.                                                    *)
THEOREM BinsSortedHolds == Spec => []BinsSorted
<1>1. IInv => BinsSorted
  BY DEF IInv
<1> QED
  BY <1>1, ServerInvariant, PTL

(* The table as a map. *)

(* Every pair is in a bin that its key may get. *)
Home == \A b \in 0 .. Size - 1 : \A n \in DOMAIN ht[b] : b \in Bins[ht[b][n].key]

(* The values of a key, bin by bin. *)
LEMMA StoredIs ==
    ASSUME NEW key
    PROVE  \A v : v \in Stored(key) <=>
                  \E b \in 0 .. Size - 1 : \E n \in DOMAIN ht[b] : ht[b][n].key = key /\ v = ht[b][n].value
<1>1. \A p : p \in PairsOf(key) <=>
             p.key = key /\ \E b \in 0 .. Size - 1 : \E n \in DOMAIN ht[b] : p = ht[b][n]
  BY DEF PairsOf, Range
<1> QED
  BY <1>1 DEF Stored

(* htGet answers with a value of its key; a key that has one bin is only not found if it *)
(* was never set.                                                                        *)
LEMMA GetStored ==
    ASSUME BinsSorted, Home, NEW key \in Keys, NEW bin \in Bins[key]
    PROVE  \/ htGet(ht, bin, key) \in Stored(key)
           \/ htGet(ht, bin, key) = None /\ (Stored(key) = {} \/ key \notin OneBin)
<1>1. bin \in 0 .. Size - 1
  BY HashAssumption
<1>2. CASE htGet(ht, bin, key) = None /\ \A n \in DOMAIN ht[bin] : ht[bin][n].key # key
  <2>1. key \in OneBin => \A b \in 0 .. Size - 1 : \A n \in DOMAIN ht[b] : ht[b][n].key # key
    BY <1>2 DEF Home, OneBin
  <2> QED
    BY <1>2, <2>1, StoredIs
<1>3. CASE \E n \in DOMAIN ht[bin] : ht[bin][n].key = key /\ htGet(ht, bin, key) = ht[bin][n].value
  BY <1>1, <1>3, StoredIs
<1> QED
  BY <1>1, <1>2, <1>3, GetIs

(* htSet stores a value under its key and leaves what is stored under the others.  Older *)
(* values of the key are left in other bins only.                                        *)
LEMMA SetStored ==
    ASSUME BinsSorted, Home, NEW key \in Keys, NEW value \in Values, Set(key, value)
    PROVE  /\ Home'
           /\ value \in Stored(key)' /\ Stored(key)' \subseteq Stored(key) \cup {value}
           /\ key \in OneBin => Stored(key)' = {value}
           /\ \A other \in Keys \ {key} : Stored(other)' = Stored(other)
<1>1. PICK bin \in Bins[key] :
         /\ bin \in 0 .. Size - 1 /\ Sorted(ht[bin]) /\ ht[bin] \in Seq(Pair)
         /\ ht' = [ht EXCEPT ![bin] = NewList(ht[bin], key, value)]
  BY SetTable
<1> DEFINE new == NewList(ht[bin], key, value)
<1>2. /\ new \in Seq(Pair)
      /\ \A k \in DOMAIN new : \/ new[k] = htNewpair(key, value)
                               \/ \E m \in DOMAIN ht[bin] : new[k] = ht[bin][m] /\ ht[bin][m].key # key
      /\ \A m \in DOMAIN ht[bin] : ht[bin][m].key # key => \E k \in DOMAIN new : new[k] = ht[bin][m]
      /\ \E k \in DOMAIN new : new[k] = htNewpair(key, value)
  BY <1>1, NewListIs, SMTT(30)
<1>3. ht'[bin] = new /\ \A b \in 0 .. Size - 1 : b # bin => ht'[b] = ht[b]
  BY <1>1 DEF BinsSorted
<1> HIDE DEF new
<1>4. htNewpair(key, value).key = key /\ htNewpair(key, value).value = value
  BY DEF htNewpair
<1>5. Home'
  <2> SUFFICES ASSUME NEW b \in 0 .. Size - 1, NEW n \in DOMAIN ht'[b]
               PROVE  b \in Bins[ht'[b][n].key]
    BY DEF Home
  <2>1. CASE b = bin
    <3>1. n \in DOMAIN new /\ ht'[b][n] = new[n]
      BY <1>3, <2>1
    <3>2. CASE new[n] = htNewpair(key, value)
      BY <1>1, <1>4, <2>1, <3>1, <3>2
    <3>3. ASSUME NEW m \in DOMAIN ht[bin], new[n] = ht[bin][m] PROVE b \in Bins[ht'[b][n].key]
      BY <1>1, <2>1, <3>1, <3>3 DEF Home
    <3> QED
      BY <1>2, <3>1, <3>2, <3>3
  <2>2. CASE b # bin
    BY <1>3, <2>2 DEF Home
  <2> QED
    BY <2>1, <2>2
<1>6. \A k : \A v : v \in Stored(k)' <=>
         \E b \in 0 .. Size - 1 : \E n \in DOMAIN ht'[b] : ht'[b][n].key = k /\ v = ht'[b][n].value
  <2> TAKE k
  <2>1. \A p : p \in PairsOf(k)' <=>
               p.key = k /\ \E b \in 0 .. Size - 1 : \E n \in DOMAIN ht'[b] : p = ht'[b][n]
    BY DEF PairsOf, Range
  <2> QED
    BY <2>1 DEF Stored
<1>7. value \in Stored(key)'
  BY <1>1, <1>2, <1>3, <1>4, <1>6
<1>8. ASSUME NEW b \in 0 .. Size - 1, NEW n \in DOMAIN ht'[b], ht'[b][n].key = key
      PROVE  ht'[b][n].value = value \/ (b # bin /\ n \in DOMAIN ht[b] /\ ht'[b][n] = ht[b][n])
  <2>1. CASE b = bin
    BY <1>2, <1>3, <1>4, <1>8, <2>1
  <2>2. CASE b # bin
    BY <1>3, <2>2
  <2> QED
    BY <2>1, <2>2
<1>9. Stored(key)' \subseteq Stored(key) \cup {value}
  BY <1>6, <1>8, StoredIs
<1>10. ASSUME key \in OneBin PROVE Stored(key)' = {value}
  <2>1. \A b \in 0 .. Size - 1 : \A n \in DOMAIN ht[b] : ht[b][n].key = key => b = bin
    BY <1>1, <1>10 DEF Home, OneBin
  <2>2. \A v \in Stored(key)' : v = value
    BY <1>6, <1>8, <2>1
  <2> QED
    BY <1>7, <2>2
<1>11. ASSUME NEW other \in Keys, other # key PROVE Stored(other)' = Stored(other)
  <2>1. ASSUME NEW v, v \in Stored(other)' PROVE v \in Stored(other)
    <3>0. PICK b \in 0 .. Size - 1 : \E n \in DOMAIN ht'[b] : ht'[b][n].key = other /\ v = ht'[b][n].value
      BY <1>6, <2>1
    <3>1. PICK n \in DOMAIN ht'[b] : ht'[b][n].key = other /\ v = ht'[b][n].value
      BY <3>0
    <3>2. \E c \in 0 .. Size - 1 : \E m \in DOMAIN ht[c] : ht'[b][n] = ht[c][m]
      BY <1>1, <1>2, <1>3, <1>4, <1>11, <3>1
    <3> QED
      BY <3>1, <3>2, StoredIs
  <2>2. ASSUME NEW v, v \in Stored(other) PROVE v \in Stored(other)'
    <3>0. PICK b \in 0 .. Size - 1 : \E n \in DOMAIN ht[b] : ht[b][n].key = other /\ v = ht[b][n].value
      BY <2>2, StoredIs
    <3>1. PICK n \in DOMAIN ht[b] : ht[b][n].key = other /\ v = ht[b][n].value
      BY <3>0
    <3>2. \E c \in 0 .. Size - 1 : \E m \in DOMAIN ht'[c] : ht'[c][m] = ht[b][n]
      BY <1>1, <1>2, <1>3, <1>11, <3>1
    <3> QED
      BY <1>6, <3>1, <3>2
  <2> QED
    BY <2>1, <2>2
<1> QED
  BY <1>5, <1>7, <1>9, <1>10, <1>11

(* The line that the server handles names a key and a value. *)
LEMMA HandledLine ==
    ASSUME IInv, server = "handle" PROVE str.func \in Keys /\ str.op \in Values
<1>1. str \in Lines
  BY DEF IInv, Serving, ServerTypeOK
<1> QED
  BY <1>1 DEF Lines

(* What htCreate and the steps of the server mean to the map. *)
LEMMA HomeStep ==
    ASSUME IInv, Home, [Next]_vars PROVE Home'
<1>1. CASE UNCHANGED ht
  BY <1>1 DEF Home
<1>2. CASE HandleEncrypt
  <2>1. Set(str.func, str.op) /\ server = "handle"
    BY <1>2 DEF HandleEncrypt, Handling
  <2> QED
    BY <2>1, HandledLine, SetStored DEF IInv
<1>3. CASE Next /\ ~HandleEncrypt
  <2>1. UNCHANGED ht
    BY <1>3 DEF Next, Main, Request, Connect, Send, Receive, Die, Accept, Recv, RecvNothing, Take,
                HandleMissing, HandleDecrypt, Get, HandleOther, SendBack, SendBroken, AllDone, vars
  <2> QED
    BY <1>1, <2>1
<1> QED
  BY <1>1, <1>2, <1>3 DEF vars

(* Every step of the server is a Set, a Get or nothing to the map. *)
LEMMA MapStep ==
    ASSUME IInv, Home, [Next]_vars
    PROVE  [TheMap!Next]_<<[key \in Keys |-> Stored(key)], call>>
<1> DEFINE map == [key \in Keys |-> Stored(key)]
<1>0. map' = [key \in Keys |-> Stored(key)']
  OBVIOUS
<1>1. CASE UNCHANGED <<ht, call>>
  BY <1>1 DEF Stored, PairsOf
<1>2. CASE HandleEncrypt
  <2>1. Set(str.func, str.op) /\ server = "handle"
    BY <1>2 DEF HandleEncrypt, Handling
  <2>2. PICK key \in Keys : key = str.func
    BY <2>1, HandledLine
  <2>3. PICK value \in Values : value = str.op
    BY <2>1, HandledLine
  <2>4. Set(key, value)
    BY <2>1, <2>2, <2>3
  <2>5. /\ value \in Stored(key)' /\ Stored(key)' \subseteq Stored(key) \cup {value}
        /\ key \in OneBin => Stored(key)' = {value}
        /\ \A other \in Keys \ {key} : Stored(other)' = Stored(other)
    BY <2>4, SetStored DEF IInv
  <2>6. call'.fn = "htSet" /\ call'.key = key /\ call'.value = value
    BY <2>4 DEF Set, Called
  <2> DEFINE older == IF key \in OneBin THEN {} ELSE Stored(key)' \cap Stored(key)
  <2>7. older \in SUBSET (IF key \in OneBin THEN {} ELSE map[key])
    OBVIOUS
  <2>8. Stored(key)' = older \cup {value}
    BY <2>5
  <2> HIDE DEF older
  <2>9. map' = [map EXCEPT ![key] = older \cup {value}]
    BY <1>0, <2>5, <2>8
  <2> QED
    BY <2>6, <2>7, <2>9 DEF TheMap!Next, TheMap!Set
<1>3. CASE HandleDecrypt
  <2>1. Get(str.func) /\ server = "handle"
    BY <1>3 DEF HandleDecrypt, Handling
  <2>2. PICK key \in Keys : key = str.func
    BY <2>1, HandledLine
  <2>3. PICK bin \in Bins[key] : call' = Called("htGet", key, htGet(ht, bin, key))
    BY <2>1, <2>2 DEF Get
  <2>4. call'.fn = "htGet" /\ call'.key = key /\ call'.value = htGet(ht, bin, key)
    BY <2>3 DEF Called
  <2>5. call'.value \in map[key] \/ (call'.value = None /\ (map[key] = {} \/ key \notin OneBin))
    BY <2>4, GetStored DEF IInv
  <2>6. UNCHANGED map
    BY <2>1 DEF Get, Stored, PairsOf
  <2> QED
    BY <2>4, <2>5, <2>6 DEF TheMap!Next, TheMap!Get
<1>4. CASE Next /\ ~HandleEncrypt /\ ~HandleDecrypt
  <2>1. UNCHANGED <<ht, call>>
    BY <1>4 DEF Next, Main, Request, Connect, Send, Receive, Die, Accept, Recv, RecvNothing, Take,
                HandleMissing, HandleOther, SendBack, SendBroken, AllDone, vars
  <2> QED
    BY <1>1, <2>1
<1> QED
  BY <1>1, <1>2, <1>3, <1>4 DEF vars

(* The lists in bins implement a map, for every set of keys and whatever bins htHash gives *)
(* them: htSet keeps its value under its key and loses no other key, htGet answers with a  *)
(* value of the key it is asked for, and for a key with one bin with the one it was last   *)
(* set to.                                                                                 *)
THEOREM TableIsMap == Spec => IsMap
<1> DEFINE map == [key \in Keys |-> Stored(key)]
<1>1. Init => Home
  BY DEF Init, HtInit, htCreate, Home
<1>2. Init => TheMap!Init
  <2> SUFFICES ASSUME Init PROVE TheMap!Init
    OBVIOUS
  <2>1. \A b \in 0 .. Size - 1 : DOMAIN ht[b] = {}
    BY DEF Init, HtInit, htCreate
  <2>2. \A key \in Keys : Stored(key) = {}
    BY <2>1, StoredIs
  <2>3. call.fn = "htCreate"
    BY DEF Init, HtInit, Called
  <2> QED
    BY <2>2, <2>3 DEF TheMap!Init
<1>3. IInv /\ Home /\ [Next]_vars => Home'
  BY HomeStep
<1>4. IInv /\ Home /\ [Next]_vars => [TheMap!Next]_<<map, call>>
  BY MapStep
<1> QED
  BY <1>1, <1>2, <1>3, <1>4, ServerInvariant, PTL DEF Spec, IsMap, TheMap!Spec
=============================================================================
