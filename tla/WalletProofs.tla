---------------------------- MODULE WalletProofs ----------------------------
(***************************************************************************)
(* The wallet file for any number of commands, addresses and faults.       *)
(*                                                                         *)
(* The properties speak of the path only; the invariant adds what the      *)
(* commands hold: one that creates holds its own secret, any other the     *)
(* secret of the file, what is about to be published is synced, and the    *)
(* addresses have no hole.                                                 *)
(***************************************************************************)
EXTENDS WalletFile, ListTheorems, TLAPS

\* f is a table with an entry for every command.
Table(f) == f = [p \in Procs |-> f[p]]

Tables == Table(step) /\ Table(wallet) /\ Table(temporary) /\ Table(creates)

Held ==
    \A p \in Procs : step[p] # "idle" =>
        /\ IF creates[p] THEN wallet[p].secret = p
           ELSE file.secret \in Procs /\ wallet[p].secret = file.secret
        /\ step[p] \in {"written", "synced"} => temporary[p].secret = wallet[p].secret
        /\ step[p] = "synced" => temporary[p].synced

\* A file is nothing, or a synced wallet.
Good(f) == f = NoFile \/ (f.secret \in Procs /\ f.synced)

Files ==
    /\ Good(file) /\ Good(durable)
    /\ durable # NoFile => durable.secret = file.secret
    /\ made \subseteq Procs /\ \A p \in made : file.secret = p

IInv == Tables /\ Held /\ Files /\ faults \in Nat

\* What a command's step leaves of the three tables.
LEMMA GoesFacts ==
    ASSUME Tables, NEW p \in Procs, NEW to, NEW w, NEW t, Goes(p, to, w, t)
    PROVE  /\ Table(step)' /\ Table(wallet)' /\ Table(temporary)'
           /\ step'[p] = to /\ wallet'[p] = w /\ temporary'[p] = t
           /\ \A q \in Procs \ {p} : /\ step'[q] = step[q] /\ wallet'[q] = wallet[q]
                                     /\ temporary'[q] = temporary[q]
  BY DEF Tables, Table, Goes

\* The two files that are no wallet are told apart from wallets by their secret.
LEMMA NoSecret == NoFile.secret \notin Procs /\ Damaged.secret \notin Procs /\ Damaged # NoFile
  <1>1. NoFile.secret = "" /\ Damaged.secret = "?"
    BY DEF NoFile, Damaged
  <1> QED
    BY <1>1, WalletAssumption

\* There is nothing at first.
LEMMA InitHolds == Init => IInv
  <1> SUFFICES ASSUME Init PROVE IInv
    OBVIOUS
  <1>1. Tables
    BY DEF Init, Tables, Table
  <1>2. \A p \in Procs : step[p] = "idle"
    BY DEF Init
  <1>3. Held
    BY <1>2 DEF Held
  <1>4. Files
    BY DEF Init, Files, Good
  <1> QED
    BY <1>1, <1>3, <1>4 DEF Init, IInv

\* A step that leaves the files alone and changes what one command holds.
LEMMA HeldStep ==
    ASSUME IInv, NEW p \in Procs, NEW to, NEW w, NEW t, Goes(p, to, w, t),
           UNCHANGED <<file, durable, made>>, Table(creates)', faults' \in Nat,
           \A q \in Procs \ {p} : creates'[q] = creates[q],
           to # "idle" =>
             /\ IF creates'[p] THEN w.secret = p ELSE file.secret \in Procs /\ w.secret = file.secret
             /\ to \in {"written", "synced"} => t.secret = w.secret
             /\ to = "synced" => t.synced
    PROVE  IInv'
  <1>1. Tables'
    BY GoesFacts DEF IInv, Tables
  <1>2. Files'
    BY DEF IInv, Files
  <1>3. Held'
    <2> SUFFICES ASSUME NEW q \in Procs, step'[q] # "idle"
                 PROVE  /\ IF creates'[q] THEN wallet'[q].secret = q
                           ELSE file'.secret \in Procs /\ wallet'[q].secret = file'.secret
                        /\ step'[q] \in {"written", "synced"}
                              => temporary'[q].secret = wallet'[q].secret
                        /\ step'[q] = "synced" => temporary'[q].synced
      BY DEF Held
    <2>1. CASE q = p
      BY <2>1, GoesFacts DEF IInv
    <2>2. CASE q # p
      BY <2>2, GoesFacts DEF IInv, Held
    <2> QED
      BY <2>1, <2>2
  <1> QED
    BY <1>1, <1>2, <1>3 DEF IInv

\* Publishing is the one step of a command that changes the path: it takes the
\* secret that is there, or there is nothing.
LEMMA PublishStep ==
    ASSUME IInv, NEW p \in Procs, Publish(p)
    PROVE  IInv' /\ (Exists => file'.secret = file.secret)
  <1>1. /\ Table(creates)' /\ faults' \in Nat /\ UNCHANGED <<durable, creates>>
        /\ step[p] = "synced" /\ Goes(p, "idle", NoFile, NoFile)
    BY DEF Publish, Done, IInv, Tables, Table
  <1>2. CASE ~MayPublish(p)
    <2>1. UNCHANGED <<file, durable, made>>
      BY <1>1, <1>2 DEF Publish
    <2> QED
      BY <1>1, <2>1, HeldStep
  <1>3. CASE MayPublish(p)
    <2>1. file' = temporary[p] /\ temporary[p].synced /\ temporary[p].secret = wallet[p].secret
      BY <1>1, <1>3 DEF Publish, IInv, Held
    <2>2. temporary[p].secret = IF creates[p] THEN p ELSE file.secret
      BY <1>1, <2>1 DEF IInv, Held
    <2>3. temporary[p].secret \in Procs /\ (Exists => temporary[p].secret = file.secret)
      BY <1>1, <1>3, <2>2 DEF IInv, Held, MayPublish
    <2>4. Files'
      <3>1. Good(file)' /\ Good(durable)'
        BY <1>1, <2>1, <2>3 DEF IInv, Files, Good
      <3>2. durable' # NoFile => durable'.secret = file'.secret
        <4>1. durable # NoFile => durable.secret \in Procs /\ durable.secret = file.secret
          BY DEF IInv, Files, Good
        <4>2. durable # NoFile => Exists
          BY <4>1, NoSecret DEF Exists
        <4> QED
          BY <1>1, <2>1, <2>3, <4>1, <4>2
      <3>3. made' \subseteq Procs /\ \A q \in made' : file'.secret = q
        <4>1. \A q \in made : Exists
          BY NoSecret DEF IInv, Files, Exists, Good
        <4>2. \A q \in made : file'.secret = q
          BY <2>1, <2>3, <4>1 DEF IInv, Files
        <4>3. made' \subseteq made \cup {p} /\ (p \in made' => p \in made \/ creates[p])
          BY DEF Publish
        <4> QED
          BY <2>1, <2>2, <4>2, <4>3 DEF IInv, Files
      <3> QED
        BY <3>1, <3>2, <3>3 DEF Files
    <2>5. Held'
      <3> SUFFICES ASSUME NEW q \in Procs, step'[q] # "idle"
                   PROVE  /\ IF creates'[q] THEN wallet'[q].secret = q
                             ELSE file'.secret \in Procs /\ wallet'[q].secret = file'.secret
                          /\ step'[q] \in {"written", "synced"}
                                => temporary'[q].secret = wallet'[q].secret
                          /\ step'[q] = "synced" => temporary'[q].synced
        BY DEF Held
      <3>1. q # p /\ step'[q] = step[q] /\ wallet'[q] = wallet[q] /\ temporary'[q] = temporary[q]
        BY <1>1, GoesFacts DEF IInv
      <3>2. ~creates[q] => file.secret \in Procs /\ file'.secret = file.secret
        <4>1. ~creates[q] => file.secret \in Procs
          BY <3>1 DEF IInv, Held
        <4> QED
          BY <2>1, <2>3, <4>1, NoSecret DEF Exists
      <3> QED
        BY <1>1, <3>1, <3>2 DEF IInv, Held
    <2> QED
      BY <1>1, <2>1, <2>3, <2>4, <2>5, GoesFacts DEF IInv, Tables
  <1> QED
    BY <1>2, <1>3

\* Nothing is running after a power loss, and what was synced is whole.
LEMMA LossStep ==
    ASSUME IInv, PowerLoss
    PROVE  IInv' /\ faults' > faults /\ (file'.secret = file.secret \/ file' = NoFile)
  <1>1. PICK f \in {file, durable} : file' = AfterLoss(f) /\ durable' = AfterLoss(f)
    BY DEF PowerLoss
  <1>2. Good(f) /\ AfterLoss(f) = f
    BY DEF IInv, Files, Good, AfterLoss
  <1>3. file'.secret = file.secret \/ file' = NoFile
    BY <1>1, <1>2 DEF IInv, Files
  <1>4. Files'
    BY <1>1, <1>2 DEF Files, PowerLoss, Good
  <1>5. Tables' /\ Held'
    BY DEF PowerLoss, IInv, Tables, Table, Held
  <1>6. faults' \in Nat /\ faults' > faults
    BY DEF PowerLoss, IInv
  <1> QED
    BY <1>3, <1>4, <1>5, <1>6 DEF IInv

\* Every step keeps the invariant, and no step changes the secret of the path.
LEMMA Step ==
    ASSUME IInv, [Next]_vars
    PROVE  /\ IInv'
           /\ Exists => file'.secret = file.secret \/ (file' = NoFile /\ faults' > faults)
  <1>0. Table(creates) /\ faults \in Nat
    BY DEF IInv, Tables
  <1>1. ASSUME NEW p \in Procs, Create(p) PROVE IInv' /\ file' = file
    <2> DEFINE w == [secret |-> p, addresses |-> {0}, synced |-> FALSE]
    <2>1. Goes(p, "save", w, NoFile) /\ creates' = [creates EXCEPT ![p] = TRUE]
      BY <1>1 DEF Create
    <2>2. Table(creates)' /\ creates'[p] = TRUE /\ \A q \in Procs \ {p} : creates'[q] = creates[q]
      BY <1>0, <2>1 DEF Table
    <2>3. w.secret = p /\ UNCHANGED <<file, durable, made>> /\ faults' \in Nat
      BY <1>0, <1>1 DEF Create
    <2> HIDE DEF w
    <2> QED
      BY <2>1, <2>2, <2>3, HeldStep
  <1>2. ASSUME NEW p \in Procs, Load(p) PROVE IInv' /\ file' = file
    <2> DEFINE w == Same(file, file.addresses, FALSE)
    <2>1. Goes(p, "open", w, NoFile) /\ creates' = [creates EXCEPT ![p] = FALSE]
      BY <1>2 DEF Load
    <2>2. Table(creates)' /\ creates'[p] = FALSE /\ \A q \in Procs \ {p} : creates'[q] = creates[q]
      BY <1>0, <2>1 DEF Table
    <2>3. file.secret \in Procs /\ w.secret = file.secret
      BY <1>2 DEF Load, Wallets, Same
    <2>4. UNCHANGED <<file, durable, made>> /\ faults' \in Nat
      BY <1>0, <1>2 DEF Load
    <2> HIDE DEF w
    <2> QED
      BY <2>1, <2>2, <2>3, <2>4, HeldStep
  <1>3. ASSUME NEW p \in Procs, NEW to, NEW w, NEW t, Goes(p, to, w, t), step[p] # "idle",
               UNCHANGED <<file, durable, creates, made>>, faults' \in Nat,
               to # "idle" => w.secret = wallet[p].secret,
               to \in {"written", "synced"} => t.secret = w.secret,
               to = "synced" => t.synced
        PROVE  IInv' /\ file' = file
    <2>1. Table(creates)' /\ \A q \in Procs \ {p} : creates'[q] = creates[q]
      BY <1>0, <1>3 DEF Table
    <2>2. IF creates'[p] THEN wallet[p].secret = p
          ELSE file.secret \in Procs /\ wallet[p].secret = file.secret
      BY <1>3 DEF IInv, Held
    <2> QED
      BY <1>3, <2>1, <2>2, HeldStep
  <1>4. ASSUME NEW p \in Procs, NewAddress(p) PROVE IInv' /\ file' = file
    <2>1. PICK set : Goes(p, "save", Same(wallet[p], set, FALSE), NoFile)
      BY <1>4 DEF NewAddress
    <2>2. Same(wallet[p], set, FALSE).secret = wallet[p].secret
      BY DEF Same
    <2> QED
      BY <1>0, <1>3, <1>4, <2>1, <2>2 DEF NewAddress
  <1>5. ASSUME NEW p \in Procs, Discover(p) PROVE IInv' /\ file' = file
    <2>1. CASE Done(p)
      BY <1>0, <1>3, <1>5, <2>1 DEF Discover, Done
    <2>2. CASE ~Done(p)
      <3>1. PICK set : Goes(p, "save", Same(wallet[p], set, FALSE), NoFile)
        BY <1>5, <2>2 DEF Discover
      <3>2. Same(wallet[p], set, FALSE).secret = wallet[p].secret
        BY DEF Same
      <3> QED
        BY <1>0, <1>3, <1>5, <3>1, <3>2 DEF Discover
    <2> QED
      BY <2>1, <2>2
  <1>6. ASSUME NEW p \in Procs, Write(p) PROVE IInv' /\ file' = file
    BY <1>0, <1>3, <1>6 DEF Write
  <1>7. ASSUME NEW p \in Procs, Fsync(p) PROVE IInv' /\ file' = file
    <2>1. /\ Synced(temporary[p]).secret = temporary[p].secret /\ Synced(temporary[p]).synced
          /\ temporary[p].secret = wallet[p].secret
      BY <1>7 DEF Synced, Same, Fsync, IInv, Held
    <2> QED
      BY <1>0, <1>3, <1>7, <2>1 DEF Fsync
  <1>8. ASSUME NEW p \in Procs, Fails(p) PROVE IInv' /\ file' = file
    <2>1. faults' \in Nat
      BY <1>0, <1>8 DEF Fails
    <2> QED
      BY <1>3, <1>8, <2>1 DEF Fails, Done
  <1>9. CASE Settle
    BY <1>9 DEF Settle, IInv, Tables, Table, Held, Files
  <1>10. CASE UNCHANGED vars
    BY <1>10 DEF vars, IInv, Tables, Table, Held, Files
  <1>11. Settle \/ UNCHANGED vars => file' = file
    BY DEF Settle, vars
  <1> QED
    BY <1>1, <1>2, <1>4, <1>5, <1>6, <1>7, <1>8, <1>9, <1>10, <1>11, PublishStep, LossStep DEF Next

\* The invariant holds in every reachable state.
LEMMA Invariant == Spec => []IInv
  <1>1. IInv /\ [Next]_vars => IInv'
    BY Step
  <1> QED
    BY <1>1, InitHolds, PTL DEF Spec

\* "Publish a complete wallet atomically": the path never holds a damaged file,
\* whatever is killed or loses power, and when; and a command that reported a new
\* wallet made the one that is there (_new, save).
THEOREM Whole == Spec => []WalletWhole
  <1>1. IInv => WalletWhole
    BY NoSecret DEF IInv, Files, Good, WalletWhole
  <1> QED
    BY <1>1, Invariant, PTL

\* "creation must never replace an existing path" (save with overwrite=False).
THEOREM Kept == Spec => SecretKept
  <1>1. IInv /\ [Next]_vars =>
          [Exists => (file'.secret = file.secret \/ (file' = NoFile /\ faults' > faults))]_vars
    BY Step
  <1> QED
    BY <1>1, Invariant, PTL DEF Spec, SecretKept

-----------------------------------------------------------------------------
(* The addresses *)

\* Addresses without a hole.
Closed(A) == A \subseteq 0..MaxIndex /\ \A i \in A : 0..i \subseteq A

\* A file with such addresses, and with address #0 if it is a wallet.
Filled(f) == Closed(f.addresses) /\ (f.secret \in Procs => 0 \in f.addresses)

\* What commands hold and write has no hole either; this is needed because a
\* command that was slow may publish what it loaded long ago.
FilledInv ==
    /\ used \subseteq 0..MaxIndex
    /\ Filled(file) /\ Filled(durable)
    /\ \A p \in Procs : Filled(wallet[p]) /\ Filled(temporary[p])

\* The bounds are numbers.
LEMMA BoundFacts == Gap \in Nat /\ Gap > 0 /\ MaxIndex \in Nat
  <1>1. Gap \in Nat \ {0} /\ MaxIndex \in Nat
    BY WalletAssumption
  <1> QED
    BY <1>1

\* The scan: the first index that ends it, and the last used address below it.
LEMMA ScanFacts ==
    ASSUME used \subseteq 0..MaxIndex
    PROVE  /\ LastUsed \in -1..MaxIndex
           /\ \E stop \in Nat :
                 /\ stop - LastUsed > Gap /\ LastUsed < stop
                 /\ LastUsed = -1 \/ LastUsed \in used
                 /\ \A u \in used : u < stop => u <= LastUsed
                 /\ \A k \in Nat : k < stop =>
                       \E l \in -1..MaxIndex : /\ k - l <= Gap /\ l < k
                                               /\ l = -1 \/ l \in used
  <1>1. Gap \in Nat /\ Gap > 0 /\ MaxIndex \in Nat
    BY BoundFacts
  <1> DEFINE below(index) == {-1} \cup {u \in used : u < index}
  <1>2. ASSUME NEW k \in Nat
        PROVE  /\ LastBefore(k) \in below(k) /\ LastBefore(k) \in -1..MaxIndex
               /\ LastBefore(k) < k /\ (LastBefore(k) = -1 \/ LastBefore(k) \in used)
               /\ \A u \in used : u < k => u <= LastBefore(k)
    <2> DEFINE B == below(k)
    <2>1. B \in SUBSET Int /\ B # {} /\ \A x \in B : x <= MaxIndex
      <3>1. \A x \in B : x = -1 \/ x \in 0..MaxIndex
        OBVIOUS
      <3>2. \A x \in B : x \in Int /\ x <= MaxIndex
        BY <1>1, <3>1
      <3> QED
        BY <3>2
    <2>2. \E x \in B : \A y \in B : y <= x
      <3> HIDE DEF B
      <3> QED
        BY <1>1, <2>1, GreatestNumber
    <2>3. \E x \in B : \A y \in B : x >= y
      BY <2>1, <2>2
    <2>4. Max(B) \in B /\ \A y \in B : Max(B) >= y
      <3> HIDE DEF B
      <3> QED
        BY <2>3 DEF Max
    <2>5. LastBefore(k) = Max(B)
      BY DEF LastBefore
    <2>6. PICK m : m = LastBefore(k)
      OBVIOUS
    <2>7. m \in B /\ \A y \in B : m >= y
      BY <2>4, <2>5, <2>6
    <2>8. \A u \in used : u \in 0..MaxIndex
      OBVIOUS
    <2>9. m = -1 \/ (m \in used /\ m < k)
      BY <2>7
    <2>10. m \in -1..MaxIndex /\ m < k
      <3>1. CASE m = -1
        BY <1>1, <3>1
      <3>2. CASE m \in used /\ m < k
        BY <1>1, <2>8, <3>2
      <3> QED
        BY <2>9, <3>1, <3>2
    <2>11. \A u \in used : u < k => u <= m
      BY <2>7, <2>8, <2>10
    <2> QED
      BY <2>6, <2>7, <2>9, <2>10, <2>11
  <1> DEFINE ends == {index \in 0..(MaxIndex + Gap + 1) : ScanEnds(index, LastBefore(index))}
             stop == Min(ends)
  <1>3. ends \in SUBSET Nat
    OBVIOUS
  <1>4. ends # {}
    <2> DEFINE n == MaxIndex + Gap + 1
    <2>1. n \in Nat /\ n \in 0..n
      BY <1>1
    <2>2. PICK l \in -1..MaxIndex : l = LastBefore(n)
      BY <1>2, <2>1
    <2>3. n - l > Gap
      BY <1>1
    <2>4. n \in ends
      BY <2>1, <2>2, <2>3 DEF ScanEnds
    <2> QED
      BY <2>4
  <1>5. stop \in ends /\ \A y \in ends : stop <= y
    <2> HIDE DEF ends
    <2>1. \E x \in ends : \A y \in ends : x <= y
      BY <1>3, <1>4, LeastNumber
    <2> QED
      BY <2>1 DEF Min
  <1>6. LastUsed = LastBefore(stop)
    BY DEF LastUsed
  <1>7. PICK s, m : s = stop /\ m = LastUsed
    OBVIOUS
  <1>8. /\ s \in Nat /\ s <= MaxIndex + Gap + 1 /\ s - m > Gap
        /\ \A k \in Nat : k < s => k - LastBefore(k) <= Gap
    <2>1. s \in 0..(MaxIndex + Gap + 1) /\ s - m > Gap
      BY <1>5, <1>6, <1>7 DEF ScanEnds
    <2>2. ASSUME NEW k \in Nat, k < s PROVE k - LastBefore(k) <= Gap
      <3>1. k \in 0..(MaxIndex + Gap + 1)
        BY <1>1, <2>1, <2>2
      <3>2. k \notin ends
        <4>1. ~(s <= k)
          BY <2>1, <2>2
        <4> QED
          BY <1>5, <1>7, <4>1
      <3>3. ~(k - LastBefore(k) > Gap)
        BY <3>1, <3>2 DEF ScanEnds
      <3>4. PICK l \in -1..MaxIndex : l = LastBefore(k)
        BY <1>2
      <3> QED
        BY <1>1, <3>3, <3>4
    <2> QED
      BY <1>1, <2>1, <2>2
  <1>9. /\ m \in -1..MaxIndex /\ m < s /\ (m = -1 \/ m \in used)
        /\ \A u \in used : u < s => u <= m
    BY <1>2, <1>6, <1>7, <1>8
  <1>10. \A k \in Nat : k < s => \E l \in -1..MaxIndex : /\ k - l <= Gap /\ l < k
                                                         /\ l = -1 \/ l \in used
    BY <1>2, <1>8
  <1> HIDE DEF ends, stop
  <1> QED
    BY <1>7, <1>8, <1>9, <1>10

\* discover finds the addresses of the gap rule.
LEMMA FoundExact ==
    ASSUME used \subseteq 0..MaxIndex
    PROVE  Found = {i \in 0..MaxIndex : \E u \in Reachable : i <= u}
  <1>1. Gap \in Nat /\ Gap > 0 /\ MaxIndex \in Nat /\ \A u \in used : u \in 0..MaxIndex
    BY BoundFacts
  <1>2. PICK m \in -1..MaxIndex : m = LastUsed
    BY ScanFacts
  <1>3. PICK s \in Nat :
              /\ s - m > Gap /\ m < s
              /\ m = -1 \/ m \in used
              /\ \A u \in used : u < s => u <= m
              /\ \A k \in Nat : k < s => \E l \in -1..MaxIndex : /\ k - l <= Gap /\ l < k
                                                                 /\ l = -1 \/ l \in used
    BY <1>2, ScanFacts
  <1>4. m \in Int
    BY <1>1
  \* No unused stretch as long as the gap comes before the last used address.
  <1>5. ASSUME m # -1 PROVE m \in Reachable
    <2>1. m \in used
      BY <1>3, <1>5
    <2>2. ASSUME NEW i \in 0..(m - Gap) PROVE \E j \in i..(i + Gap - 1) : j \in used
      <3> DEFINE k == i + Gap
      <3>1. i \in Nat /\ k \in Nat /\ k < s
        BY <1>1, <1>3, <1>4
      <3>2. PICK l \in -1..MaxIndex : k - l <= Gap /\ l < k /\ (l = -1 \/ l \in used)
        <4> HIDE DEF k
        <4> QED
          BY <1>3, <3>1
      <3>3. l \in i..(i + Gap - 1) /\ l # -1
        BY <1>1, <3>1, <3>2
      <3> QED
        BY <3>2, <3>3
    <2> QED
      BY <2>1, <2>2 DEF Reachable
  \* The stretch that ended the scan comes before every later one.
  <1>6. ASSUME NEW u \in Reachable PROVE u <= m
    <2>1. u \in used /\ u \in 0..MaxIndex
      BY <1>1 DEF Reachable
    <2> SUFFICES ASSUME ~(u <= m) PROVE FALSE
      OBVIOUS
    <2>2. u >= s
      BY <1>3, <1>4, <2>1
    <2>3. s - Gap \in 0..(u - Gap)
      BY <1>1, <1>3, <1>4, <2>1, <2>2
    <2>4. PICK j \in (s - Gap)..(s - Gap + Gap - 1) : j \in used
      BY <2>3 DEF Reachable
    <2>5. j < s /\ j > m /\ j \in Int
      BY <1>1, <1>3, <1>4, <2>4
    <2> QED
      BY <1>3, <1>4, <2>4, <2>5
  <1>7. Found = 0..m
    BY <1>2 DEF Found
  <1>8. ASSUME NEW i \in 0..m PROVE i \in 0..MaxIndex /\ \E u \in Reachable : i <= u
    BY <1>1, <1>4, <1>5
  <1>9. ASSUME NEW i \in 0..MaxIndex, NEW u \in Reachable, i <= u PROVE i \in 0..m
    <2>1. u \in 0..MaxIndex
      BY <1>1 DEF Reachable
    <2> QED
      BY <1>1, <1>4, <1>6, <1>9, <2>1
  <1> QED
    BY <1>7, <1>8, <1>9

\* What discover adds leaves no hole.
LEMMA FoundClosed ==
    ASSUME used \subseteq 0..MaxIndex, NEW A, Closed(A)
    PROVE  Closed(A \cup Found)
  <1>1. PICK m \in -1..MaxIndex : m = LastUsed
    BY ScanFacts
  <1>2. Found = 0..m /\ MaxIndex \in Nat
    BY <1>1, BoundFacts DEF Found
  <1>3. Closed(0..m)
    BY <1>2 DEF Closed
  <1> QED
    BY <1>2, <1>3 DEF Closed

\* Nor does the index after the highest.
LEMMA NextClosed ==
    ASSUME NEW A, Closed(A), 0 \in A,
           NEW n, n = CHOOSE i \in 0..(MaxIndex + 1) : i - 1 \in A /\ \A j \in A : j < i,
           n <= MaxIndex
    PROVE  Closed(A \cup {n})
  <1>1. MaxIndex \in Nat /\ A \in SUBSET Int /\ \A x \in A : x \in 0..MaxIndex
    BY BoundFacts DEF Closed
  <1>2. PICK h \in A : \A j \in A : j <= h
    <2>1. MaxIndex \in Int /\ A # {} /\ \A x \in A : x <= MaxIndex
      BY <1>1
    <2> QED
      BY <1>1, <2>1, GreatestNumber
  <1> DEFINE P(i) == i - 1 \in A /\ \A j \in A : j < i
  <1>3. h + 1 \in 0..(MaxIndex + 1) /\ P(h + 1)
    <2>1. h \in 0..MaxIndex /\ (h + 1) - 1 = h
      BY <1>1
    <2>2. \A j \in A : j < h + 1
      BY <1>1, <1>2, <2>1
    <2> QED
      BY <1>1, <2>1, <2>2
  <1>4. n \in 0..(MaxIndex + 1) /\ P(n)
    <2> HIDE DEF P
    <2>1. n = CHOOSE i \in 0..(MaxIndex + 1) : P(i)
      BY DEF P
    <2> QED
      BY <1>3, <2>1
  <1>5. n \in 0..MaxIndex /\ 0..(n - 1) \subseteq A
    BY <1>1, <1>4 DEF Closed
  <1>6. 0..n \subseteq A \cup {n}
    BY <1>1, <1>5
  <1> QED
    BY <1>5, <1>6 DEF Closed

\* The command's step hands on addresses without a hole.
LEMMA FilledStep ==
    ASSUME IInv, FilledInv, NEW p \in Procs, NEW to, NEW w, NEW t, Goes(p, to, w, t),
           Filled(w), Filled(t), UNCHANGED <<used, durable>>, Filled(file)'
    PROVE  FilledInv'
  <1>1. \A q \in Procs : Filled(wallet'[q]) /\ Filled(temporary'[q])
    BY GoesFacts DEF IInv, FilledInv
  <1> QED
    BY <1>1 DEF FilledInv, Filled

LEMMA FilledNext ==
    ASSUME IInv, FilledInv, [Next]_vars
    PROVE  FilledInv'
  <1>1. Filled(NoFile) /\ Filled(Damaged)
    BY NoSecret DEF Filled, Closed, NoFile, Damaged
  <1>2. ASSUME NEW p \in Procs
        PROVE  /\ Filled(wallet[p]) /\ Filled(temporary[p])
               /\ step[p] # "idle" => wallet[p].secret \in Procs
    BY DEF FilledInv, IInv, Held
  <1>3. ASSUME NEW w, NEW A, NEW b, Closed(A), 0 \in A PROVE Filled(Same(w, A, b))
    BY <1>3 DEF Same, Filled
  <1>4. file' = file => Filled(file)'
    BY DEF FilledInv, Filled
  <1>5. ASSUME NEW p \in Procs, Create(p) PROVE FilledInv'
    <2> DEFINE w == [secret |-> p, addresses |-> {0}, synced |-> FALSE]
    <2>1. Goes(p, "save", w, NoFile) /\ UNCHANGED <<used, file, durable>>
      BY <1>5 DEF Create
    <2>2. Filled(w)
      BY BoundFacts DEF Filled, Closed
    <2> HIDE DEF w
    <2> QED
      BY <1>1, <1>4, <2>1, <2>2, FilledStep
  <1>6. ASSUME NEW p \in Procs, Load(p) PROVE FilledInv'
    <2> DEFINE w == Same(file, file.addresses, FALSE)
    <2>1. /\ Goes(p, "open", w, NoFile) /\ UNCHANGED <<used, file, durable>>
          /\ file.secret \in Procs
      BY <1>6 DEF Load, Wallets
    <2>2. Filled(w)
      BY <1>3, <2>1 DEF FilledInv, Filled
    <2> HIDE DEF w
    <2> QED
      BY <1>1, <1>4, <2>1, <2>2, FilledStep
  <1>7. ASSUME NEW p \in Procs, NewAddress(p) PROVE FilledInv'
    <2> DEFINE A == wallet[p].addresses
               n == CHOOSE i \in 0..(MaxIndex + 1) : i - 1 \in A /\ \A j \in A : j < i
               w == Same(wallet[p], A \cup {n}, FALSE)
    <2>1. /\ Goes(p, "save", w, NoFile) /\ UNCHANGED <<used, file, durable>>
          /\ step[p] = "open" /\ n <= MaxIndex
      BY <1>7 DEF NewAddress
    <2>2. Closed(A) /\ 0 \in A
      BY <1>2, <2>1 DEF Filled
    <2>3. Closed(A \cup {n})
      BY <2>1, <2>2, NextClosed
    <2>4. Filled(w)
      BY <1>3, <2>2, <2>3
    <2> HIDE DEF w
    <2> QED
      BY <1>1, <1>4, <2>1, <2>4, FilledStep
  <1>8. ASSUME NEW p \in Procs, Discover(p) PROVE FilledInv'
    <2> DEFINE A == wallet[p].addresses
               w == Same(wallet[p], A \cup Found, FALSE)
    <2>1. /\ Goes(p, "idle", NoFile, NoFile) \/ Goes(p, "save", w, NoFile)
          /\ UNCHANGED <<used, file, durable>> /\ step[p] = "open"
      BY <1>8 DEF Discover, Done
    <2>2. Closed(A) /\ 0 \in A
      BY <1>2, <2>1 DEF Filled
    <2>3. Closed(A \cup Found)
      BY <2>2, FoundClosed DEF FilledInv
    <2>4. Filled(w)
      BY <1>3, <2>2, <2>3
    <2> HIDE DEF w
    <2> QED
      BY <1>1, <1>4, <2>1, <2>4, FilledStep
  <1>9. ASSUME NEW p \in Procs, Write(p) PROVE FilledInv'
    BY <1>2, <1>4, <1>9, FilledStep DEF Write
  <1>10. ASSUME NEW p \in Procs, Fsync(p) PROVE FilledInv'
    <2>1. Filled(Synced(temporary[p]))
      BY <1>2 DEF Synced, Same, Filled
    <2> QED
      BY <1>2, <1>4, <1>10, <2>1, FilledStep DEF Fsync
  <1>11. ASSUME NEW p \in Procs, Publish(p) PROVE FilledInv'
    <2>1. file' \in {file, temporary[p]} /\ UNCHANGED <<used, durable>>
      BY <1>11 DEF Publish
    <2>2. Filled(file)'
      BY <1>2, <2>1 DEF FilledInv, Filled
    <2> QED
      BY <1>1, <1>11, <2>1, <2>2, FilledStep DEF Publish, Done
  <1>12. ASSUME NEW p \in Procs, Fails(p) PROVE FilledInv'
    BY <1>1, <1>4, <1>12, FilledStep DEF Fails, Done
  <1>13. CASE Settle
    BY <1>13 DEF Settle, FilledInv, Filled
  <1>14. CASE PowerLoss
    <2>1. PICK f \in {file, durable} : file' = AfterLoss(f) /\ durable' = AfterLoss(f)
      BY <1>14 DEF PowerLoss
    <2>2. Filled(AfterLoss(f))
      BY <1>1 DEF FilledInv, AfterLoss
    <2>3. Filled(file)' /\ Filled(durable)'
      BY <2>1, <2>2 DEF Filled
    <2>4. \A p \in Procs : Filled(wallet'[p]) /\ Filled(temporary'[p])
      BY <1>1, <1>14 DEF PowerLoss
    <2> QED
      BY <1>14, <2>3, <2>4 DEF PowerLoss, FilledInv, Filled
  <1>15. CASE UNCHANGED vars
    BY <1>15 DEF vars, FilledInv, Filled
  <1> QED
    BY <1>5, <1>6, <1>7, <1>8, <1>9, <1>10, <1>11, <1>12, <1>13, <1>14, <1>15 DEF Next

\* Whatever addresses were used, and for every gap: the scan of discover finds
\* exactly what the gap rule promises, and no file has a hole in its addresses,
\* however commands that load, extend and save it interleave or fail.
THEOREM Discovers == Spec => []DiscoverExact
  <1>1. Init => FilledInv
    <2> SUFFICES ASSUME Init PROVE FilledInv
      OBVIOUS
    <2>1. Filled(NoFile)
      BY NoSecret DEF Filled, Closed, NoFile
    <2> QED
      BY <2>1 DEF Init, FilledInv
  <1>2. IInv /\ FilledInv /\ [Next]_vars => FilledInv'
    BY FilledNext
  <1>3. FilledInv => DiscoverExact
    BY FoundExact DEF FilledInv, Filled, Closed, DiscoverExact
  <1> QED
    BY <1>1, <1>2, <1>3, Invariant, PTL DEF Spec
=============================================================================
