----------------------------- MODULE WalletFile -----------------------------
(***************************************************************************)
(* The wallet file (wallet/wallet.py): commands that create it or add      *)
(* addresses run as processes of their own, may run at the same time, and  *)
(* may be killed; the computer may lose power.                             *)
(*                                                                         *)
(* A wallet is its secret and the set of address indexes; encryption, keys *)
(* and the password check are left out.  Data that was not fsynced is      *)
(* lost with the power, and so may be a name that was published lately.    *)
(***************************************************************************)
EXTENDS Integers, FiniteSets, FiniteSetsExt

CONSTANTS
    Procs,      \* commands; each would create a wallet with a secret of its own
    Gap,        \* GAP_LIMIT
    MaxIndex,   \* bound on address indexes
    MaxFaults   \* bound on killed commands, failed writes and power losses

ASSUME WalletAssumption ==
    /\ "" \notin Procs /\ "?" \notin Procs
    /\ Gap \in Nat \ {0} /\ MaxIndex \in Nat /\ MaxFaults \in Nat

VARIABLES
    used,      \* the addresses with history: what is_used answers
    file,      \* the file under the wallet's path
    durable,   \* the file a power loss may bring back
    step,      \* where each command is: idle, open, save, written, synced
    wallet,    \* the Wallet object it holds
    temporary, \* its temporary file
    creates,   \* it saves with overwrite=False
    made,      \* commands that have reported a new wallet (history)
    faults

vars == <<used, file, durable, step, wallet, temporary, creates, made, faults>>

NoFile == [secret |-> "", addresses |-> {}, synced |-> FALSE]
Damaged == [secret |-> "?", addresses |-> {}, synced |-> TRUE]
Wallets == [secret : Procs, addresses : SUBSET (0..MaxIndex), synced : BOOLEAN]

\* A wallet of the same secret.
Same(w, addresses, synced) == [secret |-> w.secret, addresses |-> addresses, synced |-> synced]

Exists == file # NoFile

\* The command goes on; a command that ends holds nothing.
Goes(p, to, w, t) ==
    /\ step' = [step EXCEPT ![p] = to]
    /\ wallet' = [wallet EXCEPT ![p] = w]
    /\ temporary' = [temporary EXCEPT ![p] = t]

Done(p) == Goes(p, "idle", NoFile, NoFile)

-----------------------------------------------------------------------------
\* _new: refuses early when there is a file; the wallet has address #0.
Create(p) ==
    /\ step[p] = "idle" /\ ~Exists
    /\ Goes(p, "save", [secret |-> p, addresses |-> {0}, synced |-> FALSE], NoFile)
    /\ creates' = [creates EXCEPT ![p] = TRUE]
    /\ UNCHANGED <<used, file, durable, made, faults>>

\* load
Load(p) ==
    /\ step[p] = "idle" /\ file \in Wallets
    /\ Goes(p, "open", Same(file, file.addresses, FALSE), NoFile)
    /\ creates' = [creates EXCEPT ![p] = FALSE]
    /\ UNCHANGED <<used, file, durable, made, faults>>

\* new_address takes the index after the highest.
NewAddress(p) ==
    LET next == CHOOSE i \in 0..(MaxIndex + 1) :
                    /\ i - 1 \in wallet[p].addresses
                    /\ \A j \in wallet[p].addresses : j < i
    IN  /\ step[p] = "open" /\ next <= MaxIndex
        /\ Goes(p, "save", Same(wallet[p], wallet[p].addresses \cup {next}, FALSE), NoFile)
        /\ UNCHANGED <<used, file, durable, creates, made, faults>>

\* Mutant: the scan ends one address early.
ScanEndsEarly(index, last) == index - last >= Gap

\* `while index - last_used <= gap`
ScanEnds(index, last) == index - last > Gap

\* last_used when the loop of discover comes to an index: the highest used
\* address below it.
LastBefore(index) == Max({-1} \cup {u \in used : u < index})

\* The loop ends at the first index that has the condition; the bound is past
\* every used address.
LastUsed ==
    LastBefore(Min({index \in 0..(MaxIndex + Gap + 1) : ScanEnds(index, LastBefore(index))}))

\* Every address up to the last used one.
Found == 0..LastUsed

\* discover; it saves only if it added something.
Discover(p) ==
    /\ step[p] = "open"
    /\ IF Found \subseteq wallet[p].addresses THEN Done(p)
       ELSE Goes(p, "save", Same(wallet[p], wallet[p].addresses \cup Found, FALSE), NoFile)
    /\ UNCHANGED <<used, file, durable, creates, made, faults>>

-----------------------------------------------------------------------------
(* save *)

\* A temporary file of its own, with the whole wallet.
Write(p) ==
    /\ step[p] = "save"
    /\ Goes(p, "written", wallet[p], wallet[p])
    /\ UNCHANGED <<used, file, durable, creates, made, faults>>

\* Mutant: the file is closed but not synced.
SyncNothing(w) == w

Synced(w) == Same(w, w.addresses, TRUE)

Fsync(p) ==
    /\ step[p] = "written"
    /\ Goes(p, "synced", wallet[p], Synced(temporary[p]))
    /\ UNCHANGED <<used, file, durable, creates, made, faults>>

\* Mutant: a new wallet is published like any other.
AlwaysPublishes(p) == TRUE

\* os.replace always does, os.link refuses an existing path.
MayPublish(p) == creates[p] => ~Exists

Publish(p) ==
    /\ step[p] = "synced"
    /\ file' = IF MayPublish(p) THEN temporary[p] ELSE file
    /\ made' = IF creates[p] /\ MayPublish(p) THEN made \cup {p} ELSE made
    /\ Done(p)
    /\ UNCHANGED <<used, durable, creates, faults>>

\* The directory reaches the disk by itself, some time.
Settle ==
    /\ durable' = file
    /\ UNCHANGED <<used, file, step, wallet, temporary, creates, made, faults>>

\* The command is killed or a write fails: the exception removes the temporary
\* file, a kill leaves it under a name nobody uses again.
Fails(p) ==
    /\ step[p] # "idle" /\ faults < MaxFaults
    /\ faults' = faults + 1
    /\ Done(p)
    /\ UNCHANGED <<used, file, durable, creates, made>>

\* What is on the disk of a file after a power loss.
AfterLoss(f) == IF f = NoFile \/ f.synced THEN f ELSE Damaged

PowerLoss ==
    /\ faults < MaxFaults /\ faults' = faults + 1
    /\ \E f \in {file, durable} : file' = AfterLoss(f) /\ durable' = AfterLoss(f)
    /\ step' = [p \in Procs |-> "idle"] /\ wallet' = [p \in Procs |-> NoFile]
    /\ temporary' = [p \in Procs |-> NoFile]
    /\ made' = {}
    /\ UNCHANGED <<used, creates>>

Init ==
    /\ used \in SUBSET (0..MaxIndex)
    /\ file = NoFile /\ durable = NoFile
    /\ step = [p \in Procs |-> "idle"] /\ wallet = [p \in Procs |-> NoFile]
    /\ temporary = [p \in Procs |-> NoFile] /\ creates = [p \in Procs |-> FALSE]
    /\ made = {} /\ faults = 0

Next ==
    \/ Settle \/ PowerLoss
    \/ \E p \in Procs :
          Create(p) \/ Load(p) \/ NewAddress(p) \/ Discover(p) \/ Write(p) \/ Fsync(p)
          \/ Publish(p) \/ Fails(p)

Spec == Init /\ [][Next]_vars

-----------------------------------------------------------------------------
(* Properties *)

\* "Publish a complete wallet atomically": whatever is killed or loses power, the
\* path holds a complete wallet or nothing; and a command that reported a new wallet
\* (and showed its words) made the one that is there, although several looked before
\* any published (save).
WalletWhole == file # Damaged /\ \A p \in made : file.secret = p

\* "creation must never replace an existing path": of two commands that both saw no
\* file, one publishes and the other is refused; no step ever changes the secret
\* of a wallet that is there, and only a power loss can take back a new one.
SecretKept ==
    [][Exists => (file'.secret = file.secret \/ (file' = NoFile /\ faults' > faults))]_vars

\* What discover may find: a used address that no Gap unused ones in a row precede.
Reachable == {u \in used : \A i \in 0..(u - Gap) : \E j \in i..(i + Gap - 1) : j \in used}

\* The scan finds the addresses of the gap rule, neither fewer nor more, and "every
\* address up to the last used one is added, so new_address() carries on after it":
\* no wallet has a hole, also when commands interleave.
DiscoverExact ==
    /\ Found = {i \in 0..MaxIndex : \E u \in Reachable : i <= u}
    /\ \A i \in file.addresses : 0..i \subseteq file.addresses
=============================================================================
