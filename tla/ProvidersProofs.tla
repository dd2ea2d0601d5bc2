-------------------------- MODULE ProvidersProofs --------------------------
(***************************************************************************)
(* Proofs about Providers, for any number of commands, any files and any   *)
(* archives.                                                               *)
(***************************************************************************)
EXTENDS Providers, FiniteSetTheorems, TLAPS

\* Commands are begun one after the other, and have their archive from the
\* end of their download on.
Order ==
    /\ \A p \in Command : pc[p] = "none" <=> p > begun
    /\ \A p \in Command : pc[p] \in {"none", "fetching"} => plan[p] = <<>>

Base == TypeOK /\ Order

-----------------------------------------------------------------------------
(* Types.                                                                  *)

LEMMA NoModules ==
    LET none == [n \in {} |-> Absent] IN
    none \in UNION {[S -> File] : S \in SUBSET Name} /\ DOMAIN none = {}
  <1>1. [n \in {} |-> Absent] \in [{} -> File] /\ {} \in SUBSET Name
      OBVIOUS
  <1> QED
      BY <1>1

LEMMA InitBase == Init => Base
  <1> SUFFICES ASSUME Init PROVE Base
      OBVIOUS
  <1>1. files \in [Dir -> [Name -> File]]
    <2>1. \A b \in BOOLEAN : Of(0, b) \in File
        BY MaxCommandsIsNat DEF File, Of
    <2>2. \A d \in Dir : (d \in made) \in BOOLEAN
        OBVIOUS
    <2>3. \A d \in Dir : Of(0, d \in made) \in File
        BY <2>1, <2>2
    <2> QED
        BY <2>3 DEF Init
  <1>2. modules \in UNION {[S -> File] : S \in SUBSET Name} /\ DOMAIN modules = {}
      BY NoModules DEF Init
  <1>3. made \subseteq Dir /\ dir \in [Command -> Dir]
      BY DEF Init, Dir
  <1>4. at \in [Command -> Nat] /\ \A p \in Command : at[p] \in 0..Len(plan[p])
      BY DEF Init
  <1>5. TypeOK
    <2>1. /\ pc \in [Command -> {"none", "fetching", "unpacking", "writing", "ok", "failed"}]
          /\ \A p \in Command : pc[p] # "writing"
        BY DEF Init
    <2>2. zip \in [Command -> BOOLEAN] /\ met \in [Command -> BOOLEAN]
        BY DEF Init
    <2>3. plan \in [Command -> Archive \union {<<>>}]
        BY DEF Init
    <2>4. begun \in 0..MaxCommands
        BY MaxCommandsIsNat DEF Init
    <2>5. daemon = "off" /\ given \in BOOLEAN /\ quiet \in BOOLEAN
        BY DEF Init
    <2> QED
        BY <1>1, <1>2, <1>3, <1>4, <2>1, <2>2, <2>3, <2>4, <2>5 DEF TypeOK
  <1>6. Order
      BY MaxCommandsIsNat DEF Init, Order, Command
  <1> QED
      BY <1>5, <1>6 DEF Base

LEMMA BeginBase ==
    ASSUME Base, NEW wasmDir \in BOOLEAN, Begin(wasmDir)
    PROVE  Base'
  <1> DEFINE p == begun + 1
  <1> USE DEF Base
  <1>1. p \in Command /\ begun' = p /\ begun' \in 0..MaxCommands
      BY MaxCommandsIsNat DEF Begin, TypeOK, Command
  <1>2. CommandDir(wasmDir) \in Dir
      BY DEF CommandDir, Dir
  <1>3. /\ dir' \in [Command -> Dir] /\ zip' \in [Command -> BOOLEAN]
        /\ made' \subseteq Dir
      BY <1>1, <1>2 DEF Begin, TypeOK
  <1>4. \/ pc' = [pc EXCEPT ![p] = "fetching"]
        \/ pc' = [pc EXCEPT ![p] = "failed"]
      BY DEF Begin
  <1>5. pc' \in [Command -> {"none", "fetching", "unpacking", "writing", "ok", "failed"}]
      BY <1>1, <1>4 DEF TypeOK
  <1>6. \A q \in Command : pc'[q] = "writing" => pc[q] = "writing"
      BY <1>1, <1>4 DEF TypeOK
  <1>7. met' \in [Command -> BOOLEAN]
      BY DEF Begin, TypeOK
  <1>8. TypeOK'
      BY <1>1, <1>3, <1>5, <1>6, <1>7 DEF Begin, TypeOK
  <1>9. /\ begun \in Nat /\ Command \subseteq Nat
         /\ pc \in [Command -> {"none", "fetching", "unpacking", "writing", "ok", "failed"}]
      BY MaxCommandsIsNat DEF TypeOK, Command
  <1>10. \A q \in Command : /\ pc[q] = "none" <=> q > begun
                            /\ pc[q] \in {"none", "fetching"} => plan[q] = <<>>
      BY DEF Order
  <1>11. Order'
    <2>1. \A q \in Command : pc'[q] = "none" <=> q > begun'
        BY <1>1, <1>4, <1>9, <1>10
    <2>2. \A q \in Command : pc'[q] \in {"none", "fetching"} => plan'[q] = <<>>
        BY <1>1, <1>4, <1>9, <1>10 DEF Begin
    <2> QED
        BY <2>1, <2>2 DEF Order
  <1> QED
      BY <1>8, <1>11

\* What a step of q leaves of the other commands, and does to the files.
Kept(q) == \A p \in Command \ {q} :
    pc'[p] = pc[p] /\ plan'[p] = plan[p] /\ at'[p] = at[p] /\ zip'[p] = zip[p]
Touches(q) == \A d \in Dir, n \in Name :
    files'[d][n] = files[d][n] \/ files'[d][n].by = q

LEMMA StemIsName ==
    ASSUME TypeOK, NEW p \in Command, at[p] < Len(plan[p])
    PROVE  /\ at[p] + 1 \in DOMAIN plan[p] /\ Stem(p) \in Name
           /\ plan[p] \in Seq(Entry)
  <1>1. plan[p] \in Seq(Entry)
      BY ArchivesHoldEntries DEF TypeOK
  <1>2. at[p] + 1 \in DOMAIN plan[p]
      BY <1>1 DEF TypeOK
  <1> QED
    <2>1. plan[p][at[p] + 1] \in Entry
        BY <1>1, <1>2
    <2> QED
        BY <1>1, <1>2, <2>1 DEF Stem, Entry

LEMMA SharedFile ==
    ASSUME NEW q \in Command, NEW g \in [by : {q}, whole : BOOLEAN, shared : {TRUE}]
    PROVE  g \in File /\ g.by = q
  <1>1. {q} \subseteq 0..MaxCommands /\ {TRUE} \subseteq BOOLEAN
      BY MaxCommandsIsNat DEF Command
  <1>2. g = [by |-> g.by, whole |-> g.whole, shared |-> g.shared]
      OBVIOUS
  <1>3. g.by \in {q} /\ g.whole \in BOOLEAN /\ g.shared \in {TRUE}
      OBVIOUS
  <1> QED
      BY <1>1, <1>2, <1>3 DEF File

LEMMA OpenBase ==
    ASSUME Base, NEW q \in Command, Open(q)
    PROVE  Base' /\ Kept(q) /\ Touches(q)
  <1> DEFINE f == [by |-> q, whole |-> FALSE, shared |-> Writers(dir[q], Stem(q)) # {}]
  <1> USE DEF Base
  <1>1. Stem(q) \in Name /\ dir[q] \in Dir
      BY StemIsName DEF Open, TypeOK
  <1>2. f \in File
      BY MaxCommandsIsNat DEF File, Command
  <1>3. files' = [files EXCEPT ![dir[q]][Stem(q)] = f]
      BY DEF Open
  <1>4. files' \in [Dir -> [Name -> File]] /\ Touches(q)
      BY <1>1, <1>2, <1>3 DEF TypeOK, Touches
  <1>5. pc' = [pc EXCEPT ![q] = "writing"] /\ pc[q] = "unpacking" /\ at[q] < Len(plan[q])
      BY DEF Open
  <1>6. TypeOK'
    <2>1. \A p \in Command : pc'[p] = "writing" => at[p] < Len(plan[p])
        BY <1>5 DEF TypeOK
    <2>2. pc' \in [Command -> {"none", "fetching", "unpacking", "writing", "ok", "failed"}]
        BY <1>5 DEF TypeOK
    <2> QED
        BY <1>4, <2>1, <2>2 DEF TypeOK, Open, service
  <1>7. Order' /\ Kept(q)
      BY <1>5 DEF Order, Kept, TypeOK, Open
  <1> QED
      BY <1>4, <1>6, <1>7

LEMMA WrittenBase ==
    ASSUME Base, NEW q \in Command, Written(q)
    PROVE  Base' /\ Kept(q) /\ Touches(q)
  <1> USE DEF Base
  <1>1. at[q] < Len(plan[q]) /\ Stem(q) \in Name /\ dir[q] \in Dir
      BY StemIsName DEF Written, TypeOK
  <1> DEFINE f == files[dir[q]][Stem(q)]
  <1>2. f \in File
      BY <1>1 DEF TypeOK
  <1>3. PICK g \in IF f.by = q /\ ~f.shared THEN {Of(q, TRUE)}
                   ELSE {f} \union [by : {q}, whole : BOOLEAN, shared : {TRUE}] :
            files' = [files EXCEPT ![dir[q]][Stem(q)] = g]
      BY DEF Written
  <1>4. g \in File /\ (g = f \/ g.by = q)
    <2>1. CASE g = Of(q, TRUE)
        BY <2>1, MaxCommandsIsNat DEF File, Command, Of
    <2>2. CASE g \in [by : {q}, whole : BOOLEAN, shared : {TRUE}]
        BY <2>2, SharedFile
    <2>3. g = Of(q, TRUE) \/ g = f \/ g \in [by : {q}, whole : BOOLEAN, shared : {TRUE}]
      <3> HIDE DEF f
      <3> QED
          BY <1>3
    <2>4. CASE g = f
        BY <1>2, <2>4
    <2> QED
        BY <2>1, <2>2, <2>3, <2>4
  <1>5. files' \in [Dir -> [Name -> File]] /\ Touches(q)
      BY <1>1, <1>3, <1>4 DEF TypeOK, Touches
  <1>6. /\ pc' = [pc EXCEPT ![q] = "unpacking"] /\ pc[q] = "writing"
        /\ at' = [at EXCEPT ![q] = @ + 1]
      BY DEF Written
  <1>7. TypeOK'
    <2>1. \A p \in Command : at'[p] \in 0..Len(plan[p]) /\ (pc'[p] = "writing" => at'[p] < Len(plan[p]))
        BY <1>1, <1>6 DEF TypeOK
    <2>2. /\ pc' \in [Command -> {"none", "fetching", "unpacking", "writing", "ok", "failed"}]
          /\ at' \in [Command -> Nat]
        BY <1>6 DEF TypeOK
    <2> QED
        BY <1>5, <2>1, <2>2 DEF TypeOK, Written, service
  <1>8. Order' /\ Kept(q)
      BY <1>6 DEF Order, Kept, TypeOK, Written
  <1> QED
      BY <1>5, <1>7, <1>8

LEMMA StepBase ==
    ASSUME Base, NEW q \in Command, Step(q)
    PROVE  Base' /\ Kept(q) /\ Touches(q) /\ q \in Active
  <1> USE DEF Base
  <1>1. CASE \E archive \in Archive, isZip \in BOOLEAN : Fetched(q, archive, isZip)
    <2> PICK archive \in Archive, isZip \in BOOLEAN : Fetched(q, archive, isZip)
        BY <1>1
    <2>1. /\ plan' = [plan EXCEPT ![q] = archive] /\ pc' = [pc EXCEPT ![q] = "unpacking"]
          /\ pc[q] = "fetching" /\ plan[q] = <<>> /\ at' = at
        BY DEF Fetched, Order
    <2>2. at[q] = 0 /\ archive \in Seq(Entry)
        BY <2>1, ArchivesHoldEntries DEF TypeOK
    <2>3. \A p \in Command : at'[p] \in 0..Len(plan'[p]) /\ (pc'[p] = "writing" => at'[p] < Len(plan'[p]))
        BY <2>1, <2>2 DEF TypeOK
    <2>4. plan' \in [Command -> Archive \union {<<>>}] /\ zip' \in [Command -> BOOLEAN]
        BY <2>1 DEF TypeOK, Fetched
    <2>5. TypeOK'
        BY <2>1, <2>3, <2>4 DEF TypeOK, Fetched, service
    <2>6. Order' /\ Kept(q) /\ Touches(q) /\ q \in Active
        BY <2>1 DEF Order, Kept, Touches, TypeOK, Fetched, Active
    <2> QED
        BY <2>5, <2>6
  <1>2. CASE Skip(q)
    <2>1. pc[q] = "unpacking" /\ at[q] < Len(plan[q]) /\ at' = [at EXCEPT ![q] = @ + 1]
        BY <1>2 DEF Skip
    <2>2. TypeOK'
        BY <1>2, <2>1 DEF TypeOK, Skip, service
    <2>3. Order' /\ Kept(q) /\ Touches(q) /\ q \in Active
        BY <1>2, <2>1 DEF Order, Kept, Touches, TypeOK, Skip, Active
    <2> QED
        BY <2>2, <2>3
  <1>3. CASE Open(q)
      BY <1>3, OpenBase DEF Active, Open
  <1>4. CASE Written(q)
      BY <1>4, WrittenBase DEF Active, Written
  <1>5. CASE End(q) \/ Fail(q)
    <2>1. \E e \in {"ok", "failed"} : pc' = [pc EXCEPT ![q] = e]
        BY <1>5 DEF End, Fail
    <2>2. q \in Active
        BY <1>5 DEF End, Fail, Active
    <2>3. TypeOK'
        BY <1>5, <2>1 DEF TypeOK, End, Fail, service
    <2>4. Order' /\ Kept(q) /\ Touches(q)
        BY <1>5, <2>1, <2>2 DEF Order, Kept, Touches, TypeOK, End, Fail, Active
    <2> QED
        BY <2>2, <2>3, <2>4
  <1> QED
      BY <1>1, <1>2, <1>3, <1>4, <1>5 DEF Step, FetchRelease, FetchBranch, Build

\* The steps of the daemon change nothing of the files and the commands.
LEMMA DaemonBase ==
    ASSUME Base,
           \/ \E wasmDir \in BOOLEAN : Start(wasmDir)
           \/ \E n \in Name : Load(n)
           \/ Stop
    PROVE  Base' /\ UNCHANGED <<files, commands>>
  <1> USE DEF Base
  <1>1. CASE \E wasmDir \in BOOLEAN : Start(wasmDir)
    <2>1. TypeOK'
        BY <1>1 DEF Start, TypeOK, commands
    <2> QED
        BY <1>1, <2>1 DEF Start, Order, commands
  <1>2. CASE \E n \in Name : Load(n)
    <2> PICK n \in Name : Load(n)
        BY <1>2
    <2>1. DaemonDir(given) \in Dir
        BY DEF DaemonDir, Dir
    <2>2. files[DaemonDir(given)][n] \in File
        BY <2>1 DEF TypeOK
    <2>3. PICK S \in SUBSET Name : modules \in [S -> File]
        BY DEF TypeOK
    <2>4. modules' \in [S \union {n} -> File]
        BY <2>2, <2>3 DEF Load, Read
    <2>5. modules' \in UNION {[T -> File] : T \in SUBSET Name}
        BY <2>4
    <2>6. /\ daemon' \in {"loading", "running"}
          /\ daemon' = "running" => DOMAIN modules' = Name
        BY DEF Load, Read
    <2>7. TypeOK'
        BY <2>5, <2>6 DEF TypeOK, Load, Read, commands
    <2> QED
        BY <2>7 DEF Load, Read, Order, commands
  <1>3. CASE Stop
    <2>1. modules' \in UNION {[T -> File] : T \in SUBSET Name} /\ DOMAIN modules' = {}
        BY <1>3, NoModules DEF Stop
    <2>2. TypeOK'
        BY <1>3, <2>1 DEF Stop, TypeOK, commands
    <2> QED
        BY <1>3, <2>2 DEF Stop, Order, commands
  <1> QED
      BY <1>1, <1>2, <1>3

LEMMA NextBase ==
    ASSUME Base, [Next]_vars
    PROVE  Base'
  <1>1. CASE UNCHANGED vars
      BY <1>1 DEF Base, TypeOK, Order, vars, commands, service
  <1> QED
      BY <1>1, BeginBase, StepBase, DaemonBase DEF Next

\* Every variable of Providers keeps its type, whatever the archives hold and
\* however many commands there are: a command never counts past its archive,
\* and a daemon that runs has read every module.
THEOREM TypeCorrect == Spec => []TypeOK
  <1>1. Spec => []Base
      BY InitBase, NextBase, PTL DEF Spec
  <1>2. Base => TypeOK
      BY DEF Base
  <1> QED
      BY <1>1, <1>2, PTL

-----------------------------------------------------------------------------
(* What commands leave behind.                                             *)

\* A command that runs makes every one that began later, or runs too, one
\* that met another.
Beside ==
    \A q \in Active : \A p \in 1..begun :
        p # q /\ (q < p \/ p \in Active) => met[p]

\* A file is nobody's or that of a command that was begun.
Authors == \A d \in Dir, n \in Name : files[d][n].by <= begun

\* In the middle of a file, the command has it for itself.
Alone(p) == pc[p] = "writing" => files[dir[p]][Stem(p)] = Of(p, FALSE)

\* The entries so far are there, but for the one that is written.
There(p, n) == LET f == files[dir[p]][n] IN f.by > p \/ (f.by = p /\ f.whole)
Placed(p) ==
    pc[p] \in {"unpacking", "writing", "ok"} =>
        \A i \in 1..at[p] : ~Skips(p, plan[p][i]) =>
            \/ There(p, plan[p][i].stem)
            \/ pc[p] = "writing" /\ plan[p][i].stem = Stem(p)

\* A command that ended well came to the end of its archive.
Complete(p) == pc[p] = "ok" => at[p] = Len(plan[p])

\* What is damaged is the file that is written, or the one it failed at.
IsTorn(p, d, n) == files[d][n].by = p /\ ~files[d][n].whole
Damage(p) ==
    /\ \A d \in Dir, n \in Name : IsTorn(p, d, n) =>
           pc[p] = "failed" \/ (pc[p] = "writing" /\ d = dir[p] /\ n = Stem(p))
    /\ \A d, e \in Dir, n, k \in Name :
           IsTorn(p, d, n) /\ IsTorn(p, e, k) => d = e /\ n = k

Good(p) == Complete(p) /\ (~met[p] => Alone(p) /\ Placed(p) /\ Damage(p))

Inv == Base /\ Beside /\ Authors /\ \A p \in 1..begun : Good(p)

LEMMA BegunAreCommands ==
    ASSUME Base
    PROVE  1..begun \subseteq Command /\ Command \subseteq Nat /\ begun \in Nat
           /\ \A p \in Active : p \in Command /\ p \in 1..begun
  <1>1. 1..begun \subseteq Command /\ Command \subseteq Nat /\ begun \in Nat
      BY MaxCommandsIsNat DEF Base, TypeOK, Command
  <1>2. \A p \in Active : p \in Command /\ pc[p] # "none"
      BY DEF Active
  <1>3. \A p \in Command : pc[p] # "none" => p \in 1..begun
      BY <1>1, MaxCommandsIsNat DEF Base, Order, Command
  <1> QED
      BY <1>1, <1>2, <1>3

LEMMA EntryIsNamed ==
    ASSUME Base, NEW p \in Command, NEW i \in 1..Len(plan[p])
    PROVE  plan[p][i] \in Entry /\ plan[p][i].stem \in Name /\ i \in DOMAIN plan[p]
  <1>1. plan[p] \in Seq(Entry)
      BY ArchivesHoldEntries DEF Base, TypeOK
  <1>2. plan[p][i] \in Entry
      BY <1>1
  <1> QED
      BY <1>1, <1>2 DEF Entry

\* With a command that runs, one that met no other is over and began earlier.
LEMMA Unmet ==
    ASSUME Inv, NEW q \in Active, NEW p \in 1..begun, p # q, ~met[p]
    PROVE  p < q /\ pc[p] \in {"ok", "failed"}
  <1>1. ~(q < p) /\ p \notin Active
      BY DEF Inv, Beside
  <1>2. p \in Command /\ q \in Command /\ p \in Nat /\ q \in Nat /\ ~(p > begun)
      BY BegunAreCommands DEF Inv
  <1>3. pc[p] \in {"fetching", "unpacking", "writing", "ok", "failed"}
      BY <1>2 DEF Inv, Base, TypeOK, Order
  <1> QED
      BY <1>1, <1>2, <1>3 DEF Active

LEMMA InitInv == Init => Inv
  <1> SUFFICES ASSUME Init PROVE Inv
      OBVIOUS
  <1>1. Base /\ begun = 0 /\ Active = {}
      BY InitBase DEF Init, Active
  <1>2. Authors
      BY <1>1 DEF Authors, Init, Of
  <1> QED
      BY <1>1, <1>2 DEF Inv, Beside

LEMMA BeginInv ==
    ASSUME Inv, NEW wasmDir \in BOOLEAN, Begin(wasmDir)
    PROVE  Inv'
  <1>0. begun + 1 \in Command /\ begun \in Nat
      BY BegunAreCommands, MaxCommandsIsNat DEF Inv, Begin, Command
  <1> PICK b \in Command : b = begun + 1
      BY <1>0
  <1>1. Base /\ Base' /\ begun' = b /\ b \in Command /\ begun \in Nat /\ b = begun + 1
      BY <1>0, BeginBase DEF Inv, Begin
  <1>2. \A p \in 1..begun : pc'[p] = pc[p] /\ dir'[p] = dir[p] /\ zip'[p] = zip[p] /\ p # b
      BY <1>1, BegunAreCommands DEF Begin, Base, TypeOK
  <1>3. files' = files /\ plan' = plan /\ at' = at
      BY DEF Begin
  <1>4. met' = [q \in Command |-> met[q] \/ q \in Active \/ (q = b /\ Active # {})]
      BY DEF Begin
  <1>5. pc'[b] \in {"fetching", "failed"}
      BY <1>1 DEF Begin, Base, TypeOK
  <1>6. Active' \subseteq Active \union {b}
      BY <1>1 DEF Begin, Active, Base, TypeOK
  <1>7. Beside'
    <2> SUFFICES ASSUME NEW q \in Active', NEW p \in 1..begun', p # q, q < p \/ p \in Active'
                 PROVE  met'[p]
        BY DEF Beside
    <2>1. p \in Command /\ (p = b \/ p \in 1..begun)
        BY <1>1, BegunAreCommands
    <2>2. CASE p = b
        BY <1>4, <1>6, <2>1, <2>2
    <2>3. CASE q = b
      <3>1. p \in 1..begun /\ ~(q < p)
          BY <1>1, <2>1, <2>3
      <3>2. p \in Active
          BY <1>6, <2>3, <3>1
      <3> QED
          BY <1>4, <2>1, <3>2
    <2>4. CASE p # b /\ q # b
      <3>1. q \in Active /\ p \in 1..begun /\ (q < p \/ p \in Active)
          BY <1>6, <2>1, <2>4
      <3>2. met[p]
          BY <3>1 DEF Inv, Beside
      <3> QED
          BY <1>4, <2>1, <3>2
    <2> QED
        BY <2>2, <2>3, <2>4
  <1>8. Authors'
    <2>1. \A d \in Dir, n \in Name : files[d][n].by \in Nat
        BY MaxCommandsIsNat DEF Inv, Base, TypeOK, File
    <2> QED
        BY <1>1, <1>3, <2>1 DEF Inv, Authors
  <1>9. ASSUME NEW p \in 1..begun PROVE Good(p)'
    <2>1. met'[p] \/ met'[p] = met[p]
        BY <1>1, <1>4, BegunAreCommands DEF Inv, Base, TypeOK
    <2>2. Stem(p)' = Stem(p) /\ \A i \in 1..at[p] : Skips(p, plan[p][i])' = Skips(p, plan[p][i])
        BY <1>2, <1>3 DEF Stem, Skips
    <2>3. Complete(p)' <=> Complete(p)
        BY <1>2, <1>3 DEF Complete
    <2>4. Alone(p) => Alone(p)'
        BY <1>2, <1>3, <2>2 DEF Alone
    <2>5. Placed(p) => Placed(p)'
        BY <1>2, <1>3, <2>2 DEF Placed, There
    <2>6. Damage(p) => Damage(p)'
        BY <1>2, <1>3, <2>2 DEF Damage, IsTorn
    <2> QED
        BY <2>1, <2>3, <2>4, <2>5, <2>6 DEF Inv, Good
  <1>10. Good(b)'
    <2>1. \A d \in Dir, n \in Name : ~IsTorn(b, d, n)'
        BY <1>1, <1>3, MaxCommandsIsNat DEF Inv, Authors, IsTorn, Base, TypeOK, File
    <2> QED
        BY <1>5, <2>1 DEF Good, Complete, Alone, Placed, Damage
  <1>11. \A p \in 1..begun' : Good(p)'
    <2>1. \A p \in 1..begun' : p \in 1..begun \/ p = b
        BY <1>1
    <2> QED
        BY <1>9, <1>10, <2>1
  <1> QED
      BY <1>1, <1>7, <1>8, <1>11 DEF Inv

\* A step of one command leaves the promises of the others as they are: they
\* met it, or are over.
LEMMA StepOthers ==
    ASSUME Inv, NEW q \in Command, Step(q), NEW p \in 1..begun, p # q
    PROVE  Good(p)'
  <1>1. Kept(q) /\ Touches(q) /\ q \in Active
      BY StepBase DEF Inv
  <1>2. UNCHANGED <<begun, dir, met>>
      BY DEF Step, FetchRelease, FetchBranch, Build, Fetched, Skip, Open, Written, End, Fail
  <1>3. p \in Command /\ pc'[p] = pc[p] /\ plan'[p] = plan[p] /\ at'[p] = at[p]
        /\ zip'[p] = zip[p]
      BY <1>1, BegunAreCommands DEF Kept, Inv
  <1>4. Complete(p)'
      BY <1>3 DEF Inv, Good, Complete
  <1>5. ASSUME ~met[p] PROVE Alone(p)' /\ Placed(p)' /\ Damage(p)'
    <2>1. p < q /\ pc[p] \in {"ok", "failed"}
        BY <1>1, <1>5, Unmet
    <2>2. Alone(p)'
        BY <1>3, <2>1 DEF Alone
    <2>3. Placed(p)'
      <3> SUFFICES ASSUME pc[p] = "ok", NEW i \in 1..at[p], ~Skips(p, plan[p][i])
                   PROVE  There(p, plan[p][i].stem)'
          BY <1>2, <1>3, <2>1 DEF Placed, Skips
      <3>1. There(p, plan[p][i].stem)
          BY <1>5 DEF Inv, Good, Placed
      <3>2. plan[p][i].stem \in Name /\ dir[p] \in Dir
        <4>1. i \in 1..Len(plan[p])
            BY <1>3 DEF Inv, Good, Complete
        <4> QED
            BY <1>3, <4>1, EntryIsNamed DEF Inv, Base, TypeOK
      <3>3. \/ files'[dir[p]][plan[p][i].stem] = files[dir[p]][plan[p][i].stem]
            \/ files'[dir[p]][plan[p][i].stem].by = q
          BY <1>1, <3>2 DEF Touches
      <3> QED
          BY <1>2, <1>3, <2>1, <3>1, <3>3 DEF There
    <2>4. Damage(p)'
      <3>1. \A d \in Dir, n \in Name : IsTorn(p, d, n)' => IsTorn(p, d, n)
          BY <1>1 DEF Touches, IsTorn
      <3>2. Damage(p)
          BY <1>5 DEF Inv, Good
      <3>3. pc'[p] = pc[p] /\ pc[p] # "writing"
          BY <1>3, <2>1
      <3> QED
          BY <3>1, <3>2, <3>3 DEF Damage
    <2> QED
        BY <2>2, <2>3, <2>4
  <1> QED
      BY <1>2, <1>4, <1>5 DEF Good

\* The steps that leave the files alone.
LEMMA QuietOwn ==
    ASSUME Inv, NEW q \in Active,
           \/ \E archive \in Archive, isZip \in BOOLEAN : Fetched(q, archive, isZip)
           \/ Skip(q) \/ End(q) \/ Fail(q)
    PROVE  Good(q)'
  <1>1. q \in Command /\ q \in 1..begun /\ Good(q)
      BY BegunAreCommands DEF Inv
  <1>2. UNCHANGED <<files, dir, met>>
      BY DEF Fetched, Skip, End, Fail, service
  <1>3. \A d \in Dir, n \in Name : IsTorn(q, d, n)' <=> IsTorn(q, d, n)
      BY <1>2 DEF IsTorn
  <1>4. CASE \E archive \in Archive, isZip \in BOOLEAN : Fetched(q, archive, isZip)
    <2>1. pc'[q] = "unpacking" /\ pc[q] = "fetching" /\ at'[q] = at[q] /\ at[q] = 0
        BY <1>1, <1>4 DEF Fetched, Inv, Base, TypeOK, Order
    <2>2. Placed(q)'
        BY <2>1 DEF Placed
    <2> QED
        BY <1>1, <1>2, <1>3, <2>1, <2>2 DEF Good, Complete, Alone, Damage
  <1>5. CASE Skip(q)
    <2>1. /\ pc'[q] = "unpacking" /\ pc[q] = "unpacking" /\ plan' = plan /\ zip' = zip
          /\ at'[q] = at[q] + 1 /\ Skips(q, plan[q][at[q] + 1]) /\ at[q] \in Nat
        BY <1>1, <1>5 DEF Skip, Inv, Base, TypeOK
    <2>2. ASSUME ~met[q] PROVE Placed(q)'
      <3> SUFFICES ASSUME NEW i \in 1..(at[q] + 1), ~Skips(q, plan[q][i])
                   PROVE  There(q, plan[q][i].stem)'
          BY <1>2, <2>1 DEF Placed, Skips
      <3>1. i \in 1..at[q]
          BY <2>1
      <3>2. There(q, plan[q][i].stem)
          BY <1>1, <2>1, <2>2, <3>1 DEF Good, Placed
      <3> QED
          BY <1>2, <2>1, <3>2 DEF There
    <2> QED
        BY <1>1, <1>2, <1>3, <2>1, <2>2 DEF Good, Complete, Alone, Damage
  <1>6. CASE End(q)
    <2>1. /\ pc'[q] = "ok" /\ pc[q] = "unpacking" /\ plan' = plan /\ at' = at /\ zip' = zip
          /\ at[q] = Len(plan[q])
        BY <1>1, <1>6 DEF End, Inv, Base, TypeOK
    <2>2. ASSUME ~met[q] PROVE Placed(q)'
        BY <1>1, <1>2, <2>1, <2>2 DEF Good, Placed, There, Skips
    <2> QED
        BY <1>1, <1>2, <1>3, <2>1, <2>2 DEF Good, Complete, Alone, Damage
  <1>7. CASE Fail(q)
    <2>1. pc'[q] = "failed"
        BY <1>1, <1>7 DEF Fail, Inv, Base, TypeOK
    <2> QED
        BY <1>1, <1>2, <1>3, <2>1 DEF Good, Complete, Alone, Placed, Damage
  <1> QED
      BY <1>4, <1>5, <1>6, <1>7

LEMMA OpenOwn ==
    ASSUME Inv, NEW q \in Active, Open(q)
    PROVE  Good(q)'
  <1>1. q \in Command /\ q \in 1..begun /\ Good(q)
      BY BegunAreCommands DEF Inv
  <1>2. /\ UNCHANGED <<dir, zip, met, plan, at>>
        /\ pc[q] = "unpacking" /\ pc'[q] = "writing" /\ Stem(q)' = Stem(q)
      BY <1>1 DEF Open, Inv, Base, TypeOK, Stem
  <1>3. Stem(q) \in Name /\ dir[q] \in Dir
      BY <1>1, StemIsName DEF Open, Inv, Base, TypeOK
  <1> DEFINE f == [by |-> q, whole |-> FALSE, shared |-> Writers(dir[q], Stem(q)) # {}]
  <1>4. files' = [files EXCEPT ![dir[q]][Stem(q)] = f]
      BY DEF Open
  <1>5. /\ files'[dir[q]][Stem(q)] = f
        /\ \A d \in Dir, n \in Name : <<d, n>> # <<dir[q], Stem(q)>> => files'[d][n] = files[d][n]
      BY <1>3, <1>4 DEF Inv, Base, TypeOK
  <1>6. ASSUME ~met[q] PROVE Alone(q)' /\ Placed(q)' /\ Damage(q)'
    <2>1. Writers(dir[q], Stem(q)) = {}
      <3> SUFFICES ASSUME NEW w \in Writers(dir[q], Stem(q)) PROVE FALSE
          OBVIOUS
      <3>1. w \in Active /\ w # q
          BY <1>2 DEF Writers
      <3> QED
          BY <1>1, <1>6, <3>1 DEF Inv, Beside
    <2>2. Alone(q)'
        BY <1>2, <1>5, <2>1 DEF Alone, Of
    <2>3. Placed(q)'
      <3> SUFFICES ASSUME NEW i \in 1..at[q], ~Skips(q, plan[q][i])
                   PROVE  There(q, plan[q][i].stem)' \/ plan[q][i].stem = Stem(q)
          BY <1>2 DEF Placed, Skips
      <3>1. There(q, plan[q][i].stem)
          BY <1>1, <1>2, <1>6 DEF Good, Placed
      <3>2. plan[q][i].stem \in Name
        <4>1. i \in 1..Len(plan[q])
            BY <1>1 DEF Inv, Base, TypeOK
        <4> QED
            BY <1>1, <4>1, EntryIsNamed DEF Inv
      <3> QED
          BY <1>2, <1>3, <1>5, <3>1, <3>2 DEF There
    <2>4. Damage(q)'
      <3>1. \A d \in Dir, n \in Name : ~IsTorn(q, d, n)
          BY <1>1, <1>2, <1>6 DEF Good, Damage
      <3>2. \A d \in Dir, n \in Name : IsTorn(q, d, n)' => d = dir[q] /\ n = Stem(q)
          BY <1>5, <3>1 DEF IsTorn
      <3> QED
          BY <1>2, <3>2 DEF Damage
    <2> QED
        BY <2>2, <2>3, <2>4
  <1> QED
      BY <1>2, <1>6 DEF Good, Complete

LEMMA WrittenOwn ==
    ASSUME Inv, NEW q \in Active, Written(q)
    PROVE  Good(q)'
  <1>1. q \in Command /\ q \in 1..begun /\ Good(q)
      BY BegunAreCommands DEF Inv
  <1>2. /\ UNCHANGED <<dir, zip, met, plan>>
        /\ pc[q] = "writing" /\ pc'[q] = "unpacking"
        /\ at'[q] = at[q] + 1 /\ at[q] \in Nat /\ at[q] < Len(plan[q])
      BY <1>1 DEF Written, Inv, Base, TypeOK
  <1>3. Stem(q) \in Name /\ dir[q] \in Dir
      BY <1>1, <1>2, StemIsName DEF Inv, Base, TypeOK
  <1>4. ASSUME ~met[q] PROVE Alone(q)' /\ Placed(q)' /\ Damage(q)'
    <2>1. files[dir[q]][Stem(q)] = Of(q, FALSE)
        BY <1>1, <1>2, <1>4 DEF Good, Alone
    <2>2. Of(q, FALSE).by = q /\ ~Of(q, FALSE).shared
        BY DEF Of
    <2>3. files' = [files EXCEPT ![dir[q]][Stem(q)] = Of(q, TRUE)]
        BY <2>1, <2>2 DEF Written
    <2>4. /\ files'[dir[q]][Stem(q)] = Of(q, TRUE)
          /\ \A d \in Dir, n \in Name : <<d, n>> # <<dir[q], Stem(q)>> => files'[d][n] = files[d][n]
        BY <1>3, <2>3 DEF Inv, Base, TypeOK
    <2>5. Of(q, TRUE).by = q /\ Of(q, TRUE).whole
        BY DEF Of
    <2>6. Alone(q)'
        BY <1>2 DEF Alone
    <2>7. Placed(q)'
      <3> SUFFICES ASSUME NEW i \in 1..(at[q] + 1), ~Skips(q, plan[q][i])
                   PROVE  There(q, plan[q][i].stem)'
          BY <1>2 DEF Placed, Skips
      <3>1. CASE plan[q][i].stem = Stem(q)
          BY <1>2, <2>4, <2>5, <3>1 DEF There
      <3>2. CASE plan[q][i].stem # Stem(q)
        <4>1. i \in 1..at[q]
            BY <1>2, <3>2 DEF Stem
        <4>2. There(q, plan[q][i].stem)
            BY <1>1, <1>2, <1>4, <3>2, <4>1 DEF Good, Placed
        <4>3. plan[q][i].stem \in Name
          <5>1. i \in 1..Len(plan[q])
              BY <1>1, <4>1 DEF Inv, Base, TypeOK
          <5> QED
              BY <1>1, <5>1, EntryIsNamed DEF Inv
        <4> QED
            BY <1>2, <1>3, <2>4, <3>2, <4>2, <4>3 DEF There
      <3> QED
          BY <3>1, <3>2
    <2>8. Damage(q)'
      <3>1. \A d \in Dir, n \in Name : IsTorn(q, d, n) => d = dir[q] /\ n = Stem(q)
          BY <1>1, <1>2, <1>4 DEF Good, Damage
      <3>2. ASSUME NEW d \in Dir, NEW n \in Name PROVE ~IsTorn(q, d, n)'
        <4>1. CASE d = dir[q] /\ n = Stem(q)
            BY <2>4, <2>5, <4>1 DEF IsTorn
        <4>2. CASE ~(d = dir[q] /\ n = Stem(q))
          <5>1. files'[d][n] = files[d][n] /\ ~IsTorn(q, d, n)
              BY <2>4, <3>1, <4>2
          <5> QED
              BY <5>1 DEF IsTorn
        <4> QED
            BY <4>1, <4>2
      <3> QED
          BY <3>2 DEF Damage
    <2> QED
        BY <2>6, <2>7, <2>8
  <1> QED
      BY <1>2, <1>4 DEF Good, Complete

LEMMA StepInv ==
    ASSUME Inv, NEW q \in Command, Step(q)
    PROVE  Inv'
  <1>1. Base' /\ Kept(q) /\ Touches(q) /\ q \in Active
      BY StepBase DEF Inv
  <1>2. UNCHANGED <<begun, dir, met>>
      BY DEF Step, FetchRelease, FetchBranch, Build, Fetched, Skip, Open, Written, End, Fail
  <1>3. Active' \subseteq Active
      BY <1>1 DEF Kept, Active
  <1>4. Beside'
      BY <1>2, <1>3 DEF Inv, Beside
  <1>5. Authors'
    <2>1. q \in 1..begun
        BY <1>1, BegunAreCommands DEF Inv
    <2>2. \A d \in Dir, n \in Name : files'[d][n].by = files[d][n].by \/ files'[d][n].by = q
        BY <1>1 DEF Touches
    <2> QED
        BY <1>2, <2>1, <2>2 DEF Inv, Authors
  <1>6. Good(q)'
      BY <1>1, QuietOwn, OpenOwn, WrittenOwn DEF Step, FetchRelease, FetchBranch, Build
  <1>7. \A p \in 1..begun' : Good(p)'
      BY <1>2, <1>6, StepOthers
  <1> QED
      BY <1>1, <1>4, <1>5, <1>7 DEF Inv

LEMMA NextInv ==
    ASSUME Inv, [Next]_vars
    PROVE  Inv'
  <1>1. ASSUME UNCHANGED <<files, commands>>, Base' PROVE Inv'
    <2>1. UNCHANGED <<files, begun, pc, dir, zip, plan, at, met>>
        BY <1>1 DEF commands
    <2>2. Beside' /\ Authors'
        BY <2>1 DEF Inv, Beside, Active, Authors
    <2>3. ASSUME NEW p \in 1..begun PROVE Good(p)'
      <3>1. Complete(p)' = Complete(p) /\ Alone(p)' = Alone(p)
          BY <2>1 DEF Complete, Alone, Stem
      <3>2. Placed(p)' = Placed(p)
          BY <2>1 DEF Placed, There, Skips, Stem
      <3>3. Damage(p)' = Damage(p)
          BY <2>1 DEF Damage, IsTorn, Stem
      <3> QED
          BY <2>1, <3>1, <3>2, <3>3 DEF Inv, Good
    <2> QED
        BY <1>1, <2>1, <2>2, <2>3 DEF Inv
  <1>2. CASE UNCHANGED vars
      BY <1>1, <1>2, NextBase DEF Inv, vars
  <1> QED
      BY <1>1, <1>2, BeginInv, StepInv, DaemonBase DEF Inv, Next

LEMMA SpecInv == Spec => []Inv
  <1> QED
      BY InitInv, NextInv, PTL DEF Spec

LEMMA Settled ==
    ASSUME Inv
    PROVE  PullSettles
  <1> SUFFICES ASSUME NEW p \in Command, pc[p] = "ok", ~met[p], NEW n \in Brought(p)
               PROVE  There(p, n)
      BY DEF PullSettles, There
  <1>1. p \in 1..begun
      BY MaxCommandsIsNat DEF Inv, Base, Order, TypeOK, Command
  <1>2. Good(p) /\ at[p] = Len(plan[p])
      BY <1>1 DEF Inv, Good, Complete
  <1>3. plan[p] \in Seq(Entry)
    <2>1. plan[p] \in Archive \union {<<>>}
        BY DEF Inv, Base, TypeOK
    <2>2. <<>> \in Seq(Entry)
        OBVIOUS
    <2> QED
        BY <2>1, <2>2, ArchivesHoldEntries
  <1>4. PICK i \in 1..at[p] : n = plan[p][i].stem /\ ~Skips(p, plan[p][i])
      BY <1>2, <1>3 DEF Brought, ToSet
  <1> QED
      BY <1>2, <1>4 DEF Good, Placed

\* A command that ends well and met no other repairs what the ones before it
\* left, wherever they failed.
THEOREM PullRepairs == Spec => []PullSettles
  <1> QED
      BY Settled, SpecInv, PTL

\* A command that fails or is killed damages one file at most, however many it
\* was to write.
THEOREM OneFileDamaged == Spec => []DamageIsBounded
  <1>1. ASSUME Inv PROVE DamageIsBounded
    <2> SUFFICES ASSUME NEW p \in 1..begun, ~met[p]
                 PROVE  Cardinality(Torn(p)) <= IF pc[p] \in {"writing", "failed"} THEN 1 ELSE 0
        BY DEF DamageIsBounded
    <2>1. Damage(p)
        BY <1>1 DEF Inv, Good
    <2>2. \A x \in Torn(p) : x \in Dir \X Name /\ IsTorn(p, x[1], x[2])
        BY DEF Torn, IsTorn
    <2>3. CASE Torn(p) = {}
        BY <2>3, FS_EmptySet
    <2>4. CASE Torn(p) # {}
      <3>1. PICK x : x \in Torn(p)
          BY <2>4
      <3>2. \A y \in Torn(p) : y = x
        <4> TAKE y \in Torn(p)
        <4>1. x[1] = y[1] /\ x[2] = y[2]
            BY <2>1, <2>2, <3>1 DEF Damage
        <4> QED
            BY <2>2, <3>1, <4>1
      <3>3. Torn(p) = {x} /\ Cardinality({x}) = 1
          BY <3>1, <3>2, FS_Singleton
      <3>4. pc[p] \in {"writing", "failed"}
          BY <2>1, <2>2, <3>1 DEF Damage
      <3> QED
          BY <3>3, <3>4
    <2> QED
        BY <2>3, <2>4
  <1> QED
      BY <1>1, SpecInv, PTL

\* While no command ran since the daemon began to read, none runs, and what it
\* has read is what is there.
Undisturbed ==
    quiet => /\ Active = {}
             /\ \A n \in DOMAIN modules : modules[n] = files[DaemonDir(given)][n]

LEMMA UndisturbedNext ==
    ASSUME Inv, Undisturbed, [Next]_vars
    PROVE  Undisturbed'
  <1>1. CASE \E wasmDir \in BOOLEAN : Begin(wasmDir)
      BY <1>1 DEF Begin, Undisturbed
  <1>2. ASSUME NEW q \in Command, Step(q) PROVE Undisturbed'
    <2>1. q \in Active /\ quiet' = quiet
        BY <1>2, StepBase DEF Inv, Step, FetchRelease, FetchBranch, Build, Fetched, Skip, Open, Written, End, Fail, service
    <2> QED
        BY <2>1 DEF Undisturbed
  <1>3. CASE \E wasmDir \in BOOLEAN : Start(wasmDir)
    <2>1. DOMAIN modules = {} /\ modules' = modules /\ Active' = Active /\ (quiet' => Active = {})
        BY <1>3 DEF Start, Inv, Base, TypeOK, Active, commands
    <2> QED
        BY <2>1 DEF Undisturbed
  <1>4. ASSUME NEW n \in Name, Load(n) PROVE Undisturbed'
    <2>1. /\ UNCHANGED <<files, made, given, quiet, pc>>
          /\ modules' = [k \in DOMAIN modules \union {n} |->
                           IF k = n THEN files[DaemonDir(given)][n] ELSE modules[k]]
        BY <1>4 DEF Load, Read, commands
    <2>2. DaemonDir(given)' = DaemonDir(given) /\ Active' = Active
        BY <2>1 DEF DaemonDir, Active
    <2> QED
        BY <2>1, <2>2 DEF Undisturbed
  <1>5. CASE Stop
    <2>1. DOMAIN modules' = {} /\ Active' = Active /\ quiet' = quiet
        BY <1>5 DEF Stop, Active, commands
    <2> QED
        BY <2>1 DEF Undisturbed
  <1>6. CASE UNCHANGED vars
    <2>1. UNCHANGED <<files, made, given, quiet, pc, modules>>
        BY <1>6 DEF vars, commands, service
    <2> QED
        BY <2>1 DEF Undisturbed, Active, DaemonDir
  <1> QED
      BY <1>1, <1>2, <1>3, <1>4, <1>5, <1>6 DEF Next

\* A daemon that is started after a command ended well, with the directory of
\* that command, runs what the command brought.
THEOREM PulledIsLoaded == Spec => []LoadedIsPulled
  <1>1. ASSUME Inv, Undisturbed PROVE LoadedIsPulled
    <2> SUFFICES ASSUME NEW p \in {begun} \ {0}, daemon = "running", quiet, pc[p] = "ok",
                        ~met[p], dir[p] = CommandDir(given), given \/ "local" \notin made,
                        NEW n \in Brought(p)
                 PROVE  modules[n].by = p /\ modules[n].whole
        BY DEF LoadedIsPulled
    <2>1. p \in Command /\ p \in 1..begun /\ p = begun
        BY <1>1, BegunAreCommands DEF Inv
    <2>2. There(p, n) /\ n \in Name
      <3>1. There(p, n)
          BY <1>1, <2>1, Settled DEF PullSettles, There
      <3>2. plan[p] \in Archive \union {<<>>}
          BY <1>1, <2>1 DEF Inv, Base, TypeOK
      <3>3. <<>> \in Seq(Entry)
          OBVIOUS
      <3>4. plan[p] \in Seq(Entry)
          BY <3>2, <3>3, ArchivesHoldEntries
      <3>5. PICK e \in ToSet(plan[p]) : n = e.stem
          BY DEF Brought
      <3>6. e \in Entry
          BY <3>4, <3>5 DEF ToSet
      <3> QED
          BY <3>1, <3>5, <3>6 DEF Entry
    <2>3. DaemonDir(given) = dir[p] /\ dir[p] \in Dir
      <3>1. CASE given
          BY <3>1 DEF DaemonDir, CommandDir, Dir
      <3>2. CASE ~given /\ "local" \notin made
          BY <3>2 DEF DaemonDir, CommandDir, Dir
      <3> QED
          BY <3>1, <3>2
    <2>4. modules[n] = files[dir[p]][n]
        BY <1>1, <2>2, <2>3 DEF Undisturbed, Inv, Base, TypeOK
    <2>5. files[dir[p]][n].by <= p /\ files[dir[p]][n].by \in Nat /\ p \in Nat
        BY <1>1, <2>1, <2>2, <2>3, MaxCommandsIsNat DEF Inv, Authors, Base, TypeOK, File, Command
    <2> QED
        BY <2>2, <2>4, <2>5 DEF There
  <1>2. Init => Undisturbed
      BY DEF Init, Undisturbed
  <1>3. Spec => []Undisturbed
      BY <1>2, SpecInv, UndisturbedNext, PTL DEF Spec
  <1> QED
      BY <1>1, <1>3, SpecInv, PTL
=============================================================================
