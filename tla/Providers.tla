----------------------------- MODULE Providers -----------------------------
(***************************************************************************)
(* The directories of WebAssembly modules: the commands that fill them     *)
(* (`fpd pull` and `fpd build-providers`, tasks/provider_manager.rs) and   *)
(* the daemon that reads one of them when it starts (main.rs and           *)
(* ProxyService::init).  Commands and daemon are processes of their own    *)
(* with no lock between them, and a command may fail or be killed between  *)
(* any two steps.                                                          *)
(*                                                                         *)
(* A command writes one file after the other, each in place: from the      *)
(* moment it opens a file what was there is gone.                          *)
(***************************************************************************)
EXTENDS Naturals, FiniteSets, Sequences, SequencesExt

CONSTANTS
    Name,          \* file stems, which are the types of the providers
    Archive,       \* what a release, an artifact or a build may hold
    MaxCommands    \* bound: how many commands are started

Entry == [stem : Name, wasm : BOOLEAN]
ASSUME ArchivesHoldEntries == Archive \subseteq Seq(Entry)
ASSUME MaxCommandsIsNat == MaxCommands \in Nat

VARIABLES
    files,     \* the directories
    made,      \* the ones that exist
    begun,     \* commands 1..begun were started, in this order
    pc, dir,   \* of each command, and whether it unpacks a zip
    zip,
    plan, at,  \* its archive and how many entries it is done with
    met,       \* another command ran beside it
    daemon,
    given,     \* the daemon was started with --wasm-dir
    modules,   \* wasm_modules, as far as they are read
    quiet      \* no command ran since the daemon began to read

commands == <<begun, pc, dir, zip, plan, at, met>>
service  == <<daemon, given, modules, quiet>>
vars     == <<files, made, commands, service>>

Command == 1..MaxCommands
Dir     == {"given", "local", "canonical"}

\* A file by command `by` (0: by nobody here).  shared: two commands had it
\* open at a time, each at an offset of its own.
File    == [by : 0..MaxCommands, whole : BOOLEAN, shared : BOOLEAN]
Of(p, there) == [by |-> p, whole |-> there, shared |-> FALSE]
Absent  == Of(0, FALSE)

Active == {p \in Command : pc[p] \in {"fetching", "unpacking", "writing"}}

TypeOK ==
    /\ files \in [Dir -> [Name -> File]]
    /\ made \subseteq Dir
    /\ begun \in 0..MaxCommands
    /\ pc \in [Command -> {"none", "fetching", "unpacking", "writing", "ok", "failed"}]
    /\ dir \in [Command -> Dir] /\ zip \in [Command -> BOOLEAN]
    /\ plan \in [Command -> Archive \union {<<>>}]
    /\ at \in [Command -> Nat]
    /\ \A p \in Command : at[p] \in 0..Len(plan[p]) /\ (pc[p] = "writing" => at[p] < Len(plan[p]))
    /\ met \in [Command -> BOOLEAN]
    /\ daemon \in {"off", "loading", "running"}
    /\ given \in BOOLEAN /\ quiet \in BOOLEAN
    /\ modules \in UNION {[S -> File] : S \in SUBSET Name}
    /\ daemon = "off" => DOMAIN modules = {}
    /\ daemon = "running" => DOMAIN modules = Name

\* ./providers is there or not, before and after.
Init ==
    /\ made \in {{}, {"local"}}
    /\ files = [d \in Dir |-> [n \in Name |-> Of(0, d \in made)]]
    /\ begun = 0 /\ pc = [p \in Command |-> "none"]
    /\ dir = [p \in Command |-> "canonical"] /\ zip = [p \in Command |-> FALSE]
    /\ plan = [p \in Command |-> <<>>] /\ at = [p \in Command |-> 0]
    /\ met = [p \in Command |-> FALSE]
    /\ daemon = "off" /\ given = FALSE /\ quiet = FALSE
    /\ modules = [n \in {} |-> Absent]

-----------------------------------------------------------------------------
(* Where the modules are.  The commands do not look for ./providers.       *)

CommandDir(wasmDir) == IF wasmDir THEN "given" ELSE "canonical"

\* Mutant: ./providers comes before --wasm-dir.
DaemonDirLocalFirst(wasmDir) ==
    IF "local" \in made THEN "local" ELSE IF wasmDir THEN "given" ELSE "canonical"

DaemonDir(wasmDir) ==
    IF wasmDir THEN "given" ELSE IF "local" \in made THEN "local" ELSE "canonical"

-----------------------------------------------------------------------------
(* A command.                                                              *)

Stem(p) == plan[p][at[p] + 1].stem

\* Tarballs and builds are searched for .wasm; of a zip every entry is taken.
Skips(p, e) == ~zip[p] /\ ~e.wasm
Brought(p)  == {e.stem : e \in {f \in ToSet(plan[p]) : ~Skips(p, f)}}
Writers(d, n) == {p \in Active : pc[p] = "writing" /\ dir[p] = d /\ Stem(p) = n}

Begin(wasmDir) ==
    /\ begun < MaxCommands
    /\ LET p == begun + 1 IN
         /\ begun' = p
         /\ dir' = [dir EXCEPT ![p] = CommandDir(wasmDir)]
         /\ \/ pc' = [pc EXCEPT ![p] = "fetching"] /\ made' = made \union {CommandDir(wasmDir)}
            \/ pc' = [pc EXCEPT ![p] = "failed"] /\ UNCHANGED made
         /\ met' = [q \in Command |-> met[q] \/ q \in Active \/ (q = p /\ Active # {})]
    /\ quiet' = FALSE
    /\ UNCHANGED <<files, zip, plan, at, daemon, given, modules>>

\* The download is complete, or the build, before the first file is touched.
Fetched(p, archive, isZip) ==
    /\ pc[p] = "fetching"
    /\ plan' = [plan EXCEPT ![p] = archive] /\ zip' = [zip EXCEPT ![p] = isZip]
    /\ pc' = [pc EXCEPT ![p] = "unpacking"]
    /\ UNCHANGED <<files, made, begun, dir, at, met, service>>

\* The tarball of a release, the zip of a branch's artifacts, or a build.
FetchRelease(p) == \E archive \in Archive : Fetched(p, archive, FALSE)
FetchBranch(p)  == \E archive \in Archive : Fetched(p, archive, TRUE)
Build(p)        == \E archive \in Archive : Fetched(p, archive, FALSE)

Skip(p) ==
    /\ pc[p] = "unpacking" /\ at[p] < Len(plan[p]) /\ Skips(p, plan[p][at[p] + 1])
    /\ at' = [at EXCEPT ![p] = @ + 1]
    /\ UNCHANGED <<files, made, begun, pc, dir, zip, plan, met, service>>

\* Mutant: a file that is there is taken for the one to be written.
OpenAbsent(p) ==
    /\ pc[p] = "unpacking" /\ at[p] < Len(plan[p]) /\ ~Skips(p, plan[p][at[p] + 1])
    /\ IF files[dir[p]][Stem(p)] = Absent
         THEN /\ files' = [files EXCEPT ![dir[p]][Stem(p)] = Of(p, FALSE)]
              /\ pc' = [pc EXCEPT ![p] = "writing"] /\ UNCHANGED at
         ELSE at' = [at EXCEPT ![p] = @ + 1] /\ UNCHANGED <<files, pc>>
    /\ UNCHANGED <<made, begun, dir, zip, plan, met, service>>

\* A tarball's file is removed and made anew, the others' are truncated: either
\* way the old one is gone.
Open(p) ==
    /\ pc[p] = "unpacking" /\ at[p] < Len(plan[p]) /\ ~Skips(p, plan[p][at[p] + 1])
    /\ files' = [files EXCEPT ![dir[p]][Stem(p)] =
                   [by |-> p, whole |-> FALSE, shared |-> Writers(dir[p], Stem(p)) # {}]]
    /\ pc' = [pc EXCEPT ![p] = "writing"]
    /\ UNCHANGED <<made, begun, dir, zip, plan, at, met, service>>

\* A file that two commands had open may be the one's, the other's or neither's.
Written(p) ==
    /\ pc[p] = "writing"
    /\ LET f == files[dir[p]][Stem(p)] IN
       \E g \in IF f.by = p /\ ~f.shared THEN {Of(p, TRUE)}
                ELSE {f} \union [by : {p}, whole : BOOLEAN, shared : {TRUE}] :
         files' = [files EXCEPT ![dir[p]][Stem(p)] = g]
    /\ at' = [at EXCEPT ![p] = @ + 1] /\ pc' = [pc EXCEPT ![p] = "unpacking"]
    /\ UNCHANGED <<made, begun, dir, zip, plan, met, service>>

End(p) ==
    /\ pc[p] = "unpacking" /\ at[p] = Len(plan[p])
    /\ pc' = [pc EXCEPT ![p] = "ok"]
    /\ UNCHANGED <<files, made, begun, dir, zip, plan, at, met, service>>

\* Mutant: an entry that cannot be written is passed over.
FailGoesOn(p) ==
    /\ p \in Active
    /\ IF pc[p] = "writing"
         THEN at' = [at EXCEPT ![p] = @ + 1] /\ pc' = [pc EXCEPT ![p] = "unpacking"]
         ELSE pc' = [pc EXCEPT ![p] = "failed"] /\ UNCHANGED at
    /\ UNCHANGED <<files, made, begun, dir, zip, plan, met, service>>

\* Any `?` on the way, as at 204-221, or a signal: nothing is taken back.
Fail(p) ==
    /\ p \in Active
    /\ pc' = [pc EXCEPT ![p] = "failed"]
    /\ UNCHANGED <<files, made, begun, dir, zip, plan, at, met, service>>

-----------------------------------------------------------------------------
(* The daemon: it bails out without its directory, and reads the modules   *)
(* of all types concurrently before it connects.                           *)

Start(wasmDir) ==
    /\ daemon = "off" /\ DaemonDir(wasmDir) \in made
    /\ daemon' = "loading" /\ given' = wasmDir /\ quiet' = (Active = {})
    /\ UNCHANGED <<files, made, commands, modules>>

Read(n) ==
    /\ daemon = "loading" /\ n \notin DOMAIN modules
    /\ modules' = [k \in DOMAIN modules \union {n} |->
                     IF k = n THEN files[DaemonDir(given)][n] ELSE modules[k]]
    /\ UNCHANGED <<files, made, commands, given, quiet>>

\* Mutant: the first module is waited for, not all of them.
LoadOne(n) == Read(n) /\ daemon' = "running"

\* An absent module is an error, a torn one an error or worse.
Load(n) == Read(n) /\ daemon' = IF DOMAIN modules' = Name THEN "running" ELSE daemon

Stop ==
    /\ daemon # "off"
    /\ daemon' = "off" /\ modules' = [n \in {} |-> Absent]
    /\ UNCHANGED <<files, made, commands, given, quiet>>

-----------------------------------------------------------------------------
Step(p) ==
    \/ FetchRelease(p) \/ FetchBranch(p) \/ Build(p)
    \/ Skip(p) \/ Open(p) \/ Written(p) \/ End(p) \/ Fail(p)

Next ==
    \/ \E wasmDir \in BOOLEAN : Begin(wasmDir)
    \/ \E p \in Command : Step(p)
    \/ \E wasmDir \in BOOLEAN : Start(wasmDir)
    \/ \E n \in Name : Load(n)
    \/ Stop

Spec == Init /\ [][Next]_vars

-----------------------------------------------------------------------------
\* A command that ended well, with no other beside it, has put right whatever
\* the ones before it left: everything it brought is there and complete,
\* unless a later command took its place (pull, build_providers).
PullSettles ==
    \A p \in Command : pc[p] = "ok" /\ ~met[p] =>
        \A n \in Brought(p) :
            LET f == files[dir[p]][n] IN f.by > p \/ (f.by = p /\ f.whole)

\* A command that failed, or was killed, damaged one file at most, however
\* many it was to write; one that ended well damaged none.
Torn(p) ==
    {x \in Dir \X Name : LET f == files[x[1]][x[2]] IN f.by = p /\ ~f.whole}
DamageIsBounded ==
    \A p \in 1..begun : ~met[p] =>
        Cardinality(Torn(p)) <= IF pc[p] \in {"writing", "failed"} THEN 1 ELSE 0

\* A daemon that is started with the directory of the last command, after it
\* ended well, runs all that it brought; without --wasm-dir that is so where
\* there is no ./providers ("fpd pull" and then "fpd", README.md:58,69).
LoadedIsPulled ==
    \A p \in {begun} \ {0} :
        daemon = "running" /\ quiet /\ pc[p] = "ok" /\ ~met[p]
        /\ dir[p] = CommandDir(given) /\ (given \/ "local" \notin made)
            => \A n \in Brought(p) : modules[n].by = p /\ modules[n].whole
=============================================================================
