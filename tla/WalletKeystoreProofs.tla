------------------------ MODULE WalletKeystoreProofs ------------------------
(***************************************************************************)
(* The wallet for any number of terminals, names, passphrases and crashes: *)
(* its type correctness, and the four promises of WalletKeystore.  Each    *)
(* promise holds unless `hurt' names the crash or the overlap that breaks  *)
(* it, so each has an inductive invariant of its own, which assumes only   *)
(* that its excuses have not happened; all of them rest on Shape.          *)
(***************************************************************************)
EXTENDS WalletKeystore, TLAPS

-----------------------------------------------------------------------------
(* The inductive invariants *)

\* The steps of the passphrase prompt, of a write of the root record, and of
\* writeInfo.
Asking == {"unlock", "hashCreate", "hashWrite", "hashLost"}
WritingRoot == {"rootTruncate", "rootWrite"}
WritingInfo == {"infoTruncate", "infoWrite", "addrTruncate", "addrWrite"}

\* What a process may hold.
Job == [pc : PC, cmd : Commands \cup {None}, name : Name \cup {None},
        root : Root \cup {None}, mnemonic : Mnemonic \cup {None},
        index : 0 .. MaxIndex, password : Pass \cup {None}, newPwd : Pass \cup {None}]

\* Where a command may be, and which of its fields are set by then.
Shape(j) ==
    \/ j = Idle
    \/ /\ j.cmd \in {"init", "recover"} /\ j.pc \in Asking \cup WritingRoot \cup {"confirm", "removeAll"}
       /\ j.mnemonic \in Mnemonic /\ j.root = None
       /\ j.pc # "unlock" => j.password \in Pass
    \/ /\ j.cmd = "update" /\ j.pc \in Asking \cup WritingRoot \cup {"hashRemove"}
       /\ j.newPwd \in Pass
       /\ j.pc # "unlock" => j.password \in Pass
       /\ j.mnemonic \in Mnemonic => j.password = j.newPwd /\ j.pc # "unlock"
       /\ j.mnemonic = None => j.pc \in Asking /\ j.root \in Root
    \/ /\ j.cmd = "create" /\ j.pc \in Asking \cup WritingRoot \cup {"exists"} \cup WritingInfo
       /\ j.name \in Name /\ j.root \in Root /\ j.root.index < MaxIndex
       /\ j.pc # "unlock" => j.password \in Pass
       /\ j.pc \notin Asking => j.mnemonic = j.root.mnemonic /\ j.index = j.root.index + 1
    \/ /\ j.cmd = "export" /\ j.pc \in Asking /\ j.root \in Root
       /\ j.mnemonic \in Mnemonic
       /\ j.pc # "unlock" => j.password \in Pass

\* init and recover run alone, and only one command has the keyhash open.
Alone ==
    /\ \A p, q \in Process :
         p # q /\ job[p] # Idle /\ job[p].cmd \in {"init", "recover"} => job[q] = Idle
    /\ \A p \in Process : job[p].pc = "hashWrite" => disk.keyhash = Torn
    /\ \A p, q \in Process : job[p].pc = "hashWrite" /\ job[q].pc = "hashWrite" => p = q

\* The invariant every other one rests on.
ShapeInv == WalletTypeOK /\ Alone /\ \A p \in Process : Shape(job[p])

\* While no race has happened, the commands between writeInfo's check and its
\* last write have their name and their key for themselves.
Claimed(p) ==
    LET n == job[p].name  k == DerivedKey(p)
    IN  /\ job[p].pc = "infoTruncate" => disk.info[n] = Absent /\ disk.addr[k] = Absent
        /\ job[p].pc = "infoWrite" => disk.info[n] = Torn /\ disk.addr[k] = Absent
        /\ job[p].pc = "addrTruncate" => disk.info[n] = k /\ disk.addr[k] = Absent
        /\ job[p].pc = "addrWrite" => disk.info[n] = k /\ disk.addr[k] = Torn

\* Two commands that write neither the same name nor the same address.
Disjoint(p, q) == job[p].name # job[q].name /\ DerivedKey(p) # DerivedKey(q)

\* The invariant of AddressesLead.
IndexInv ==
    {"removal", "race"} \cap hurt = {} =>
      /\ \A p \in Process : job[p].pc \in WritingInfo => Claimed(p)
      /\ \A p, q \in Process :
           p # q /\ job[p].pc \in WritingInfo /\ job[q].pc \in WritingInfo => Disjoint(p, q)
      /\ Removing \/ \A k \in Key : Readable(disk.addr[k]) => disk.info[disk.addr[k]] = k

\* The passphrase: update runs alone; a command that has been let in was let in
\* by the keyhash that is still there; update's steps from the root record to
\* the keyhash are the one place where the two may differ.
Rehashing(j) == j.cmd = "update" /\ j.pc \in {"hashRemove", "hashCreate", "hashWrite"}

\* What a running command knows about the keyhash.
Keyed(j) ==
    /\ j.cmd \in {"create", "export"} => j.pc \notin Asking \ {"unlock"} /\ j.root.pass = disk.keyhash
    /\ j.cmd = "update" /\ j.mnemonic = None => j.pc = "unlock" /\ j.root.pass = disk.keyhash
    /\ j.cmd \in {"init", "recover"} /\ j.pc \in WritingRoot \cup {"confirm"} =>
         j.password = disk.keyhash
    /\ j.cmd \in {"create"} /\ j.pc \in WritingRoot => j.password = disk.keyhash
    /\ j.cmd = "update" /\ j.pc \in WritingRoot \cup {"hashRemove"} => disk.keyhash # Absent
    /\ Rehashing(j) => (Readable(disk.root) => disk.root.pass = j.password)
    /\ j.cmd = "update" /\ j.pc = "hashCreate" => disk.keyhash = Absent
    /\ j.pc # "hashLost"

\* The invariant of PassphraseAlwaysOpens.
PassInv ==
    {"passphrase", "removal"} \cap hurt = {} =>
      /\ \A p, q \in Process : p # q /\ job[p] # Idle /\ job[p].cmd = "update" => job[q] = Idle
      /\ \A p \in Process : job[p] # Idle => Keyed(job[p])
      /\ \/ Removing
         \/ \E p \in Process : job[p] # Idle /\ Rehashing(job[p])
         \/ Readable(disk.root) => disk.keyhash = disk.root.pass

\* The mnemonic: as long as no root record is lost, the root record, the running
\* commands and all the keys have the same one.
Family(m) ==
    /\ Readable(disk.root) => disk.root.mnemonic = m
    /\ \A n \in Name : Readable(disk.info[n]) => disk.info[n].mnemonic = m
    /\ \A p \in Process :
         /\ job[p].root \in Root => job[p].root.mnemonic = m
         /\ job[p].mnemonic # None => job[p].mnemonic = m

\* A wallet without keys, in which nothing but an init or a recover runs.
Bare ==
    /\ \A n \in Name : ~Readable(disk.info[n])
    /\ \A p \in Process : job[p] = Idle \/ job[p].cmd \in {"init", "recover"}

\* The invariant of ExportsMatch.
FamilyInv ==
    "root" \notin hurt =>
      /\ \E m \in Mnemonic \cup {None} : Family(m)
      /\ \/ Readable(disk.root)
         \/ \E p \in Process : job[p].pc = "rootWrite"
         \/ Bare
      /\ \A p \in Process :
           job[p] # Idle /\ job[p].cmd \in {"init", "recover"} =>
             \A n \in Name : ~Readable(disk.info[n])

\* The keys, when every address entry is there: each is found by its address.
ListedInv ==
    {"address", "removal", "race"} \cap hurt = {} =>
      \/ Removing
      \/ \A n \in Name :
           Readable(disk.info[n]) =>
             \/ disk.addr[disk.info[n]] # Absent
             \/ \E p \in Process : /\ job[p].pc = "addrTruncate" /\ job[p].name = n
                                   /\ DerivedKey(p) = disk.info[n]

\* The keys, when the index is never lost: each was the last one when it was made.
Below(i) == \A n \in Name : Readable(disk.info[n]) => disk.info[n].index < i
\* No key has an index above i.
UpTo(i) == \A n \in Name : Readable(disk.info[n]) => disk.info[n].index <= i

\* What a running command knows about the indices in use.
Counting(j) ==
    /\ j.cmd = "create" \/ (j.cmd = "update" /\ j.mnemonic = None) =>
         (j.pc \in Asking \cup {"rootTruncate"} => Readable(disk.root) /\ disk.root = j.root)
    /\ j.cmd = "create" /\ j.pc = "rootWrite" => Below(j.index)
    /\ j.cmd = "create" /\ j.pc \in {"exists", "infoTruncate", "infoWrite"} =>
         Below(j.index) /\ Readable(disk.root) /\ disk.root.index = j.index
    /\ j.cmd = "update" /\ j.pc \in WritingRoot => UpTo(j.index)

\* No two names have the same key.
UniqueInfo ==
    \A m, n \in Name : Readable(disk.info[m]) /\ disk.info[m] = disk.info[n] => m = n

\* The invariant of KeysOnce when no address entry can be relied on.
OrderInv ==
    {"root", "index"} \cap hurt = {} =>
      /\ \A p, q \in Process : p # q /\ job[p] # Idle /\ job[q] # Idle =>
           "export" \in {job[p].cmd, job[q].cmd}
      /\ \A p \in Process : job[p] # Idle => Counting(job[p])
      /\ Readable(disk.root) => UpTo(disk.root.index)
      /\ UniqueInfo

-----------------------------------------------------------------------------
(* Types *)

\* An idle process has the shape of a job.
LEMMA IdleJob == Idle \in Job /\ Shape(Idle) /\ Idle.pc = "idle"
<1>1. 0 \in 0 .. MaxIndex
  BY WalletAssumption
<1> QED BY <1>1 DEF Idle, Job, PC, Commands, Shape

\* Only the job of the process that takes a step changes.
LEMMA BecomeJob ==
    ASSUME NEW p \in Process, NEW j, job \in [Process -> Job], Become(p, j)
    PROVE  /\ job'[p] = j
           /\ \A q \in Process : q # p => job'[q] = job[q]
           /\ j \in Job => job' \in [Process -> Job]
BY DEF Become

\* WalletTypeOK, taken apart.
Disk == [root : File(Root), keyhash : File(Pass), info : [Name -> File(Key)],
         addr : [Key -> File(Name)]]

\* WalletTypeOK of the other variables.
Rest ==
    /\ drawn \subseteq WellFormed
    /\ exported \in [of : Key, is : Key] \cup {None}
    /\ hurt \subseteq {"root", "passphrase", "address", "removal", "index", "race"}
    /\ faults \in 0 .. MaxFaults

\* The parts are WalletTypeOK.
LEMMA TypeIs == WalletTypeOK <=> disk \in Disk /\ job \in [Process -> Job] /\ Rest
BY DEF WalletTypeOK, Disk, Job, Rest

\* The passphrase x was accepted, and the command of p goes on as j.
Accepted(p, x, j) ==
    /\ j.pc = "rootTruncate" /\ j.cmd = job[p].cmd /\ j.root = job[p].root
    /\ j.cmd # "update" => j.password = x
    /\ j.cmd \in {"init", "recover"} => j.mnemonic = job[p].mnemonic
    /\ j.cmd \notin {"init", "recover"} => j.root.pass = x /\ j.mnemonic = j.root.mnemonic
    /\ j.cmd = "update" => j.index = j.root.index

\* An accepted passphrase: the command goes on, or stops.
LEMMA UnlockedShape ==
    ASSUME NEW p \in Process, NEW x \in Pass, job \in [Process -> Job], Shape(job[p]),
           job[p].pc \in Asking, Unlocked(p, x),
           job[p].cmd = "update" => job[p].mnemonic = None
    PROVE  \E j \in Job : Become(p, j) /\ Shape(j) /\ (j = Idle \/ Accepted(p, x, j))
<1>1. job[p] \in Job /\ job[p] # Idle
  BY IdleJob DEF Asking
<1>2. CASE job[p].cmd \in {"init", "recover"}
  <2> DEFINE j == [job[p] EXCEPT !.password = x, !.pc = "rootTruncate"]
  <2>1. j \in Job /\ Shape(j) /\ Accepted(p, x, j)
    BY <1>1, <1>2 DEF Job, Shape, PC, Asking, WritingRoot, Accepted
  <2>2. Become(p, j)
    BY <1>2 DEF Unlocked
  <2> QED BY <2>1, <2>2
<1>3. CASE job[p].cmd \notin {"init", "recover"} /\ (job[p].root.pass # x \/ job[p].cmd = "export")
  <2>1. Become(p, Idle)
    BY <1>1, <1>3 DEF Unlocked
  <2> QED BY <2>1, IdleJob
<1>4. CASE job[p].cmd = "create" /\ job[p].root.pass = x
  <2> DEFINE j == [job[p] EXCEPT !.password = x, !.pc = "rootTruncate",
                                 !.mnemonic = job[p].root.mnemonic, !.index = job[p].root.index + 1]
  <2>1. job[p].root \in Root /\ job[p].root.index < MaxIndex /\ job[p].name \in Name
    BY <1>1, <1>4 DEF Shape
  <2>2. job[p].root.index + 1 \in 0 .. MaxIndex /\ job[p].root.mnemonic \in Mnemonic
    BY <2>1, WalletAssumption DEF Root
  <2>3. j \in Job /\ Accepted(p, x, j)
    BY <1>1, <1>4, <2>1, <2>2 DEF Job, PC, Accepted
  <2>4. Shape(j)
    BY <1>1, <1>4, <2>1, <2>2 DEF Job, Shape, WritingRoot, Asking
  <2>5. Become(p, j)
    BY <1>4 DEF Unlocked
  <2> QED BY <2>3, <2>4, <2>5
<1>5. CASE job[p].cmd = "update" /\ job[p].root.pass = x
  <2> DEFINE j == [job[p] EXCEPT !.password = job[p].newPwd, !.pc = "rootTruncate",
                                 !.mnemonic = job[p].root.mnemonic, !.index = job[p].root.index]
  <2>1. job[p].root \in Root /\ job[p].newPwd \in Pass
    BY <1>1, <1>5 DEF Shape
  <2>2. j \in Job /\ Shape(j) /\ Accepted(p, x, j)
    BY <1>1, <1>5, <2>1, WalletAssumption DEF Job, Shape, PC, Asking, WritingRoot, Root, Accepted
  <2>3. Become(p, j)
    BY <1>5 DEF Unlocked
  <2> QED BY <2>2, <2>3
<1> QED BY <1>1, <1>2, <1>3, <1>4, <1>5 DEF Shape

\* A process that goes on with its command, or ends it, keeps ShapeInv.
LEMMA ShapeKept ==
    ASSUME ShapeInv, NEW p \in Process, NEW j \in Job, Become(p, j), Shape(j),
           disk' \in Disk, Rest',
           j = Idle \/ (job[p] # Idle /\ j.cmd = job[p].cmd),
           \A q \in Process : q # p /\ job[q].pc = "hashWrite" => disk'.keyhash = Torn,
           j.pc = "hashWrite" =>
             disk'.keyhash = Torn /\ \A q \in Process : q # p => job[q].pc # "hashWrite"
    PROVE  ShapeInv'
<1>1. /\ job'[p] = j /\ job' \in [Process -> Job]
      /\ \A q \in Process : q # p => job'[q] = job[q]
  BY BecomeJob, TypeIs DEF ShapeInv
<1>2. WalletTypeOK'
  BY <1>1, TypeIs DEF WalletTypeOK, Disk, Job, Rest
<1>3. \A q \in Process : Shape(job'[q])
  BY <1>1 DEF ShapeInv
<1>4. \A q, r \in Process :
        q # r /\ job'[q] # Idle /\ job'[q].cmd \in {"init", "recover"} => job'[r] = Idle
  BY <1>1 DEF ShapeInv, Alone
<1>5. \A q \in Process : job'[q].pc = "hashWrite" => disk'.keyhash = Torn
  BY <1>1
<1>6. \A q, r \in Process : job'[q].pc = "hashWrite" /\ job'[r].pc = "hashWrite" => q = r
  BY <1>1 DEF ShapeInv, Alone
<1> QED BY <1>2, <1>3, <1>4, <1>5, <1>6 DEF ShapeInv, Alone

\* An empty directory and no running command.
LEMMA ShapeInit == WalletInit => ShapeInv
<1> SUFFICES ASSUME WalletInit PROVE ShapeInv
  OBVIOUS
<1>1. disk \in Disk
  BY DEF WalletInit, NoFiles, Disk, File
<1>2. job \in [Process -> Job] /\ \A p \in Process : job[p] = Idle
  BY IdleJob DEF WalletInit
<1>3. Rest
  BY WalletAssumption DEF WalletInit, Rest
<1> QED BY <1>1, <1>2, <1>3, TypeIs, IdleJob DEF ShapeInv, Alone

\* A command that starts.
LEMMA ShapeBegins ==
    ASSUME ShapeInv, NEW p \in Process, NEW j \in Job, Begin(p, j), Shape(j), disk' = disk,
           drawn' \subseteq WellFormed, j.pc # "hashWrite", j.cmd \in Commands
    PROVE  ShapeInv'
<1>0. job[p] = Idle /\ Become(p, j) /\ exported' = None
  BY DEF Begin
<1>1. /\ job'[p] = j /\ job' \in [Process -> Job]
      /\ \A q \in Process : q # p => job'[q] = job[q]
  BY <1>0, BecomeJob, TypeIs DEF ShapeInv
<1>2. Rest'
  <2>1. faults' \in 0 .. MaxFaults
    BY TypeIs, WalletAssumption DEF Begin, ShapeInv, Rest
  <2>2. hurt' \subseteq {"root", "passphrase", "address", "removal", "index", "race"}
    BY TypeIs DEF Begin, ShapeInv, Rest
  <2> QED BY <1>0, <2>1, <2>2 DEF Rest
<1>3. WalletTypeOK'
  BY <1>1, <1>2, TypeIs DEF WalletTypeOK, Disk, Job, Rest, ShapeInv
<1>4. \A q \in Process : q # p /\ job[q] # Idle => {j.cmd, job[q].cmd} \cap {"init", "recover"} = {}
  BY DEF Begin
<1>5. \A q, r \in Process :
        q # r /\ job'[q] # Idle /\ job'[q].cmd \in {"init", "recover"} => job'[r] = Idle
  BY <1>0, <1>1, <1>4 DEF ShapeInv, Alone
<1>6. \A q \in Process : Shape(job'[q]) /\ (job'[q].pc = "hashWrite" => disk'.keyhash = Torn)
  BY <1>0, <1>1 DEF ShapeInv, Alone
<1>7. \A q, r \in Process : job'[q].pc = "hashWrite" /\ job'[r].pc = "hashWrite" => q = r
  BY <1>1 DEF ShapeInv, Alone
<1> QED BY <1>3, <1>5, <1>6, <1>7 DEF ShapeInv, Alone

\* The job a command starts as, and what it has read by then.
Fresh(j) ==
    \/ /\ ~HasInit /\ j.cmd \in {"init", "recover"} /\ j.pc = "unlock"
       /\ j.mnemonic \in Mnemonic /\ j.index = 0 /\ j.root = None
    \/ /\ HasInit /\ j.cmd = "update" /\ j.pc = "rootTruncate"
       /\ j.mnemonic = disk.root.mnemonic /\ j.index = disk.root.index /\ j.root = None
    \/ /\ HasInit /\ j.cmd \in {"update", "create"} /\ j.pc = "unlock"
       /\ j.root = disk.root /\ j.mnemonic = None
    \/ /\ HasInit /\ j.cmd = "export" /\ j.pc = "unlock" /\ j.root = disk.root
       /\ j.name \in Name /\ Has(j.name)
       /\ j.mnemonic = disk.info[j.name].mnemonic /\ j.index = disk.info[j.name].index

\* A new command leaves the directory alone and starts at the prompt.
LEMMA CommandJob ==
    ASSUME ShapeInv, NEW p \in Process, Command(p)
    PROVE  /\ disk' = disk /\ drawn' \subseteq WellFormed
           /\ \E j \in Job : Begin(p, j) /\ Shape(j) /\ Fresh(j)
<1>0. disk \in Disk /\ drawn \subseteq WellFormed
  BY TypeIs DEF ShapeInv, Rest
<1> DEFINE Goal == /\ disk' = disk /\ drawn' \subseteq WellFormed
                   /\ \E j \in Job : Begin(p, j) /\ Shape(j) /\ Fresh(j)
<1>1. ASSUME NEW m \in Mnemonic, Create(p, m) \/ Recover(p, m)
      PROVE  Goal
  <2> DEFINE j(c) == [Idle EXCEPT !.pc = "unlock", !.cmd = c, !.mnemonic = m]
  <2>1. \A c \in {"init", "recover"} : j(c) \in Job /\ Shape(j(c))
    BY IdleJob DEF Idle, Job, Shape, PC, Commands, Asking
  <2>2. \A c \in {"init", "recover"} : Fresh(j(c))
    BY <1>1 DEF Create, Recover, Idle, Fresh
  <2>3. \E c \in {"init", "recover"} : Begin(p, j(c))
    BY <1>1 DEF Create, Recover
  <2>4. disk' = disk /\ drawn' \subseteq WellFormed
    BY <1>0, <1>1 DEF Create, Recover
  <2> HIDE DEF j
  <2> QED BY <2>1, <2>2, <2>3, <2>4
<1>2. ASSUME NEW byMnemonic \in BOOLEAN, NEW newPwd \in Pass, UpdateRoot(p, byMnemonic, newPwd)
      PROVE  Goal
  <2>1. HasInit /\ disk.root \in Root
    BY <1>0, <1>2 DEF UpdateRoot, HasInit, Readable, Disk, File
  <2> DEFINE j1 == [Idle EXCEPT !.pc = "rootTruncate", !.cmd = "update",
                                !.mnemonic = disk.root.mnemonic, !.index = disk.root.index,
                                !.password = newPwd, !.newPwd = newPwd]
             j2 == [Idle EXCEPT !.pc = "unlock", !.cmd = "update", !.root = disk.root,
                                !.newPwd = newPwd]
  <2>2. j1 \in Job /\ Shape(j1) /\ Fresh(j1)
    BY <2>1, IdleJob, WalletAssumption
    DEF Idle, Job, Shape, PC, Commands, Asking, WritingRoot, Root, Fresh
  <2>3. j2 \in Job /\ Shape(j2) /\ Fresh(j2)
    BY <2>1, IdleJob, WalletAssumption DEF Idle, Job, Shape, PC, Commands, Asking, Root, Fresh
  <2>4. Begin(p, j1) \/ Begin(p, j2)
    BY <1>2 DEF UpdateRoot
  <2>5. disk' = disk /\ drawn' \subseteq WellFormed
    BY <1>0, <1>2 DEF UpdateRoot
  <2> HIDE DEF j1, j2
  <2> QED BY <2>2, <2>3, <2>4, <2>5
<1>3. ASSUME NEW name \in Name, NewKey(p, name)
      PROVE  Goal
  <2>1. HasInit /\ disk.root \in Root /\ disk.root.index < MaxIndex
    BY <1>0, <1>3 DEF NewKey, HasInit, Readable, Disk, File
  <2> DEFINE j == [Idle EXCEPT !.pc = "unlock", !.cmd = "create", !.name = name, !.root = disk.root]
  <2>2. j \in Job /\ Shape(j) /\ Fresh(j)
    BY <2>1, IdleJob DEF Idle, Job, Shape, PC, Commands, Asking, Fresh
  <2>3. Begin(p, j) /\ disk' = disk /\ drawn' \subseteq WellFormed
    BY <1>0, <1>3 DEF NewKey
  <2> HIDE DEF j
  <2> QED BY <2>2, <2>3
<1>4. ASSUME NEW name \in Name, Export(p, name)
      PROVE  Goal
  <2>1. HasInit /\ Has(name) /\ disk.root \in Root /\ disk.info[name] \in Key
    BY <1>0, <1>4 DEF Export, HasInit, Has, Readable, Disk, File
  <2> DEFINE j == [Idle EXCEPT !.pc = "unlock", !.cmd = "export", !.name = name, !.root = disk.root,
                               !.mnemonic = disk.info[name].mnemonic,
                               !.index = disk.info[name].index]
  <2>2. j \in Job /\ Shape(j) /\ Fresh(j)
    BY <2>1, IdleJob DEF Idle, Job, Shape, PC, Commands, Asking, Key, Fresh
  <2>3. Begin(p, j) /\ disk' = disk /\ drawn' \subseteq WellFormed
    BY <1>0, <1>4 DEF Export
  <2> HIDE DEF j
  <2> QED BY <2>2, <2>3
<1> QED BY <1>1, <1>2, <1>3, <1>4 DEF Command

\* A new command keeps ShapeInv.
LEMMA CommandShape ==
    ASSUME ShapeInv, NEW p \in Process, Command(p)
    PROVE  ShapeInv'
<1>1. PICK j \in Job : Begin(p, j) /\ Shape(j) /\ Fresh(j)
  BY CommandJob
<1>2. j.pc # "hashWrite" /\ j.cmd \in Commands
  BY <1>1 DEF Fresh, Commands
<1> QED BY <1>1, <1>2, CommandJob, ShapeBegins

\* What Export writes are keys.
LEMMA ExportedType ==
    ASSUME ShapeInv, NEW p \in Process, NEW x, job[p].pc \in Asking,
           Exported(p, x) \/ UNCHANGED exported
    PROVE  exported' \in [of : Key, is : Key] \cup {None}
<1>0. job[p] \in Job /\ Shape(job[p]) /\ job[p] # Idle /\ exported \in [of : Key, is : Key] \cup {None}
  BY TypeIs, IdleJob DEF ShapeInv, Rest, Asking
<1>1. job[p].cmd = "export" => job[p].root \in Root /\ job[p].mnemonic \in Mnemonic
  BY <1>0 DEF Shape
<1>2. job[p].index \in 0 .. MaxIndex
  BY <1>0 DEF Job
<1> QED BY <1>0, <1>1, <1>2 DEF Exported, Root, Key, DerivedKey

\* A step that only moves the process on, or stops it.
LEMMA ShapeMoves ==
    ASSUME ShapeInv, NEW p \in Process, NEW j \in Job, Become(p, j), Shape(j),
           disk' = disk, drawn' = drawn, hurt' = hurt, faults' = faults,
           exported' \in [of : Key, is : Key] \cup {None},
           j = Idle \/ (job[p] # Idle /\ j.cmd = job[p].cmd /\ j.pc # "hashWrite")
    PROVE  ShapeInv'
<1>1. disk' \in Disk /\ Rest'
  BY TypeIs DEF ShapeInv, Rest
<1>2. j.pc # "hashWrite"
  BY IdleJob
<1> QED BY <1>1, <1>2, ShapeKept DEF ShapeInv, Alone

\* The prompt and the writes of the keyhash keep ShapeInv.
LEMMA PromptShape ==
    ASSUME ShapeInv, NEW p \in Process,
           Unlock(p) \/ (\E x \in Pass : ChoosePassphrase(p, x)) \/ CreateKeyhash(p) \/ WriteKeyhash(p)
    PROVE  ShapeInv'
<1>0. /\ disk \in Disk /\ job \in [Process -> Job] /\ Rest
      /\ job[p] \in Job /\ Shape(job[p])
  BY TypeIs DEF ShapeInv
<1>1. CASE Unlock(p)
  <2>1. job[p].pc \in Asking /\ job[p].pc = "unlock" /\ job[p] # Idle
    BY <1>1, IdleJob DEF Unlock, Asking
  <2>2. exported' \in [of : Key, is : Key] \cup {None}
    BY <1>1, <2>1, ExportedType DEF Unlock
  <2>3. CASE Become(p, Idle)
    BY <1>1, <2>2, <2>3, IdleJob, ShapeMoves DEF Unlock
  <2>4. CASE disk.keyhash # Torn /\ Unlocked(p, disk.keyhash)
    <3>1. disk.keyhash \in Pass
      BY <1>0, <1>1, <2>4 DEF Unlock, Disk, File
    <3>2. job[p].cmd = "update" => job[p].mnemonic = None
      BY <1>0, <2>1 DEF Shape, Job
    <3>3. PICK j \in Job : /\ Become(p, j)
                           /\ Shape(j)
                           /\ j = Idle \/ (j.pc = "rootTruncate" /\ j.cmd = job[p].cmd)
      BY <1>0, <2>1, <2>4, <3>1, <3>2, UnlockedShape DEF Accepted
    <3> QED BY <1>1, <2>1, <2>2, <3>3, ShapeMoves DEF Unlock
  <2> QED BY <1>1, <2>3, <2>4 DEF Unlock
<1>2. ASSUME NEW x \in Pass, ChoosePassphrase(p, x)
      PROVE  ShapeInv'
  <2> DEFINE j == [job[p] EXCEPT !.pc = "hashCreate", !.password = x]
  <2>1. job[p].pc = "unlock" /\ job[p] # Idle /\ Become(p, j)
    BY <1>2, IdleJob DEF ChoosePassphrase
  <2>2. j \in Job /\ j.cmd = job[p].cmd /\ j.pc = "hashCreate"
    BY <1>0 DEF Job, PC
  <2>3. Shape(j)
    BY <1>0, <2>1 DEF Job, Shape, Asking
  <2>4. exported' \in [of : Key, is : Key] \cup {None}
    BY <1>0, <1>2 DEF ChoosePassphrase, Rest
  <2> HIDE DEF j
  <2> QED BY <1>2, <2>1, <2>2, <2>3, <2>4, ShapeMoves DEF ChoosePassphrase
<1>3. CASE CreateKeyhash(p)
  <2>0. exported' \in [of : Key, is : Key] \cup {None}
    BY <1>0, <1>3 DEF CreateKeyhash, Rest
  <2>1. CASE disk.keyhash # Absent
    BY <1>3, <2>0, <2>1, IdleJob, ShapeMoves DEF CreateKeyhash
  <2>2. CASE disk.keyhash = Absent
    <3> DEFINE j == [job[p] EXCEPT !.pc = "hashWrite"]
    <3>1. job[p].pc = "hashCreate" /\ job[p] # Idle /\ Become(p, j)
      BY <1>3, <2>2, IdleJob DEF CreateKeyhash
    <3>2. j \in Job /\ j.cmd = job[p].cmd /\ Shape(j)
      BY <1>0, <3>1 DEF Job, PC, Shape, Asking, WritingRoot, WritingInfo
    <3>3. disk' \in Disk /\ disk'.keyhash = Torn
      BY <1>0, <1>3, <2>2 DEF CreateKeyhash, Disk, File
    <3>4. \A q \in Process : job[q].pc # "hashWrite"
      BY <2>2, WalletAssumption DEF ShapeInv, Alone
    <3>5. Rest'
      BY <1>0, <1>3 DEF CreateKeyhash, Rest
    <3> HIDE DEF j
    <3> QED BY <3>1, <3>2, <3>3, <3>4, <3>5, ShapeKept
  <2> QED BY <2>1, <2>2
<1>4. CASE WriteKeyhash(p)
  <2>1. job[p].pc \in Asking /\ job[p].pc \in {"hashWrite", "hashLost"} /\ job[p] # Idle
    BY <1>4, IdleJob DEF WriteKeyhash, Asking
  <2>2. exported' \in [of : Key, is : Key] \cup {None}
    BY <1>4, <2>1, ExportedType DEF WriteKeyhash
  <2>3. job[p].password \in Pass
    BY <1>0, <2>1 DEF Shape
  <2>4. \E j \in Job : /\ Become(p, j)
                       /\ Shape(j)
                       /\ j = Idle \/ (j.pc = "rootTruncate" /\ j.cmd = job[p].cmd)
    BY <1>0, <1>4, <2>1, <2>3, IdleJob, UnlockedShape DEF WriteKeyhash, Accepted
  <2>5. PICK j \in Job : /\ Become(p, j)
                         /\ Shape(j)
                         /\ j = Idle \/ (j.pc = "rootTruncate" /\ j.cmd = job[p].cmd)
    BY <2>4
  <2>6. Rest'
    BY <1>0, <1>4, <2>2 DEF WriteKeyhash, Rest
  <2>7. disk' \in Disk
    BY <1>0, <1>4, <2>3 DEF WriteKeyhash, Disk, File
  <2>8. \A q \in Process : q # p /\ job[q].pc = "hashWrite" => disk'.keyhash = Torn
    <3>1. CASE job[p].pc = "hashWrite"
      BY <3>1 DEF ShapeInv, Alone
    <3>2. CASE job[p].pc = "hashLost"
      BY <1>4, <3>2 DEF WriteKeyhash, ShapeInv, Alone
    <3> QED BY <2>1, <3>1, <3>2
  <2>9. j.pc # "hashWrite"
    BY <2>5, IdleJob
  <2> QED BY <2>1, <2>5, <2>6, <2>7, <2>8, <2>9, ShapeKept
<1> QED BY <1>1, <1>2, <1>3, <1>4

\* The writes of the root record and the confirmation keep ShapeInv.
LEMMA RootShape ==
    ASSUME ShapeInv, NEW p \in Process,
           TruncateRoot(p) \/ WriteRoot(p) \/ \E ok \in BOOLEAN : confirmMnemonic(p, ok)
    PROVE  ShapeInv'
<1>0. /\ disk \in Disk /\ job \in [Process -> Job] /\ Rest
      /\ job[p] \in Job /\ Shape(job[p])
  BY TypeIs DEF ShapeInv
<1>1. CASE TruncateRoot(p)
  <2> DEFINE j == [job[p] EXCEPT !.pc = "rootWrite"]
  <2>1. job[p].pc = "rootTruncate" /\ job[p] # Idle /\ Become(p, j)
    BY <1>1, IdleJob DEF TruncateRoot
  <2>2. j \in Job /\ j.cmd = job[p].cmd /\ Shape(j) /\ j.pc # "hashWrite"
    BY <1>0, <2>1 DEF Job, PC, Shape, Asking, WritingRoot, WritingInfo
  <2>3. disk' \in Disk /\ disk'.keyhash = disk.keyhash /\ Rest'
    BY <1>0, <1>1 DEF TruncateRoot, Disk, File, Rest
  <2> HIDE DEF j
  <2> QED BY <2>1, <2>2, <2>3, ShapeKept DEF ShapeInv, Alone
<1>2. CASE WriteRoot(p)
  <2> DEFINE j == AfterRoot(p)
  <2>1. job[p].pc = "rootWrite" /\ job[p] # Idle /\ Become(p, j)
    BY <1>2, IdleJob DEF WriteRoot
  <2>2. j \in Job /\ j.pc # "hashWrite" /\ (j = Idle \/ j.cmd = job[p].cmd)
    BY <1>0, IdleJob DEF Job, PC, AfterRoot
  <2>3. Shape(j)
    BY <1>0, <2>1, IdleJob DEF Job, AfterRoot, Shape, Asking, WritingRoot, WritingInfo
  <2>4. job[p].password \in Pass /\ job[p].mnemonic \in Mnemonic /\ job[p].index \in 0 .. MaxIndex
    BY <1>0, <2>1 DEF Job, Shape, Asking, WritingInfo, Root
  <2>5. [pass |-> job[p].password, mnemonic |-> job[p].mnemonic, index |-> StoredIndex(p)] \in Root
    BY <2>4 DEF Root, StoredIndex
  <2>6. disk' \in Disk /\ disk'.keyhash = disk.keyhash
    BY <1>0, <1>2, <2>5 DEF WriteRoot, Overwritten, Disk, File
  <2>7. Rest'
    BY <1>0, <1>2 DEF WriteRoot, Rest
  <2> HIDE DEF j
  <2> QED BY <2>1, <2>2, <2>3, <2>6, <2>7, ShapeKept DEF ShapeInv, Alone
<1>3. ASSUME NEW ok \in BOOLEAN, confirmMnemonic(p, ok)
      PROVE  ShapeInv'
  <2> DEFINE j == [job[p] EXCEPT !.pc = "removeAll"]
  <2>1. job[p].pc = "confirm" /\ job[p] # Idle /\ (Become(p, j) \/ Become(p, Idle))
    BY <1>3, IdleJob DEF confirmMnemonic
  <2>2. j \in Job /\ j.cmd = job[p].cmd /\ Shape(j) /\ j.pc # "hashWrite"
    BY <1>0, <2>1 DEF Job, PC, Shape, Asking, WritingRoot, WritingInfo
  <2>3. exported' \in [of : Key, is : Key] \cup {None}
    BY <1>0, <1>3 DEF confirmMnemonic, Rest
  <2> HIDE DEF j
  <2> QED BY <1>3, <2>1, <2>2, <2>3, IdleJob, ShapeMoves DEF confirmMnemonic
<1> QED BY <1>1, <1>2, <1>3

\* RemoveAll and the removal of the keyhash keep ShapeInv.
LEMMA RemovalShape ==
    ASSUME ShapeInv, NEW p \in Process, RemoveAll(p) \/ RemoveKeyhash(p)
    PROVE  ShapeInv'
<1>0. /\ disk \in Disk /\ job \in [Process -> Job] /\ Rest /\ exported \in [of : Key, is : Key] \cup {None}
      /\ job[p] \in Job /\ Shape(job[p])
  BY TypeIs DEF ShapeInv, Rest
<1>1. CASE RemoveAll(p)
  <2>1. job[p].pc = "removeAll" /\ job[p] # Idle
    BY <1>1, IdleJob DEF RemoveAll
  <2>2. job[p].cmd \in {"init", "recover"}
    BY <1>0, <2>1 DEF Shape, Asking, WritingRoot, WritingInfo
  <2>3. \A q \in Process : q # p => job[q].pc # "hashWrite"
    BY <2>1, <2>2, IdleJob DEF ShapeInv, Alone
  <2>4. CASE Become(p, Idle) /\ UNCHANGED disk
    BY <1>0, <1>1, <2>4, IdleJob, ShapeMoves DEF RemoveAll
  <2>5. CASE UNCHANGED job
    <3>1. Become(p, job[p])
      BY <1>0, <2>5 DEF Become
    <3>2. disk' \in Disk /\ Rest'
      BY <1>0, <1>1, <2>5 DEF RemoveAll, Disk, File, Rest
    <3> QED BY <1>0, <2>1, <2>3, <3>1, <3>2, ShapeKept
  <2> QED BY <1>1, <2>4, <2>5 DEF RemoveAll
<1>2. CASE RemoveKeyhash(p)
  <2>1. job[p].pc = "hashRemove" /\ job[p] # Idle /\ Reset(p) /\ Rest'
    BY <1>0, <1>2, IdleJob DEF RemoveKeyhash, Rest
  <2>2. job[p].cmd = "update"
    BY <1>0, <2>1 DEF Shape, Asking, WritingRoot, WritingInfo
  <2>3. CASE disk.keyhash = Absent
    BY <1>0, <1>2, <2>1, <2>3, IdleJob, ShapeMoves DEF RemoveKeyhash, Reset
  <2>4. CASE disk.keyhash # Absent
    <3> DEFINE j(q) == IF q = p THEN [job[q] EXCEPT !.pc = "hashCreate"]
                       ELSE IF job[q].pc = "hashWrite" THEN [job[q] EXCEPT !.pc = "hashLost"]
                       ELSE job[q]
    <3>1. \A q \in Process : j(q) \in Job
      BY <1>0 DEF Job, PC
    <3>2. /\ job' \in [Process -> Job] /\ \A q \in Process : job'[q] = j(q)
          /\ disk' = [disk EXCEPT !.keyhash = Absent]
      BY <2>1, <2>4, <3>1 DEF Reset
    <3>3. WalletTypeOK'
      <4>1. disk' \in Disk
        BY <1>0, <3>2 DEF Disk, File
      <4> QED BY <2>1, <3>2, <4>1 DEF WalletTypeOK, Disk, Job, Rest
    <3>4. \A q \in Process : Shape(job'[q])
      <4> SUFFICES ASSUME NEW q \in Process PROVE Shape(j(q))
        BY <3>2
      <4>1. job[q] \in Job /\ Shape(job[q])
        BY <1>0 DEF ShapeInv
      <4>2. CASE q = p
        BY <1>0, <2>1, <2>2, <4>1, <4>2 DEF Shape, Job, Asking
      <4>3. CASE q # p /\ job[q].pc = "hashWrite"
        <5>1. job[q] # Idle
          BY <4>3, IdleJob
        <5> QED BY <4>1, <4>3, <5>1 DEF Shape, Job, Asking
      <4> QED BY <4>1, <4>2, <4>3
    <3>5. \A q \in Process : job'[q].pc # "hashWrite"
      BY <1>0, <3>2 DEF Job
    <3>6. \A q \in Process : job'[q].cmd = job[q].cmd /\ (job[q] = Idle => job'[q] = Idle)
      BY <1>0, <2>1, <3>2, IdleJob DEF Job
    <3>7. \A q, r \in Process :
            q # r /\ job'[q] # Idle /\ job'[q].cmd \in {"init", "recover"} => job'[r] = Idle
      BY <3>6 DEF ShapeInv, Alone
    <3> QED BY <3>3, <3>4, <3>5, <3>7 DEF ShapeInv, Alone
  <2> QED BY <2>3, <2>4
<1> QED BY <1>1, <1>2

\* writeInfo and a crash keep ShapeInv.
LEMMA InfoShape ==
    ASSUME ShapeInv, NEW p \in Process, CheckExists(p) \/ WriteInfo(p) \/ Crash(p)
    PROVE  ShapeInv'
<1>0. /\ disk \in Disk /\ job \in [Process -> Job] /\ Rest
      /\ job[p] \in Job /\ Shape(job[p])
  BY TypeIs DEF ShapeInv
<1>1. ASSUME NEW j \in Job, Become(p, j), Shape(j), j.pc # "hashWrite", disk' \in Disk,
             disk'.keyhash = disk.keyhash, Rest', j = Idle \/ (job[p] # Idle /\ j.cmd = job[p].cmd)
      PROVE  ShapeInv'
  BY <1>1, ShapeKept DEF ShapeInv, Alone
<1>2. CASE CheckExists(p)
  <2> DEFINE j == [job[p] EXCEPT !.pc = "infoTruncate"]
  <2>1. job[p].pc = "exists" /\ job[p] # Idle /\ (Become(p, j) \/ Become(p, Idle))
    BY <1>2, IdleJob DEF CheckExists
  <2>2. j \in Job /\ j.cmd = job[p].cmd /\ Shape(j) /\ j.pc # "hashWrite"
    BY <1>0, <2>1 DEF Job, PC, Shape, Asking, WritingRoot, WritingInfo
  <2>3. disk' \in Disk /\ disk'.keyhash = disk.keyhash /\ Rest'
    BY <1>0, <1>2 DEF CheckExists, Rest
  <2> HIDE DEF j
  <2> QED BY <1>1, <2>1, <2>2, <2>3, IdleJob
<1>3. CASE WriteInfo(p)
  <2> DEFINE j(c) == [job[p] EXCEPT !.pc = c]
  <2>1. /\ job[p].pc \in WritingInfo /\ job[p] # Idle
        /\ Become(p, Idle) \/ \E c \in WritingInfo : Become(p, j(c))
    BY <1>3, IdleJob DEF WriteInfo, WritingInfo
  <2>2. job[p].cmd = "create"
    BY <1>0, <2>1 DEF Shape, Asking, WritingRoot, WritingInfo
  <2>3. \A c \in WritingInfo : j(c) \in Job /\ j(c).cmd = job[p].cmd /\ Shape(j(c)) /\ j(c).pc # "hashWrite"
    BY <1>0, <2>1, <2>2 DEF Job, PC, Shape, Asking, WritingRoot, WritingInfo
  <2>4. job[p].name \in Name /\ DerivedKey(p) \in Key
    BY <1>0, <2>1, <2>2 DEF Job, Shape, Asking, WritingInfo, DerivedKey, Key, Root
  <2>5. disk' \in Disk /\ disk'.keyhash = disk.keyhash
    BY <1>0, <1>3, <2>4 DEF WriteInfo, Disk, File, Overwritten
  <2>6. Rest'
    BY <1>0, <1>3 DEF WriteInfo, Rest
  <2> HIDE DEF j
  <2> QED BY <1>1, <2>1, <2>3, <2>5, <2>6, IdleJob
<1>4. CASE Crash(p)
  <2>1. Become(p, Idle) /\ disk' \in Disk /\ disk'.keyhash = disk.keyhash
    BY <1>0, <1>4 DEF Crash
  <2>2. Rest'
    <3>1. faults' \in 0 .. MaxFaults
      BY <1>0, <1>4, WalletAssumption DEF Crash, Rest
    <3>2. hurt' \subseteq {"root", "passphrase", "address", "removal", "index", "race"}
      BY <1>0, <1>4 DEF Crash, Rest, HalfDone
    <3> QED BY <1>0, <1>4, <3>1, <3>2 DEF Crash, Rest
  <2> QED BY <1>1, <2>1, <2>2, IdleJob
<1> QED BY <1>2, <1>3, <1>4

\* Every step keeps ShapeInv.
LEMMA ShapeNext == ShapeInv /\ [WalletNext]_vars => ShapeInv'
<1> SUFFICES ASSUME ShapeInv, [WalletNext]_vars PROVE ShapeInv'
  OBVIOUS
<1>1. CASE UNCHANGED vars
  BY <1>1 DEF vars, ShapeInv, Alone, WalletTypeOK
<1>2. ASSUME NEW p \in Process, Command(p) \/ Step(p) \/ Crash(p)
      PROVE  ShapeInv'
  <2>1. CASE Step(p)
    BY <2>1, PromptShape, RootShape, RemovalShape, InfoShape DEF Step
  <2> QED BY <1>2, <2>1, CommandShape, InfoShape
<1> QED BY <1>1, <1>2 DEF WalletNext

\* The directory and the running commands keep their types, whatever overlaps
\* and wherever a process dies.
THEOREM WalletTypes == WalletSpec => []WalletTypeOK
<1>1. WalletSpec => []ShapeInv
  BY ShapeInit, ShapeNext, PTL DEF WalletSpec
<1>2. ShapeInv => WalletTypeOK
  BY DEF ShapeInv
<1> QED BY <1>1, <1>2, PTL

-----------------------------------------------------------------------------
(* The address index *)

\* A step of p that does not touch the keys' files: p is not between writeInfo's
\* check and its last write afterwards, and was not removing the wallet before,
\* unless it died doing so.
Quiet(p) ==
    /\ disk'.info = disk.info /\ disk'.addr = disk.addr
    /\ hurt \subseteq hurt'
    /\ job'[p].pc \notin WritingInfo
    /\ job[p].pc = "removeAll" => "removal" \in hurt'
    /\ \A q \in Process : q # p =>
         \/ job'[q] = job[q]
         \/ job[q].pc = "hashWrite" /\ job'[q] = [job[q] EXCEPT !.pc = "hashLost"]

\* Only three actions have to do with info records and address entries.
LEMMA QuietSteps ==
    ASSUME ShapeInv, NEW p \in Process, Command(p) \/ Step(p) \/ Crash(p)
    PROVE  Quiet(p) \/ CheckExists(p) \/ WriteInfo(p) \/ RemoveAll(p)
<1>0. disk \in Disk /\ job \in [Process -> Job] /\ job[p] \in Job /\ Idle.pc = "idle"
  BY TypeIs, IdleJob DEF ShapeInv
<1>1. ASSUME NEW j, Become(p, j), j.pc \notin WritingInfo, hurt \subseteq hurt',
             disk'.info = disk.info, disk'.addr = disk.addr,
             job[p].pc = "removeAll" => "removal" \in hurt'
      PROVE  Quiet(p)
  BY <1>0, <1>1, BecomeJob DEF Quiet
<1>2. CASE Command(p)
  <2>1. PICK j \in Job : Begin(p, j) /\ Fresh(j)
    BY <1>2, CommandJob
  <2>2. disk' = disk /\ j.pc \notin WritingInfo
    BY <1>2, <2>1, CommandJob DEF Fresh, WritingInfo
  <2> QED BY <1>0, <1>1, <2>1, <2>2 DEF Begin
<1>3. ASSUME NEW x \in Pass, Unlocked(p, x), job[p].pc \in Asking, disk'.info = disk.info,
             disk'.addr = disk.addr, hurt' = hurt, job[p].cmd = "update" => job[p].mnemonic = None
      PROVE  Quiet(p)
  <2>1. PICK j \in Job : Become(p, j) /\ (j = Idle \/ j.pc = "rootTruncate")
    BY <1>0, <1>3, UnlockedShape DEF ShapeInv, Accepted
  <2> QED BY <1>0, <1>1, <1>3, <2>1 DEF WritingInfo, Asking
<1>4. CASE Unlock(p)
  <2>1. /\ job[p].pc = "unlock" /\ disk' = disk /\ hurt' = hurt
        /\ Become(p, Idle) \/ (disk.keyhash \in Pass /\ Unlocked(p, disk.keyhash))
    BY <1>0, <1>4 DEF Unlock, Disk, File
  <2>2. job[p].cmd = "update" => job[p].mnemonic = None
    BY <1>0, <2>1 DEF ShapeInv, Shape, Job
  <2> QED BY <1>0, <1>1, <1>3, <2>1, <2>2 DEF Asking, WritingInfo
<1>5. CASE WriteKeyhash(p)
  <2>1. /\ job[p].pc \in {"hashWrite", "hashLost"} /\ hurt' = hurt
        /\ Become(p, Idle)
           \/ (Unlocked(p, job[p].password) /\ (job[p].cmd = "update" => job[p].mnemonic = None))
    BY <1>0, <1>5 DEF WriteKeyhash
  <2>2. disk'.info = disk.info /\ disk'.addr = disk.addr
    BY <1>0, <1>5 DEF WriteKeyhash, Disk
  <2>3. job[p].password \in Pass
    BY <1>0, <2>1 DEF ShapeInv, Shape
  <2> QED BY <1>0, <1>1, <1>3, <2>1, <2>2, <2>3 DEF Asking, WritingInfo
<1>6. ASSUME NEW x \in Pass, ChoosePassphrase(p, x)
      PROVE  Quiet(p)
  <2> DEFINE j == [job[p] EXCEPT !.pc = "hashCreate", !.password = x]
  <2>1. j.pc = "hashCreate"
    BY <1>0 DEF Job
  <2> HIDE DEF j
  <2> QED BY <1>0, <1>1, <1>6, <2>1 DEF ChoosePassphrase, WritingInfo, j
<1>7. CASE CreateKeyhash(p)
  <2> DEFINE j == [job[p] EXCEPT !.pc = "hashWrite"]
  <2>1. j.pc = "hashWrite"
    BY <1>0 DEF Job
  <2>2. Become(p, j) \/ Become(p, Idle)
    BY <1>7 DEF CreateKeyhash
  <2>3. disk'.info = disk.info /\ disk'.addr = disk.addr
    BY <1>0, <1>7 DEF CreateKeyhash, Disk
  <2> HIDE DEF j
  <2> QED BY <1>0, <1>1, <1>7, <2>1, <2>2, <2>3 DEF CreateKeyhash, WritingInfo
<1>8. CASE TruncateRoot(p) \/ WriteRoot(p)
  <2>1. \E j : Become(p, j) /\ j.pc \in {"rootWrite", "idle", "confirm", "hashRemove", "exists"}
    BY <1>0, <1>8 DEF TruncateRoot, WriteRoot, AfterRoot, Job
  <2>2. disk'.info = disk.info /\ disk'.addr = disk.addr
    BY <1>0, <1>8 DEF TruncateRoot, WriteRoot, Disk
  <2> QED BY <1>0, <1>1, <1>8, <2>1, <2>2 DEF TruncateRoot, WriteRoot, WritingInfo
<1>9. ASSUME NEW ok \in BOOLEAN, confirmMnemonic(p, ok)
      PROVE  Quiet(p)
  <2>1. \E j : Become(p, j) /\ j.pc \in {"idle", "removeAll"}
    BY <1>0, <1>9 DEF confirmMnemonic, Job
  <2> QED BY <1>0, <1>1, <1>9, <2>1 DEF confirmMnemonic, WritingInfo
<1>10. CASE RemoveKeyhash(p)
  <2>1. job[p].pc = "hashRemove" /\ hurt' = hurt
    BY <1>10 DEF RemoveKeyhash
  <2>2. CASE disk.keyhash = Absent
    BY <1>0, <1>1, <1>10, <2>1, <2>2 DEF RemoveKeyhash, Reset, WritingInfo
  <2>3. CASE disk.keyhash # Absent
    <3>1. disk'.info = disk.info /\ disk'.addr = disk.addr
      BY <1>0, <1>10, <2>3 DEF RemoveKeyhash, Reset, Disk
    <3>2. job'[p].pc = "hashCreate"
      BY <1>0, <1>10, <2>3 DEF RemoveKeyhash, Reset, Job
    <3>3. \A q \in Process : q # p =>
            \/ job'[q] = job[q]
            \/ job[q].pc = "hashWrite" /\ job'[q] = [job[q] EXCEPT !.pc = "hashLost"]
      BY <1>10, <2>3 DEF RemoveKeyhash, Reset
    <3> QED BY <2>1, <3>1, <3>2, <3>3 DEF Quiet, WritingInfo
  <2> QED BY <2>2, <2>3
<1>11. CASE Crash(p)
  <2>1. Become(p, Idle) /\ disk' = disk /\ hurt \subseteq hurt'
    BY <1>11 DEF Crash
  <2>2. job[p].pc = "removeAll" => "removal" \in hurt'
    BY <1>11 DEF Crash, HalfDone
  <2> QED BY <1>0, <1>1, <2>1, <2>2 DEF WritingInfo
<1> QED BY <1>2, <1>4, <1>5, <1>6, <1>7, <1>8, <1>9, <1>10, <1>11 DEF Step

\* The command that removes the wallet is the only one.
LEMMA RemoverAlone ==
    ASSUME ShapeInv, NEW p \in Process, job[p].pc = "removeAll"
    PROVE  \A q \in Process : q # p => job[q] = Idle
<1>1. job[p] # Idle /\ job[p].cmd \in {"init", "recover"}
  BY IdleJob DEF ShapeInv, Shape, Asking, WritingRoot, WritingInfo
<1> QED BY <1>1 DEF ShapeInv, Alone

\* A command that writes a key: which one, under which name.
LEMMA WriterIs ==
    ASSUME ShapeInv, NEW p \in Process, job[p].pc \in WritingInfo \cup {"exists"}
    PROVE  /\ job[p].name \in Name /\ DerivedKey(p) \in Key /\ ~Removing
           /\ job[p] # Idle /\ job[p].cmd = "create"
<1>1. job[p] # Idle /\ job[p].cmd = "create"
  BY IdleJob DEF ShapeInv, Shape, Asking, WritingRoot, WritingInfo
<1>2. job[p].name \in Name /\ DerivedKey(p) \in Key
  <2>1. job[p] \in Job /\ Shape(job[p])
    BY TypeIs DEF ShapeInv
  <2> QED BY <1>1, <2>1 DEF Job, Shape, Asking, WritingInfo, DerivedKey, Key, Root
<1>3. ~Removing
  BY <1>1, RemoverAlone DEF Removing, WritingInfo
<1> QED BY <1>1, <1>2, <1>3

\* The parts of writeInfo, each with what it does to the files.
LEMMA WriteInfoParts ==
    ASSUME ShapeInv, NEW p \in Process, WriteInfo(p)
    PROVE  LET n == job[p].name  k == DerivedKey(p)
           IN  /\ job[p].pc \in WritingInfo /\ hurt' = hurt
               /\ disk'.root = disk.root /\ disk'.keyhash = disk.keyhash
               /\ \A q \in Process : q # p => job'[q] = job[q]
               /\ job'[p] = Idle \/ (job'[p].pc \in WritingInfo /\ job'[p] = [job[p] EXCEPT !.pc = job'[p].pc])
               /\ \/ /\ job[p].pc = "infoTruncate" /\ job'[p].pc = "infoWrite"
                     /\ disk'.info = [disk.info EXCEPT ![n] = Torn] /\ disk'.addr = disk.addr
                  \/ /\ job[p].pc = "infoWrite" /\ job'[p].pc = "addrTruncate"
                     /\ \E info \in Overwritten(disk.info[n], k) :
                          disk'.info = [disk.info EXCEPT ![n] = info]
                     /\ disk'.addr = disk.addr
                  \/ /\ job[p].pc = "addrTruncate" /\ job'[p].pc = "addrWrite"
                     /\ disk'.addr = [disk.addr EXCEPT ![k] = Torn] /\ disk'.info = disk.info
                  \/ /\ job[p].pc = "addrWrite" /\ job'[p] = Idle
                     /\ \E name \in Overwritten(disk.addr[k], n) :
                          disk'.addr = [disk.addr EXCEPT ![k] = name]
                     /\ disk'.info = disk.info
<1>0. disk \in Disk /\ job \in [Process -> Job] /\ job[p] \in Job
  BY TypeIs DEF ShapeInv
<1> DEFINE n == job[p].name
           k == DerivedKey(p)
           j(c) == [job[p] EXCEPT !.pc = c]
<1>1. \A c : j(c).pc = c
  BY <1>0 DEF Job
<1>2. CASE job[p].pc = "infoTruncate"
  <2>1. job' = [job EXCEPT ![p] = j("infoWrite")] /\ disk' = [disk EXCEPT !.info[n] = Torn] /\ hurt' = hurt
    BY <1>2 DEF WriteInfo, Become
  <2> HIDE DEF j
  <2>2. job'[p] = j("infoWrite") /\ \A q \in Process : q # p => job'[q] = job[q]
    BY <1>0, <2>1
  <2> QED BY <1>0, <1>1, <1>2, <2>1, <2>2 DEF Disk, WritingInfo, j
<1>3. CASE job[p].pc = "infoWrite"
  <2>1. job' = [job EXCEPT ![p] = j("addrTruncate")] /\ hurt' = hurt
    BY <1>3 DEF WriteInfo, Become
  <2>2. PICK info \in Overwritten(disk.info[n], k) : disk' = [disk EXCEPT !.info[n] = info]
    BY <1>3 DEF WriteInfo
  <2> HIDE DEF j
  <2>3. job'[p] = j("addrTruncate") /\ \A q \in Process : q # p => job'[q] = job[q]
    BY <1>0, <2>1
  <2>4. /\ disk'.info = [disk.info EXCEPT ![n] = info] /\ disk'.addr = disk.addr
        /\ disk'.root = disk.root /\ disk'.keyhash = disk.keyhash
    BY <1>0, <2>2 DEF Disk
  <2> QED BY <1>0, <1>1, <1>3, <2>1, <2>2, <2>3, <2>4 DEF WritingInfo, j
<1>4. CASE job[p].pc = "addrTruncate"
  <2>1. job' = [job EXCEPT ![p] = j("addrWrite")] /\ disk' = [disk EXCEPT !.addr[k] = Torn] /\ hurt' = hurt
    BY <1>4 DEF WriteInfo, Become
  <2> HIDE DEF j
  <2>2. job'[p] = j("addrWrite") /\ \A q \in Process : q # p => job'[q] = job[q]
    BY <1>0, <2>1
  <2> QED BY <1>0, <1>1, <1>4, <2>1, <2>2 DEF Disk, WritingInfo, j
<1>5. CASE job[p].pc = "addrWrite"
  <2>1. job' = [job EXCEPT ![p] = Idle] /\ hurt' = hurt
    BY <1>5 DEF WriteInfo, Become
  <2>2. PICK name \in Overwritten(disk.addr[k], n) : disk' = [disk EXCEPT !.addr[k] = name]
    BY <1>5 DEF WriteInfo
  <2>3. job'[p] = Idle /\ \A q \in Process : q # p => job'[q] = job[q]
    BY <1>0, <2>1
  <2>4. /\ disk'.addr = [disk.addr EXCEPT ![k] = name] /\ disk'.info = disk.info
        /\ disk'.root = disk.root /\ disk'.keyhash = disk.keyhash
    BY <1>0, <2>2 DEF Disk
  <2> QED BY <1>0, <1>5, <2>1, <2>2, <2>3, <2>4 DEF WritingInfo
<1> QED BY <1>2, <1>3, <1>4, <1>5 DEF WriteInfo

\* RemoveAll takes files away and nothing else, and ends when there are none.
LEMMA RemoveAllParts ==
    ASSUME ShapeInv, NEW p \in Process, RemoveAll(p)
    PROVE  /\ job[p].pc = "removeAll" /\ hurt' = hurt
           /\ \A q \in Process : q # p => job'[q] = job[q] /\ job[q] = Idle
           /\ job' = job \/ (disk' = disk /\ disk = NoFiles /\ job'[p] = Idle)
           /\ disk'.root \in {disk.root, Absent} /\ disk'.keyhash \in {disk.keyhash, Absent}
           /\ \A n \in Name : disk'.info[n] \in {disk.info[n], Absent}
           /\ \A k \in Key : disk'.addr[k] \in {disk.addr[k], Absent}
<1>0. disk \in Disk /\ job \in [Process -> Job] /\ job[p].pc = "removeAll" /\ hurt' = hurt
  BY TypeIs DEF ShapeInv, RemoveAll
<1>1. \A q \in Process : q # p => job[q] = Idle
  BY <1>0, RemoverAlone
<1>2. job' = job \/ (disk' = disk /\ disk = NoFiles /\ Become(p, Idle))
  BY DEF RemoveAll
<1>3. /\ disk'.root \in {disk.root, Absent} /\ disk'.keyhash \in {disk.keyhash, Absent}
      /\ \A n \in Name : disk'.info[n] \in {disk.info[n], Absent}
      /\ \A k \in Key : disk'.addr[k] \in {disk.addr[k], Absent}
  BY <1>0 DEF RemoveAll, Disk
<1> QED BY <1>0, <1>1, <1>2, <1>3, BecomeJob

\* Every step keeps IndexInv.
LEMMA IndexNext ==
    ASSUME ShapeInv, IndexInv, NEW p \in Process, Command(p) \/ Step(p) \/ Crash(p)
    PROVE  IndexInv'
<1>0. disk \in Disk /\ job \in [Process -> Job] /\ job[p] \in Job /\ Idle.pc = "idle"
  BY TypeIs, IdleJob DEF ShapeInv
<1> SUFFICES ASSUME {"removal", "race"} \cap hurt' = {}
             PROVE  /\ \A q \in Process : job'[q].pc \in WritingInfo => Claimed(q)'
                    /\ \A q, r \in Process :
                         q # r /\ job'[q].pc \in WritingInfo /\ job'[r].pc \in WritingInfo
                           => Disjoint(q, r)'
                    /\ Removing' \/ \A k \in Key :
                         Readable(disk'.addr[k]) => disk'.info[disk'.addr[k]] = k
  BY DEF IndexInv, Readable
<1>1. ASSUME hurt \subseteq hurt'
      PROVE  /\ \A q \in Process : job[q].pc \in WritingInfo => Claimed(q)
             /\ \A q, r \in Process :
                  q # r /\ job[q].pc \in WritingInfo /\ job[r].pc \in WritingInfo => Disjoint(q, r)
             /\ Removing \/ \A k \in Key : Readable(disk.addr[k]) => disk.info[disk.addr[k]] = k
  BY <1>1 DEF IndexInv
<1>2. CASE Quiet(p)
  <2>1. \A q \in Process : job'[q].pc \in WritingInfo => job'[q] = job[q]
    <3> SUFFICES ASSUME NEW q \in Process, job'[q].pc \in WritingInfo, job'[q] # job[q]
                 PROVE  FALSE
      OBVIOUS
    <3>1. q # p /\ job'[q] = [job[q] EXCEPT !.pc = "hashLost"]
      BY <1>2 DEF Quiet
    <3>2. job'[q].pc = "hashLost"
      BY <1>0, <3>1 DEF Job
    <3> QED BY <3>2 DEF WritingInfo
  <2>2. Removing => Removing'
    <3> SUFFICES ASSUME NEW q \in Process, job[q].pc = "removeAll" PROVE job'[q].pc = "removeAll"
      BY DEF Removing
    <3> QED BY <1>2 DEF Quiet
  <2> QED BY <1>1, <1>2, <2>1, <2>2 DEF Quiet, Claimed, Disjoint, DerivedKey
<1>3. CASE CheckExists(p)
  <2>1. CASE Become(p, Idle)
    <3>1. Quiet(p)
      BY <1>0, <1>3, <2>1, BecomeJob DEF Quiet, CheckExists, WritingInfo
    <3> QED BY <1>2, <3>1
  <2>2. CASE ~existsInDb(p)
    <3> DEFINE j == [job[p] EXCEPT !.pc = "infoTruncate"]
    <3>1. /\ Become(p, j) /\ disk' = disk /\ hurt \subseteq hurt' /\ ~Racing(p)
          /\ disk.info[job[p].name] = Absent /\ disk.addr[DerivedKey(p)] = Absent
      BY <1>3, <2>2 DEF CheckExists, existsInDb
    <3>2. job'[p] = j /\ \A q \in Process : q # p => job'[q] = job[q]
      BY <1>0, <3>1, BecomeJob
    <3>3. /\ j.pc = "infoTruncate" /\ j.name = job[p].name /\ j.mnemonic = job[p].mnemonic
          /\ j.index = job[p].index
      BY <1>0 DEF Job
    <3> HIDE DEF j
    <3>4. DerivedKey(p)' = DerivedKey(p) /\ \A q \in Process : q # p => DerivedKey(q)' = DerivedKey(q)
      BY <3>2, <3>3 DEF DerivedKey
    <3>5. ASSUME NEW q \in Process, q # p, job[q].pc \in WritingInfo
          PROVE  Disjoint(p, q) /\ Disjoint(q, p)
      <4>1. Claimed(q) /\ DerivedKey(q) \in Key /\ Absent \notin Key
        BY <1>1, <3>1, <3>5, WriterIs, MarkersAssumption
      <4>2. job[q].name # job[p].name
        BY <3>1, <3>5, <4>1, WalletAssumption DEF Claimed, Racing, WritingInfo
      <4>3. DerivedKey(q) # DerivedKey(p)
        BY <3>1, <3>5, <4>1, WalletAssumption DEF Claimed, Racing, WritingInfo
      <4> QED BY <4>2, <4>3 DEF Disjoint
    <3>6. \A q \in Process : job'[q].pc \in WritingInfo => Claimed(q)'
      <4>1. Claimed(p)'
        BY <3>1, <3>2, <3>3, <3>4 DEF Claimed
      <4>2. ASSUME NEW q \in Process, q # p, job'[q].pc \in WritingInfo PROVE Claimed(q)'
        <5>1. Claimed(q) /\ job'[q] = job[q]
          BY <1>1, <3>1, <3>2, <4>2
        <5> QED BY <3>1, <3>4, <4>2, <5>1 DEF Claimed
      <4> QED BY <4>1, <4>2
    <3>7. \A q, r \in Process :
            q # r /\ job'[q].pc \in WritingInfo /\ job'[r].pc \in WritingInfo => Disjoint(q, r)'
      BY <1>1, <3>1, <3>2, <3>3, <3>4, <3>5 DEF Disjoint
    <3>8. Removing' \/ \A k \in Key : Readable(disk'.addr[k]) => disk'.info[disk'.addr[k]] = k
      <4>1. ~Removing
        BY <1>3, WriterIs DEF CheckExists
      <4> QED BY <1>1, <3>1, <4>1
    <3> QED BY <3>6, <3>7, <3>8
  <2> QED BY <1>3, <2>1, <2>2 DEF CheckExists
<1>4. CASE WriteInfo(p)
  <2> DEFINE n == job[p].name
             k == DerivedKey(p)
  <2>0. /\ n \in Name /\ k \in Key /\ ~Removing /\ job[p].pc \in WritingInfo
        /\ hurt' = hurt /\ \A q \in Process : q # p => job'[q] = job[q]
        /\ job'[p] = Idle \/ (job'[p].pc \in WritingInfo /\ job'[p] = [job[p] EXCEPT !.pc = job'[p].pc])
    BY <1>4, WriteInfoParts, WriterIs
  <2>1. Claimed(p) /\ \A q \in Process : q # p /\ job[q].pc \in WritingInfo => Claimed(q) /\ Disjoint(p, q)
    BY <1>1, <2>0
  <2>2. \A q \in Process : job'[q].pc \in WritingInfo =>
          job[q].pc \in WritingInfo /\ job'[q].name = job[q].name /\ DerivedKey(q)' = DerivedKey(q)
    BY <1>0, <2>0 DEF DerivedKey, Job, WritingInfo
  <2>3. \A q, r \in Process :
          q # r /\ job'[q].pc \in WritingInfo /\ job'[r].pc \in WritingInfo => Disjoint(q, r)'
    BY <1>1, <2>0, <2>2 DEF Disjoint
  <2>4. /\ \A a \in Name : a # n => disk'.info[a] = disk.info[a]
        /\ \A a \in Key : a # k => disk'.addr[a] = disk.addr[a]
    <3>1. disk.info \in [Name -> File(Key)] /\ disk.addr \in [Key -> File(Name)]
      BY <1>0 DEF Disk
    <3>2. /\ disk'.info = disk.info \/ \E v : disk'.info = [disk.info EXCEPT ![n] = v]
          /\ disk'.addr = disk.addr \/ \E v : disk'.addr = [disk.addr EXCEPT ![k] = v]
      BY <1>4, WriteInfoParts
    <3> QED BY <3>1, <3>2
  <2>5. ASSUME NEW q \in Process, q # p, job'[q].pc \in WritingInfo
        PROVE  Claimed(q)'
    <3>1. job[q].name \in Name /\ DerivedKey(q) \in Key /\ Claimed(q) /\ Disjoint(p, q)
      BY <2>0, <2>1, <2>5, WriterIs
    <3>2. disk'.info[job[q].name] = disk.info[job[q].name] /\ disk'.addr[DerivedKey(q)] = disk.addr[DerivedKey(q)]
      BY <2>4, <3>1 DEF Disjoint
    <3>3. job'[q] = job[q] /\ DerivedKey(q)' = DerivedKey(q)
      BY <2>0, <2>2, <2>5
    <3> QED BY <3>1, <3>2, <3>3 DEF Claimed
  <2>6. disk.info \in [Name -> File(Key)] /\ disk.addr \in [Key -> File(Name)]
    BY <1>0 DEF Disk
  <2>7. /\ job'[p].pc \in WritingInfo => Claimed(p)'
        /\ \A a \in Key : Readable(disk'.addr[a]) => disk'.info[disk'.addr[a]] = a
    <3>0. /\ \A a \in Key : Readable(disk.addr[a]) => disk.info[disk.addr[a]] = a /\ disk.addr[a] \in Name
          /\ Absent \notin Key /\ Torn \notin Key
      BY <1>1, <2>0, <2>6, MarkersAssumption DEF Readable, File
    <3>1. CASE job[p].pc = "infoTruncate"
      <4>1. disk.info[n] = Absent /\ disk.addr[k] = Absent
        BY <2>1, <3>1 DEF Claimed
      <4>2. job'[p].pc = "infoWrite" /\ disk'.info = [disk.info EXCEPT ![n] = Torn] /\ disk'.addr = disk.addr
        BY <1>4, <3>1, WriteInfoParts
      <4>3. Claimed(p)'
        BY <2>0, <2>2, <2>6, <4>1, <4>2 DEF Claimed, WritingInfo
      <4> QED BY <2>6, <3>0, <4>1, <4>2, <4>3
    <3>2. CASE job[p].pc = "infoWrite"
      <4>1. disk.info[n] = Torn /\ disk.addr[k] = Absent
        BY <2>1, <3>2 DEF Claimed
      <4>2. job'[p].pc = "addrTruncate" /\ disk'.info = [disk.info EXCEPT ![n] = k] /\ disk'.addr = disk.addr
        BY <1>4, <3>2, <4>1, WriteInfoParts DEF Overwritten
      <4>3. Claimed(p)'
        BY <2>0, <2>2, <2>6, <4>1, <4>2 DEF Claimed, WritingInfo
      <4> QED BY <2>6, <3>0, <4>1, <4>2, <4>3
    <3>3. CASE job[p].pc = "addrTruncate"
      <4>1. disk.info[n] = k /\ disk.addr[k] = Absent
        BY <2>1, <3>3 DEF Claimed
      <4>2. job'[p].pc = "addrWrite" /\ disk'.addr = [disk.addr EXCEPT ![k] = Torn] /\ disk'.info = disk.info
        BY <1>4, <3>3, WriteInfoParts
      <4>3. Claimed(p)'
        BY <2>0, <2>2, <2>6, <4>1, <4>2 DEF Claimed, WritingInfo
      <4> QED BY <2>6, <3>0, <4>2, <4>3 DEF Readable
    <3>4. CASE job[p].pc = "addrWrite"
      <4>1. disk.info[n] = k /\ disk.addr[k] = Torn
        BY <2>1, <3>4 DEF Claimed
      <4>2. job'[p] = Idle /\ disk'.addr = [disk.addr EXCEPT ![k] = n] /\ disk'.info = disk.info
        BY <1>4, <3>4, <4>1, WriteInfoParts DEF Overwritten
      <4> QED BY <1>0, <2>6, <3>0, <4>1, <4>2 DEF WritingInfo
    <3> QED BY <2>0, <3>1, <3>2, <3>3, <3>4 DEF WritingInfo
  <2> QED BY <2>3, <2>5, <2>7
<1>5. CASE RemoveAll(p)
  <2>1. \A q \in Process : job'[q].pc \notin WritingInfo
    BY <1>0, <1>5, RemoveAllParts DEF WritingInfo
  <2>2. CASE job' = job
    BY <1>5, <2>1, <2>2, RemoveAllParts DEF Removing
  <2>3. CASE disk' = disk /\ disk = NoFiles
    BY <2>1, <2>3 DEF NoFiles, Readable
  <2> QED BY <1>5, <2>2, <2>3, RemoveAllParts
<1> QED BY <1>2, <1>3, <1>4, <1>5, QuietSteps

\* KeyByAddress finds the right key: AddressIndexSound for every wallet.
THEOREM AddressesLead == WalletSpec => []AddressIndexSound
<1>1. WalletInit => IndexInv
  <2> SUFFICES ASSUME WalletInit PROVE IndexInv
    OBVIOUS
  <2>1. \A p \in Process : job[p].pc \notin WritingInfo
    BY IdleJob DEF WalletInit, WritingInfo
  <2>2. \A k \in Key : ~Readable(disk.addr[k])
    BY DEF WalletInit, NoFiles, Readable
  <2> QED BY <2>1, <2>2 DEF IndexInv
<1>2. ShapeInv /\ IndexInv /\ [WalletNext]_vars => IndexInv'
  <2> SUFFICES ASSUME ShapeInv, IndexInv, [WalletNext]_vars PROVE IndexInv'
    OBVIOUS
  <2>1. CASE UNCHANGED vars
    BY <2>1 DEF vars, IndexInv, Claimed, Disjoint, DerivedKey, Removing
  <2> QED BY <2>1, IndexNext DEF WalletNext
<1>3. IndexInv => AddressIndexSound
  BY DEF IndexInv, AddressIndexSound
<1> QED BY <1>1, <1>2, <1>3, ShapeInit, ShapeNext, PTL DEF WalletSpec

-----------------------------------------------------------------------------
(* The passphrase *)

\* PassInv, taken apart: what it assumes,
Unhurt == {"passphrase", "removal"} \cap hurt = {}

\* that nothing overlaps an update,
UpdateAlone == \A p, q \in Process : p # q /\ job[p] # Idle /\ job[p].cmd = "update" => job[q] = Idle

\* and that the keyhash accepts the passphrase of the root record.
Opens ==
    \/ Removing
    \/ \E p \in Process : job[p] # Idle /\ Rehashing(job[p])
    \/ Readable(disk.root) => disk.keyhash = disk.root.pass

\* The parts are PassInv.
LEMMA PassIs ==
    PassInv <=> (Unhurt => UpdateAlone /\ Opens /\ \A p \in Process : job[p] # Idle => Keyed(job[p]))
BY DEF PassInv, Unhurt, UpdateAlone, Opens

\* A process that goes on, or ends, while the root record and the keyhash stay,
\* and that was not in the middle of changing them.
LEMMA PassKept ==
    ASSUME ShapeInv, PassInv, NEW p \in Process, NEW j \in Job, Become(p, j), hurt \subseteq hurt',
           disk'.root = disk.root, disk'.keyhash = disk.keyhash,
           Unhurt' => /\ j = Idle \/ (job[p] # Idle /\ j.cmd = job[p].cmd /\ Keyed(j))
                      /\ Rehashing(job[p]) => Rehashing(j) /\ j # Idle
                      /\ job[p].pc = "removeAll" => j.pc = "removeAll"
    PROVE  PassInv'
<1>1. job'[p] = j /\ \A q \in Process : q # p => job'[q] = job[q]
  BY BecomeJob, TypeIs DEF ShapeInv
<1> SUFFICES ASSUME Unhurt'
             PROVE  UpdateAlone' /\ Opens' /\ \A q \in Process : job'[q] # Idle => Keyed(job[q])'
  BY DEF PassInv, Unhurt, UpdateAlone, Opens
<1>2. UpdateAlone /\ Opens /\ \A q \in Process : job[q] # Idle => Keyed(job[q])
  BY PassIs DEF Unhurt
<1>3. UpdateAlone'
  BY <1>1, <1>2 DEF UpdateAlone
<1>4. \A q \in Process : job'[q] # Idle => Keyed(job[q])'
  BY <1>1, <1>2 DEF Keyed
<1>5. Opens'
  <2>1. Removing => Removing'
    BY <1>1 DEF Removing
  <2>2. ASSUME NEW q \in Process, job[q] # Idle, Rehashing(job[q]) PROVE job'[q] # Idle /\ Rehashing(job'[q])
    BY <1>1, <2>2
  <2> QED BY <1>2, <2>1, <2>2 DEF Opens, Readable
<1> QED BY <1>3, <1>4, <1>5

\* A new command keeps PassInv.
LEMMA PassBegins ==
    ASSUME ShapeInv, PassInv, NEW p \in Process, NEW j \in Job, Begin(p, j), Shape(j), Fresh(j),
           disk' = disk
    PROVE  PassInv'
<1>0. /\ job[p] = Idle /\ job'[p] = j /\ \A q \in Process : q # p => job'[q] = job[q]
      /\ hurt \subseteq hurt' /\ disk \in Disk
  BY BecomeJob, TypeIs DEF ShapeInv, Begin
<1> SUFFICES ASSUME Unhurt'
             PROVE  UpdateAlone' /\ Opens' /\ \A q \in Process : job'[q] # Idle => Keyed(job[q])'
  BY DEF PassInv, Unhurt, UpdateAlone, Opens
<1>1. UpdateAlone /\ Opens /\ \A q \in Process : job[q] # Idle => Keyed(job[q])
  BY <1>0, PassIs DEF Unhurt
<1>2. \A q \in Process : q # p /\ job[q] # Idle => j.cmd # "update" /\ job[q].cmd # "update"
                                                   /\ job[q].cmd \notin {"init", "recover"}
  BY DEF Begin, Unhurt
<1>3. UpdateAlone'
  BY <1>0, <1>1, <1>2 DEF UpdateAlone
<1>4. Readable(disk.root) => disk.keyhash = disk.root.pass
  <2>1. ~Removing
    BY <1>0, <1>2, IdleJob DEF Removing, ShapeInv, Shape, Asking, WritingRoot, WritingInfo
  <2> QED BY <1>0, <1>1, <1>2, <2>1 DEF Opens, Rehashing
<1>5. Opens'
  BY <1>4 DEF Opens
<1>6. Keyed(j)
  <2>1. j.cmd \notin {"init", "recover"} => disk.root \in Root /\ disk.keyhash = disk.root.pass /\ disk.keyhash # Absent
    BY <1>0, <1>4, WalletAssumption DEF Fresh, HasInit, Readable, Disk, File, Root
  <2>2. disk.root \in Root => disk.root.mnemonic # None
    BY WalletAssumption DEF Root
  <2>3. CASE j.cmd \in {"init", "recover"}
    BY <2>3 DEF Fresh, Keyed, Rehashing, Asking, WritingRoot
  <2>4. CASE j.cmd \in {"create", "export"}
    <3>1. j.root = disk.root /\ j.pc = "unlock"
      BY <2>4 DEF Fresh
    <3> QED BY <2>1, <2>4, <3>1 DEF Keyed, Rehashing, Asking, WritingRoot
  <2>5. CASE j.cmd = "update"
    <3>1. /\ j.mnemonic = None => j.root = disk.root /\ j.pc = "unlock"
          /\ j.pc \in {"unlock", "rootTruncate"}
      BY <2>1, <2>2, <2>5 DEF Fresh
    <3> QED BY <2>1, <2>5, <3>1 DEF Keyed, Rehashing, Asking, WritingRoot
  <2> QED BY <2>3, <2>4, <2>5 DEF Fresh
<1>7. \A q \in Process : job'[q] # Idle => Keyed(job[q])'
  BY <1>0, <1>1, <1>6 DEF Keyed, Rehashing
<1> QED BY <1>3, <1>5, <1>7

\* Every step keeps PassInv: update, which runs alone, is the one command that
\* may leave the root record and the keyhash different, and only until its end.
LEMMA PassNext ==
    ASSUME ShapeInv, PassInv, NEW p \in Process, Command(p) \/ Step(p) \/ Crash(p)
    PROVE  PassInv'
<1>0. /\ disk \in Disk /\ job \in [Process -> Job] /\ job[p] \in Job /\ Shape(job[p])
      /\ Idle \in Job /\ Idle.pc = "idle" /\ ShapeInv'
      /\ disk.root \in File(Root) /\ disk.keyhash \in File(Pass)
  <2>1. ShapeInv'
    BY ShapeNext DEF WalletNext
  <2> QED BY <2>1, TypeIs, IdleJob DEF ShapeInv, Disk
<1>1. Unhurt => UpdateAlone /\ Opens /\ \A q \in Process : job[q] # Idle => Keyed(job[q])
  BY PassIs
<1>2. Absent \notin Pass /\ Torn \notin Pass /\ None \notin Mnemonic /\ Absent # Torn
  BY WalletAssumption
<1>3. CASE Command(p)
  BY <1>3, CommandJob, PassBegins
<1>4. ASSUME NEW x \in Pass, Unlocked(p, x), job[p].pc = "unlock", x = disk.keyhash, disk' = disk, hurt' = hurt
      PROVE  PassInv'
  <2>1. job[p].cmd = "update" => job[p].mnemonic = None
    BY <1>0, <1>4 DEF Shape, Job
  <2>2. PICK j \in Job : Become(p, j) /\ Shape(j) /\ (j = Idle \/ Accepted(p, x, j))
    BY <1>0, <1>4, <2>1, UnlockedShape DEF Asking
  <2>3. CASE j = Idle
    BY <1>4, <2>2, <2>3, PassKept DEF Rehashing
  <2>4. CASE j # Idle /\ Accepted(p, x, j)
    <3>1. Keyed(j)
      <4>1. j.cmd = "update" => j.mnemonic # None
        BY <1>2, <2>2, <2>4 DEF Shape, Accepted, Asking
      <4> QED BY <1>2, <1>4, <2>4, <4>1 DEF Accepted, Keyed, Rehashing, Asking, WritingRoot
    <3>2. job[p] # Idle /\ j.cmd = job[p].cmd
      BY <1>0, <1>4, <2>4 DEF Accepted
    <3> QED BY <1>4, <2>2, <3>1, <3>2, PassKept DEF Rehashing
  <2> QED BY <2>2, <2>3, <2>4
<1>5. CASE Unlock(p)
  <2>1. CASE Become(p, Idle)
    BY <1>0, <1>5, <2>1, PassKept DEF Unlock, Rehashing
  <2>2. CASE disk.keyhash # Torn /\ Unlocked(p, disk.keyhash)
    BY <1>0, <1>4, <1>5, <2>2 DEF Unlock, File
  <2> QED BY <1>5, <2>1, <2>2 DEF Unlock
<1>6. ASSUME NEW x \in Pass, ChoosePassphrase(p, x)
      PROVE  PassInv'
  <2> DEFINE j == [job[p] EXCEPT !.pc = "hashCreate", !.password = x]
  <2>1. /\ Become(p, j) /\ disk' = disk /\ hurt' = hurt /\ job[p].pc = "unlock"
        /\ disk.keyhash = Absent /\ job[p] # Idle
    BY <1>0, <1>6 DEF ChoosePassphrase
  <2>2. j \in Job /\ j.pc = "hashCreate" /\ j.cmd = job[p].cmd
    BY <1>0 DEF Job, PC
  <2>3. ASSUME Unhurt PROVE job[p].cmd \in {"init", "recover"}
    <3>1. Keyed(job[p])
      BY <1>1, <2>1, <2>3
    <3>2. job[p].cmd = "update" => job[p].mnemonic = None
      BY <1>0, <2>1 DEF Shape, Job
    <3>3. job[p].cmd \notin {"init", "recover"} => job[p].root \in Root /\ job[p].root.pass = Absent
      BY <1>0, <2>1, <3>1, <3>2 DEF Shape, Keyed
    <3>4. job[p].cmd \notin {"init", "recover"} => job[p].root.pass \in Pass
      BY <3>3 DEF Root
    <3> QED BY <1>2, <3>3, <3>4
  <2>4. Unhurt => Keyed(j)
    BY <2>2, <2>3 DEF Keyed, Rehashing, WritingRoot, Asking
  <2> HIDE DEF j
  <2> QED BY <2>1, <2>2, <2>4, PassKept DEF Rehashing, Unhurt
<1>7. ASSUME hurt \subseteq hurt',
             Unhurt /\ Unhurt' => UpdateAlone' /\ Opens' /\ \A q \in Process : job'[q] # Idle => Keyed(job[q])'
      PROVE  PassInv'
  BY <1>7 DEF PassInv, Unhurt, UpdateAlone, Opens
<1>8. ASSUME Unhurt, job[p].pc \in {"hashCreate", "hashWrite", "hashRemove"}
      PROVE  /\ job[p] # Idle /\ \A q \in Process : q # p => job[q] = Idle
             /\ job[p].cmd \in {"init", "recover"} \/ (job[p].cmd = "update" /\ job[p].mnemonic # None)
             /\ job[p].cmd \in {"init", "recover"} \/ Rehashing(job[p])
             /\ ~Removing
  <2>1. job[p] # Idle /\ Keyed(job[p])
    BY <1>0, <1>1, <1>8
  <2>2. job[p].cmd \in {"init", "recover"} \/ (job[p].cmd = "update" /\ job[p].mnemonic # None)
    BY <1>0, <1>8, <2>1 DEF Shape, Keyed, Asking, WritingRoot, WritingInfo
  <2>3. \A q \in Process : q # p => job[q] = Idle
    BY <1>1, <1>8, <2>1, <2>2 DEF ShapeInv, Alone, UpdateAlone
  <2> QED BY <1>0, <1>8, <2>1, <2>2, <2>3 DEF Rehashing, Removing
<1>9. ASSUME Unhurt, disk.keyhash \in {Absent, Torn}, job[p].cmd \in {"init", "recover"}, job[p] # Idle,
             job[p].pc # "removeAll"
      PROVE  ~Readable(disk.root)
  <2>1. ~Removing /\ ~\E q \in Process : job[q] # Idle /\ Rehashing(job[q])
    BY <1>0, <1>9 DEF ShapeInv, Alone, Removing, Rehashing
  <2>2. Readable(disk.root) => disk.root \in Root /\ disk.keyhash = disk.root.pass
    BY <1>0, <1>1, <1>9, <2>1 DEF Opens, Readable, File
  <2> QED BY <1>2, <1>9, <2>2 DEF Root
<1>10. CASE CreateKeyhash(p)
  <2>0. job[p].pc = "hashCreate" /\ hurt' = hurt
    BY <1>10 DEF CreateKeyhash
  <2>1. CASE disk.keyhash # Absent
    <3>1. Become(p, Idle) /\ disk' = disk
      BY <1>10, <2>1 DEF CreateKeyhash
    <3>2. Unhurt => ~Rehashing(job[p])
      BY <1>0, <1>1, <2>0, <2>1 DEF Keyed, Rehashing
    <3>3. Unhurt' => Unhurt
      BY <2>0 DEF Unhurt
    <3> QED BY <1>0, <2>0, <3>1, <3>2, <3>3, PassKept
  <2>2. CASE disk.keyhash = Absent
    <3> DEFINE j == [job[p] EXCEPT !.pc = "hashWrite"]
    <3>1. Become(p, j) /\ disk'.root = disk.root /\ disk'.keyhash = Torn
      BY <1>0, <1>10, <2>2 DEF CreateKeyhash, Disk
    <3>2. j \in Job /\ j.pc = "hashWrite" /\ j.cmd = job[p].cmd /\ j.mnemonic = job[p].mnemonic /\ j.password = job[p].password
      BY <1>0 DEF Job, PC
    <3> HIDE DEF j
    <3>3. job'[p] = j /\ \A q \in Process : q # p => job'[q] = job[q]
      BY <1>0, <3>1, BecomeJob
    <3> SUFFICES ASSUME Unhurt
                 PROVE  UpdateAlone' /\ Opens' /\ \A q \in Process : job'[q] # Idle => Keyed(job[q])'
      BY <1>7, <2>0
    <3>4. /\ job[p] # Idle /\ \A q \in Process : q # p => job[q] = Idle
          /\ job[p].cmd \in {"init", "recover"} \/ (job[p].cmd = "update" /\ job[p].mnemonic # None)
      BY <1>8, <2>0
    <3>5. UpdateAlone' /\ j # Idle
      BY <1>0, <3>2, <3>3, <3>4 DEF UpdateAlone
    <3>6. Rehashing(j) => (Readable(disk.root) => disk.root.pass = j.password)
      BY <1>1, <2>0, <3>2, <3>4 DEF Keyed, Rehashing
    <3>7. Keyed(job[p])'
      BY <3>1, <3>2, <3>3, <3>4, <3>6 DEF Keyed, Asking, WritingRoot, Readable
    <3>8. Opens'
      <4>1. CASE job[p].cmd = "update"
        BY <3>2, <3>3, <3>5, <4>1 DEF Opens, Rehashing
      <4>2. CASE job[p].cmd \in {"init", "recover"}
        <5>1. ~Readable(disk'.root)
          BY <1>9, <2>0, <2>2, <3>1, <3>4, <4>2 DEF Readable
        <5> QED BY <5>1 DEF Opens, Readable
      <4> QED BY <3>4, <4>1, <4>2
    <3> QED BY <3>3, <3>4, <3>5, <3>7, <3>8
  <2> QED BY <2>1, <2>2
<1>11. CASE WriteKeyhash(p)
  <2>0. job[p].pc \in {"hashWrite", "hashLost"} /\ hurt' = hurt /\ disk'.root = disk.root
    BY <1>0, <1>11 DEF WriteKeyhash, Disk
  <2> SUFFICES ASSUME Unhurt
               PROVE  UpdateAlone' /\ Opens' /\ \A q \in Process : job'[q] # Idle => Keyed(job[q])'
    BY <1>7, <2>0
  <2>1. job[p] # Idle /\ job[p].pc = "hashWrite" /\ disk.keyhash = Torn
    BY <1>0, <1>1, <2>0 DEF Keyed, ShapeInv, Alone
  <2>2. /\ job[p] # Idle /\ \A q \in Process : q # p => job[q] = Idle
        /\ job[p].cmd \in {"init", "recover"} \/ (job[p].cmd = "update" /\ job[p].mnemonic # None)
        /\ job[p].cmd \in {"init", "recover"} \/ Rehashing(job[p])
    BY <1>8, <2>1
  <2>3. disk'.keyhash = job[p].password /\ job[p].password \in Pass
    BY <1>0, <1>11, <2>1 DEF WriteKeyhash, Disk, Shape
  <2>4. CASE job[p].cmd = "update"
    <3>1. Become(p, Idle)
      BY <1>11, <2>2, <2>4 DEF WriteKeyhash
    <3>2. \A q \in Process : job'[q] = Idle
      BY <1>0, <2>2, <3>1, BecomeJob
    <3>3. Readable(disk.root) => disk.root.pass = job[p].password
      BY <1>1, <2>2, <2>4 DEF Keyed
    <3> QED BY <2>0, <2>3, <3>2, <3>3 DEF UpdateAlone, Opens, Readable
  <2>5. CASE job[p].cmd \in {"init", "recover"}
    <3>1. ~Readable(disk.root)
      BY <1>9, <2>1, <2>5
    <3>2. PICK j \in Job : Become(p, j) /\ (j = Idle \/ Accepted(p, job[p].password, j))
      BY <1>0, <1>11, <2>1, <2>3, <2>5, UnlockedShape DEF WriteKeyhash, Asking
    <3>3. job'[p] = j /\ \A q \in Process : q # p => job'[q] = Idle
      BY <1>0, <2>2, <3>2, BecomeJob
    <3>4. j = Idle \/ (j.cmd \in {"init", "recover"} /\ j.password = disk'.keyhash /\ j.pc = "rootTruncate")
      BY <2>3, <2>5, <3>2 DEF Accepted
    <3>5. Opens'
      BY <2>0, <3>1 DEF Opens, Readable
    <3>6. UpdateAlone' /\ \A q \in Process : job'[q] # Idle => Keyed(job[q])'
      BY <3>3, <3>4 DEF UpdateAlone, Keyed, Rehashing, Asking
    <3> QED BY <3>5, <3>6
  <2> QED BY <2>2, <2>4, <2>5
<1>12. CASE TruncateRoot(p)
  <2> DEFINE j == [job[p] EXCEPT !.pc = "rootWrite"]
  <2>1. /\ Become(p, j) /\ disk'.root = Torn /\ disk'.keyhash = disk.keyhash /\ hurt' = hurt
        /\ job[p].pc = "rootTruncate" /\ job[p] # Idle
    BY <1>0, <1>12 DEF TruncateRoot, Disk
  <2>2. /\ j.pc = "rootWrite" /\ j.cmd = job[p].cmd /\ j.mnemonic = job[p].mnemonic
        /\ j.password = job[p].password /\ j.root = job[p].root
    BY <1>0 DEF Job
  <2> HIDE DEF j
  <2>3. job'[p] = j /\ \A q \in Process : q # p => job'[q] = job[q]
    BY <1>0, <2>1, BecomeJob
  <2> SUFFICES ASSUME Unhurt
               PROVE  UpdateAlone' /\ Opens' /\ \A q \in Process : job'[q] # Idle => Keyed(job[q])'
    BY <1>7, <2>1
  <2>4. UpdateAlone'
    BY <1>1, <2>1, <2>2, <2>3 DEF UpdateAlone
  <2>5. Opens'
    BY <2>1 DEF Opens, Readable
  <2>6. Keyed(job[p])'
    BY <1>1, <2>1, <2>2, <2>3 DEF Keyed, Rehashing, Asking, WritingRoot
  <2>7. \A q \in Process : q # p /\ job'[q] # Idle => Keyed(job[q])'
    BY <1>1, <2>1, <2>3 DEF Keyed, Readable
  <2> QED BY <2>4, <2>5, <2>6, <2>7
<1>13. CASE WriteRoot(p)
  <2> DEFINE j == AfterRoot(p)
             new == [pass |-> job[p].password, mnemonic |-> job[p].mnemonic, index |-> StoredIndex(p)]
  <2>1. /\ Become(p, j) /\ disk'.root \in {new, Torn} /\ disk'.keyhash = disk.keyhash
        /\ hurt \subseteq hurt' /\ job[p].pc = "rootWrite" /\ job[p] # Idle
    BY <1>0, <1>13 DEF WriteRoot, Disk, Overwritten
  <2>2. /\ j = Idle \/ /\ j.cmd = job[p].cmd /\ j.mnemonic = job[p].mnemonic
                       /\ j.password = job[p].password /\ j.root = job[p].root
                       /\ j.pc \in {"confirm", "hashRemove", "exists"}
        /\ job[p].cmd = "update" => j.pc = "hashRemove" /\ j # Idle
        /\ job[p].cmd # "update" => j.pc # "hashRemove"
    BY <1>0, <2>1 DEF AfterRoot, Job, Shape
  <2>3. new.pass = job[p].password
    OBVIOUS
  <2> HIDE DEF j, new
  <2>4. job'[p] = j /\ \A q \in Process : q # p => job'[q] = job[q]
    BY <1>0, <2>1, BecomeJob
  <2> SUFFICES ASSUME Unhurt
               PROVE  UpdateAlone' /\ Opens' /\ \A q \in Process : job'[q] # Idle => Keyed(job[q])'
    BY <1>7, <2>1
  <2>5. Keyed(job[p]) /\ (Readable(disk'.root) => disk'.root.pass = job[p].password)
    BY <1>1, <2>1, <2>3 DEF Readable
  <2>6. UpdateAlone'
    BY <1>1, <2>1, <2>2, <2>4 DEF UpdateAlone
  <2>7. Opens'
    <3>1. CASE job[p].cmd = "update"
      BY <2>2, <2>4, <3>1 DEF Opens, Rehashing
    <3>2. CASE job[p].cmd # "update"
      <4>1. job[p].password = disk.keyhash
        BY <1>0, <2>1, <2>5, <3>2 DEF Keyed, Shape, WritingRoot, Asking
      <4> QED BY <2>1, <2>5, <4>1 DEF Opens, Readable
    <3> QED BY <3>1, <3>2
  <2>8. ASSUME j # Idle PROVE Keyed(job[p])'
    <3>1. CASE job[p].cmd = "update"
      <4>1. job[p].mnemonic # None
        BY <1>0, <1>2, <2>1, <3>1 DEF Shape, Job, Asking, WritingRoot
      <4> QED BY <2>1, <2>2, <2>4, <2>5, <2>8, <3>1, <4>1 DEF Keyed, WritingRoot, Asking, Readable
    <3>2. CASE job[p].cmd # "update"
      BY <2>1, <2>2, <2>4, <2>5, <2>8, <3>2 DEF Keyed, Rehashing, WritingRoot, Asking
    <3> QED BY <3>1, <3>2
  <2>9. ASSUME NEW q \in Process, q # p, job'[q] # Idle PROVE Keyed(job[q])'
    <3>1. job[q].cmd # "update" /\ Keyed(job[q])
      BY <1>1, <2>1, <2>4, <2>9 DEF UpdateAlone
    <3> QED BY <2>1, <2>4, <2>9, <3>1 DEF Keyed, Rehashing
  <2> QED BY <2>4, <2>6, <2>7, <2>8, <2>9
<1>14. ASSUME NEW ok \in BOOLEAN, confirmMnemonic(p, ok)
       PROVE  PassInv'
  <2> DEFINE j == [job[p] EXCEPT !.pc = "removeAll"]
  <2>1. /\ Become(p, j) \/ Become(p, Idle)
        /\ disk' = disk /\ hurt' = hurt /\ job[p].pc = "confirm" /\ job[p] # Idle
    BY <1>0, <1>14 DEF confirmMnemonic
  <2>2. j \in Job /\ j.pc = "removeAll" /\ j.cmd = job[p].cmd
    BY <1>0 DEF Job, PC
  <2>3. Keyed(j)
    <3>1. j.cmd \in {"init", "recover"}
      BY <1>0, <2>1, <2>2 DEF Shape, Asking, WritingRoot, WritingInfo
    <3> QED BY <2>2, <3>1 DEF Keyed, Rehashing, WritingRoot
  <2> HIDE DEF j
  <2> QED BY <1>0, <2>1, <2>2, <2>3, PassKept DEF Rehashing
<1>15. CASE RemoveAll(p)
  <2>1. /\ job[p].pc = "removeAll" /\ hurt' = hurt
        /\ \A q \in Process : q # p => job'[q] = job[q] /\ job[q] = Idle
        /\ job' = job \/ (disk' = disk /\ disk = NoFiles /\ job'[p] = Idle)
    BY <1>15, RemoveAllParts
  <2>2. job[p].cmd \in {"init", "recover"}
    BY <1>0, <2>1 DEF Shape, Asking, WritingRoot, WritingInfo
  <2>3. CASE job' = job
    <3>1. Keyed(job[p])'
      BY <2>1, <2>2, <2>3 DEF Keyed, Rehashing, WritingRoot
    <3>2. UpdateAlone' /\ Opens'
      BY <2>1, <2>2, <2>3 DEF UpdateAlone, Opens, Removing
    <3> QED BY <1>7, <2>1, <3>1, <3>2
  <2>4. CASE disk' = disk /\ disk = NoFiles /\ job'[p] = Idle
    <3>1. ~Readable(disk'.root)
      BY <2>4 DEF NoFiles, Readable
    <3>2. UpdateAlone' /\ Opens'
      BY <2>1, <2>4, <3>1 DEF UpdateAlone, Opens, Readable
    <3> QED BY <1>7, <2>1, <2>4, <3>2
  <2> QED BY <2>1, <2>3, <2>4
<1>16. CASE RemoveKeyhash(p)
  <2>0. job[p].pc = "hashRemove" /\ hurt' = hurt /\ job[p].cmd = "update"
    BY <1>0, <1>16 DEF RemoveKeyhash, Shape, Asking, WritingRoot, WritingInfo, Idle
  <2> SUFFICES ASSUME Unhurt
               PROVE  UpdateAlone' /\ Opens' /\ \A q \in Process : job'[q] # Idle => Keyed(job[q])'
    BY <1>7, <2>0
  <2>1. /\ job[p] # Idle /\ \A q \in Process : q # p => job[q] = Idle
        /\ job[p].mnemonic # None /\ disk.keyhash # Absent
    BY <1>1, <1>8, <2>0 DEF Keyed
  <2>2. /\ disk'.root = disk.root /\ disk'.keyhash = Absent
        /\ \A q \in Process : q # p => job'[q] = Idle
        /\ job'[p] = [job[p] EXCEPT !.pc = "hashCreate"]
    BY <1>0, <1>16, <2>1 DEF RemoveKeyhash, Reset, Disk
  <2>3. /\ job'[p].pc = "hashCreate" /\ job'[p].cmd = "update" /\ job'[p].mnemonic = job[p].mnemonic
        /\ job'[p].password = job[p].password
    BY <1>0, <2>0, <2>2 DEF Job
  <2>4. Readable(disk.root) => disk.root.pass = job[p].password
    BY <1>1, <2>0, <2>1 DEF Keyed, Rehashing
  <2>5. Keyed(job[p])'
    BY <2>1, <2>2, <2>3, <2>4 DEF Keyed, Readable, Asking, WritingRoot
  <2>6. UpdateAlone' /\ Opens'
    BY <1>0, <2>2, <2>3 DEF UpdateAlone, Opens, Rehashing
  <2> QED BY <2>2, <2>5, <2>6
<1>17. CASE CheckExists(p) \/ WriteInfo(p)
  <2>1. /\ job[p].pc \in WritingInfo \cup {"exists"} /\ disk'.root = disk.root /\ disk'.keyhash = disk.keyhash
        /\ \E j : /\ Become(p, j)
                  /\ j = Idle \/ \E c \in WritingInfo : j = [job[p] EXCEPT !.pc = c]
        /\ hurt \subseteq hurt'
    <3>1. CASE CheckExists(p)
      BY <3>1 DEF CheckExists, WritingInfo
    <3>2. CASE WriteInfo(p)
      <4>1. disk'.root = disk.root /\ disk'.keyhash = disk.keyhash /\ hurt' = hurt
        BY <3>2, WriteInfoParts
      <4> QED BY <3>2, <4>1 DEF WriteInfo, WritingInfo
    <3> QED BY <1>17, <3>1, <3>2
  <2>2. job[p] # Idle /\ job[p].cmd = "create"
    BY <2>1, WriterIs
  <2>3. PICK j : /\ Become(p, j)
                 /\ j = Idle \/ \E c \in WritingInfo : j = [job[p] EXCEPT !.pc = c]
    BY <2>1
  <2>4. ASSUME NEW c \in WritingInfo, j = [job[p] EXCEPT !.pc = c]
        PROVE  j \in Job /\ j.cmd = job[p].cmd /\ (Unhurt => Keyed(j))
    <3>1. j \in Job /\ j.pc = c /\ j.cmd = job[p].cmd /\ j.root = job[p].root
      BY <1>0, <2>4 DEF Job, PC, WritingInfo
    <3>2. Unhurt => job[p].root.pass = disk.keyhash
      BY <1>1, <2>2 DEF Keyed
    <3> QED BY <2>2, <3>1, <3>2 DEF Keyed, Rehashing, Asking, WritingRoot, WritingInfo
  <2>5. j \in Job /\ (j = Idle \/ (j.cmd = job[p].cmd /\ (Unhurt => Keyed(j))))
    BY <1>0, <2>3, <2>4
  <2>6. Unhurt' => Unhurt
    BY <2>1 DEF Unhurt
  <2> QED BY <2>1, <2>2, <2>3, <2>5, <2>6, PassKept DEF Rehashing, WritingInfo
<1>18. CASE Crash(p)
  <2>1. Become(p, Idle) /\ disk' = disk /\ hurt \subseteq hurt'
    BY <1>18 DEF Crash
  <2>2. Unhurt' => ~Rehashing(job[p]) /\ job[p].pc # "removeAll"
    BY <1>18 DEF Crash, HalfDone, Unhurt, Rehashing
  <2> QED BY <1>0, <2>1, <2>2, PassKept
<1> QED BY <1>3, <1>5, <1>6, <1>10, <1>11, <1>12, <1>13, <1>14, <1>15, <1>16, <1>17, <1>18 DEF Step

\* The passphrase of the prompt decrypts the root record between commands:
\* PassphraseOpens for every wallet.
THEOREM PassphraseAlwaysOpens == WalletSpec => []PassphraseOpens
<1>1. WalletInit => PassInv
  <2> SUFFICES ASSUME WalletInit PROVE PassInv
    OBVIOUS
  <2>1. (\A p \in Process : job[p] = Idle) /\ ~Readable(disk.root)
    BY DEF WalletInit, NoFiles, Readable
  <2> QED BY <2>1 DEF PassInv
<1>2. ShapeInv /\ PassInv /\ [WalletNext]_vars => PassInv'
  <2> SUFFICES ASSUME ShapeInv, PassInv, [WalletNext]_vars PROVE PassInv'
    OBVIOUS
  <2>1. CASE UNCHANGED vars
    BY <2>1 DEF vars, PassInv, Keyed, Removing, Readable
  <2> QED BY <2>1, PassNext DEF WalletNext
<1>3. PassInv => PassphraseOpens
  <2> SUFFICES ASSUME PassInv, \A p \in Process : job[p] = Idle, HasInit,
                      hurt \cap {"passphrase", "removal"} = {}
               PROVE  disk.keyhash = disk.root.pass
    BY DEF PassphraseOpens
  <2>1. ~Removing
    BY IdleJob DEF Removing
  <2> QED BY <2>1 DEF PassInv, HasInit
<1> QED BY <1>1, <1>2, <1>3, ShapeInit, ShapeNext, PTL DEF WalletSpec

-----------------------------------------------------------------------------
(* The root record, the keys and their mnemonic *)

\* A command goes on from job j to job k without writing the root or a key.
Goes(j, k) ==
    /\ j # Idle /\ k # Idle /\ k.cmd = j.cmd /\ k.root = j.root
    /\ \/ /\ j.pc \in Asking /\ k.pc = "rootTruncate"
          /\ j.cmd \in {"init", "recover"} => k.mnemonic = j.mnemonic
          /\ j.cmd \notin {"init", "recover"} => j.root \in Root /\ k.mnemonic = j.root.mnemonic
          /\ j.cmd = "update" => j.mnemonic = None /\ k.index = j.root.index
       \/ /\ k.mnemonic = j.mnemonic /\ k.index = j.index /\ k.name = j.name
          /\ \/ j.pc \in Asking /\ k.pc \in Asking
             \/ <<j.pc, k.pc>> \in {<<"confirm", "removeAll">>, <<"hashRemove", "hashCreate">>,
                                    <<"exists", "infoTruncate">>}

\* A step of p after which the root record and the keys are what they were: the
\* command goes on, or ends, which in a crash may leave something half done.
Onward(p) ==
    /\ disk'.root = disk.root /\ disk'.info = disk.info /\ disk'.addr = disk.addr
    /\ hurt \subseteq hurt'
    /\ \A q \in Process : q # p => job'[q] = job[q] \/ Goes(job[q], job'[q])
    /\ \/ Goes(job[p], job'[p])
       \/ /\ job'[p] = Idle
          /\ job[p].pc = "rootWrite" => "root" \in hurt'
          /\ job[p].pc = "removeAll" => "removal" \in hurt'
          /\ job[p].pc = "addrTruncate" => "address" \in hurt'

\* Only four actions write the root record, the info records or the address
\* entries.
LEMMA OnwardSteps ==
    ASSUME ShapeInv, NEW p \in Process, Step(p) \/ Crash(p)
    PROVE  Onward(p) \/ TruncateRoot(p) \/ WriteRoot(p) \/ WriteInfo(p) \/ RemoveAll(p)
<1>0. /\ disk \in Disk /\ job \in [Process -> Job] /\ job[p] \in Job /\ Shape(job[p])
      /\ Idle \in Job /\ Idle.pc = "idle"
  BY TypeIs, IdleJob DEF ShapeInv
<1>1. ASSUME NEW j, Become(p, j), hurt \subseteq hurt',
             disk'.root = disk.root, disk'.info = disk.info, disk'.addr = disk.addr,
             \/ Goes(job[p], j)
             \/ j = Idle /\ job[p].pc \notin {"rootWrite", "removeAll", "addrTruncate"}
      PROVE  Onward(p)
  BY <1>0, <1>1, BecomeJob DEF Onward
<1>2. ASSUME NEW x \in Pass, Unlocked(p, x), job[p].pc \in Asking, disk'.info = disk.info,
             disk'.root = disk.root, disk'.addr = disk.addr, hurt' = hurt,
             job[p].cmd = "update" => job[p].mnemonic = None
      PROVE  Onward(p)
  <2>1. PICK j \in Job : Become(p, j) /\ (j = Idle \/ Accepted(p, x, j))
    BY <1>0, <1>2, UnlockedShape
  <2>2. j = Idle \/ Goes(job[p], j)
    BY <1>0, <1>2, <2>1, WalletAssumption DEF Accepted, Goes, Asking, Shape
  <2> QED BY <1>1, <1>2, <2>1, <2>2 DEF Asking
<1>3. CASE Unlock(p)
  <2>1. /\ job[p].pc = "unlock" /\ disk' = disk /\ hurt' = hurt
        /\ Become(p, Idle) \/ (disk.keyhash \in Pass /\ Unlocked(p, disk.keyhash))
    BY <1>0, <1>3 DEF Unlock, Disk, File
  <2>2. job[p].cmd = "update" => job[p].mnemonic = None
    BY <1>0, <2>1 DEF Shape, Job
  <2> QED BY <1>1, <1>2, <2>1, <2>2 DEF Asking
<1>4. CASE WriteKeyhash(p)
  <2>1. /\ job[p].pc \in {"hashWrite", "hashLost"} /\ hurt' = hurt
        /\ \/ Become(p, Idle)
           \/ Unlocked(p, job[p].password) /\ (job[p].cmd = "update" => job[p].mnemonic = None)
    BY <1>0, <1>4 DEF WriteKeyhash
  <2>2. disk'.info = disk.info /\ disk'.addr = disk.addr /\ disk'.root = disk.root
    BY <1>0, <1>4 DEF WriteKeyhash, Disk
  <2>3. job[p].password \in Pass
    BY <1>0, <2>1 DEF Shape
  <2> QED BY <1>1, <1>2, <2>1, <2>2, <2>3 DEF Asking
<1>5. ASSUME NEW x \in Pass, ChoosePassphrase(p, x)
      PROVE  Onward(p)
  <2> DEFINE j == [job[p] EXCEPT !.pc = "hashCreate", !.password = x]
  <2>1. job[p].pc = "unlock" /\ Become(p, j) /\ disk' = disk /\ hurt' = hurt
    BY <1>5 DEF ChoosePassphrase
  <2>2. Goes(job[p], j)
    BY <1>0, <2>1 DEF Job, Goes, Asking
  <2> HIDE DEF j
  <2> QED BY <1>1, <2>1, <2>2
<1>6. CASE CreateKeyhash(p)
  <2> DEFINE j == [job[p] EXCEPT !.pc = "hashWrite"]
  <2>1. job[p].pc = "hashCreate" /\ (Become(p, j) \/ Become(p, Idle)) /\ hurt' = hurt
    BY <1>6 DEF CreateKeyhash
  <2>2. disk'.info = disk.info /\ disk'.addr = disk.addr /\ disk'.root = disk.root
    BY <1>0, <1>6 DEF CreateKeyhash, Disk
  <2>3. Goes(job[p], j)
    BY <1>0, <2>1 DEF Job, Goes, Asking
  <2> HIDE DEF j
  <2> QED BY <1>1, <2>1, <2>2, <2>3
<1>7. ASSUME NEW ok \in BOOLEAN, confirmMnemonic(p, ok)
      PROVE  Onward(p)
  <2> DEFINE j == [job[p] EXCEPT !.pc = "removeAll"]
  <2>1. job[p].pc = "confirm" /\ (Become(p, j) \/ Become(p, Idle)) /\ hurt' = hurt /\ disk' = disk
    BY <1>7 DEF confirmMnemonic
  <2>2. Goes(job[p], j)
    BY <1>0, <2>1 DEF Job, Goes
  <2> HIDE DEF j
  <2> QED BY <1>1, <2>1, <2>2
<1>8. CASE RemoveKeyhash(p)
  <2>1. job[p].pc = "hashRemove" /\ hurt' = hurt
    BY <1>8 DEF RemoveKeyhash
  <2>2. CASE disk.keyhash = Absent
    BY <1>1, <1>8, <2>1, <2>2 DEF RemoveKeyhash, Reset
  <2>3. CASE disk.keyhash # Absent
    <3>1. disk'.info = disk.info /\ disk'.addr = disk.addr /\ disk'.root = disk.root
      BY <1>0, <1>8, <2>3 DEF RemoveKeyhash, Reset, Disk
    <3>2. Goes(job[p], job'[p])
      <4>1. job'[p] = [job[p] EXCEPT !.pc = "hashCreate"]
        BY <1>0, <1>8, <2>3 DEF RemoveKeyhash, Reset
      <4> QED BY <1>0, <2>1, <4>1 DEF Job, Goes
    <3>3. ASSUME NEW q \in Process, q # p, job'[q] # job[q] PROVE Goes(job[q], job'[q])
      <4>1. job[q].pc = "hashWrite" /\ job'[q] = [job[q] EXCEPT !.pc = "hashLost"] /\ job[q] \in Job
        BY <1>0, <1>8, <2>3, <3>3 DEF RemoveKeyhash, Reset
      <4> QED BY <1>0, <4>1 DEF Job, Goes, Asking
    <3> QED BY <2>1, <3>1, <3>2, <3>3 DEF Onward
  <2> QED BY <2>2, <2>3
<1>9. CASE CheckExists(p)
  <2> DEFINE j == [job[p] EXCEPT !.pc = "infoTruncate"]
  <2>1. job[p].pc = "exists" /\ (Become(p, j) \/ Become(p, Idle)) /\ hurt \subseteq hurt' /\ disk' = disk
    BY <1>9 DEF CheckExists
  <2>2. Goes(job[p], j)
    BY <1>0, <2>1 DEF Job, Goes
  <2> HIDE DEF j
  <2> QED BY <1>1, <2>1, <2>2
<1>10. CASE Crash(p)
  <2>1. Become(p, Idle) /\ disk' = disk /\ hurt' = hurt \cup HalfDone(p)
    BY <1>10 DEF Crash
  <2>2. /\ job[p].pc = "rootWrite" => "root" \in hurt'
        /\ job[p].pc = "removeAll" => "removal" \in hurt'
        /\ job[p].pc = "addrTruncate" => "address" \in hurt'
    BY <2>1 DEF HalfDone
  <2> QED BY <1>0, <2>1, <2>2, BecomeJob DEF Onward
<1> QED BY <1>3, <1>4, <1>5, <1>6, <1>7, <1>8, <1>9, <1>10 DEF Step

\* FamilyInv, taken apart: no info record is there.
NoKeys == \A n \in Name : ~Readable(disk.info[n])

\* The root record is there, or being written, or there is nothing it could
\* be missed for.
RootKept == Readable(disk.root) \/ (\E p \in Process : job[p].pc = "rootWrite") \/ Bare

\* The parts are FamilyInv.
LEMMA FamilyIs ==
    FamilyInv <=> ("root" \notin hurt =>
                     /\ \E m \in Mnemonic \cup {None} : Family(m)
                     /\ RootKept
                     /\ \A p \in Process :
                          job[p] # Idle /\ job[p].cmd \in {"init", "recover"} => NoKeys)
BY DEF FamilyInv, RootKept, NoKeys

\* The fields that carry a mnemonic, in a command that goes on.
LEMMA GoesFamily ==
    ASSUME NEW j \in Job, NEW k \in Job, NEW m, Goes(j, k),
           j.root \in Root => j.root.mnemonic = m, j.mnemonic # None => j.mnemonic = m
    PROVE  /\ k.root \in Root => k.root.mnemonic = m
           /\ k.mnemonic # None => k.mnemonic = m
           /\ j.pc # "rootWrite"
BY DEF Goes, Asking

\* As long as no root record is lost: the step keeps FamilyInv.
LEMMA FamilyNext ==
    ASSUME ShapeInv, FamilyInv, NEW p \in Process, Command(p) \/ Step(p) \/ Crash(p)
    PROVE  FamilyInv'
<1>0. /\ disk \in Disk /\ job \in [Process -> Job] /\ job[p] \in Job /\ Shape(job[p])
      /\ Idle \in Job /\ Idle.pc = "idle" /\ Idle.root = None /\ Idle.mnemonic = None
      /\ ShapeInv' /\ disk' \in Disk /\ job' \in [Process -> Job]
  <2>1. ShapeInv'
    BY ShapeNext DEF WalletNext
  <2>2. disk' \in Disk /\ job' \in [Process -> Job]
    BY <2>1 DEF ShapeInv, WalletTypeOK, Disk, Job
  <2>3. Idle.root = None /\ Idle.mnemonic = None
    BY DEF Idle
  <2> QED BY <2>1, <2>2, <2>3, TypeIs, IdleJob DEF ShapeInv
<1>1. None \notin Mnemonic /\ None \notin Root /\ {Absent, Torn} \cap (Key \cup Root) = {}
  BY WalletAssumption, MarkersAssumption
<1>2. ASSUME hurt \subseteq hurt',
             ASSUME "root" \notin hurt', NEW m \in Mnemonic \cup {None}, Family(m), RootKept,
                    \A q \in Process : job[q] # Idle /\ job[q].cmd \in {"init", "recover"} => NoKeys
             PROVE  /\ \E m2 \in Mnemonic \cup {None} : Family(m2)'
                    /\ RootKept'
                    /\ \A q \in Process : job'[q] # Idle /\ job'[q].cmd \in {"init", "recover"} => NoKeys'
      PROVE  FamilyInv'
  <2> SUFFICES ASSUME "root" \notin hurt'
               PROVE  /\ \E m2 \in Mnemonic \cup {None} : Family(m2)'
                      /\ RootKept'
                      /\ \A q \in Process : job'[q] # Idle /\ job'[q].cmd \in {"init", "recover"} => NoKeys'
    BY DEF FamilyInv, RootKept, NoKeys
  <2> QED BY <1>2, FamilyIs
<1>3. CASE Command(p)
  <2>1. PICK j \in Job : Begin(p, j) /\ Shape(j) /\ Fresh(j)
    BY <1>3, CommandJob
  <2>2. disk' = disk /\ hurt \subseteq hurt' /\ job[p] = Idle /\ Become(p, j)
    BY <1>3, <2>1, CommandJob DEF Begin
  <2>3. job'[p] = j /\ \A q \in Process : q # p => job'[q] = job[q]
    BY <1>0, <2>2, BecomeJob
  <2>4. ASSUME "root" \notin hurt', NEW m \in Mnemonic \cup {None}, Family(m), RootKept,
               \A q \in Process : job[q] # Idle /\ job[q].cmd \in {"init", "recover"} => NoKeys
        PROVE  /\ \E m2 \in Mnemonic \cup {None} : Family(m2)'
               /\ RootKept'
               /\ \A q \in Process : job'[q] # Idle /\ job'[q].cmd \in {"init", "recover"} => NoKeys'
    <3>1. CASE j.cmd \in {"init", "recover"}
      <4>1. \A q \in Process : q # p => job[q] = Idle
        BY <2>1, <3>1 DEF Begin
      <4>2. ~Readable(disk.root) /\ j.mnemonic \in Mnemonic /\ j.root = None
        BY <2>1, <3>1 DEF Fresh, HasInit
      <4>3. Bare
        BY <1>0, <2>2, <2>4, <4>1, <4>2 DEF RootKept
      <4>4. Bare' /\ NoKeys'
        BY <2>2, <2>3, <3>1, <4>1, <4>3 DEF Bare, NoKeys, Readable
      <4>5. Family(j.mnemonic)'
        <5>1. \A q \in Process : q # p => job'[q] = Idle
          BY <2>3, <4>1
        <5> QED BY <1>0, <1>1, <2>2, <2>3, <4>2, <4>4, <5>1 DEF Family, NoKeys, Readable
      <4> QED BY <4>2, <4>4, <4>5 DEF RootKept
    <3>2. CASE j.cmd \notin {"init", "recover"}
      <4>1. Readable(disk.root) /\ disk.root.mnemonic = m
        BY <2>1, <2>4, <3>2 DEF Fresh, HasInit, Family
      <4>2. j.root \in Root => j.root.mnemonic = m
        BY <1>1, <2>1, <2>4, <3>2, <4>1 DEF Fresh, Family
      <4>3. j.mnemonic # None => j.mnemonic = m
        BY <2>1, <2>4, <3>2, <4>1 DEF Fresh, Family, Has
      <4>4. Family(m)'
        BY <2>2, <2>3, <2>4, <4>1, <4>2, <4>3 DEF Family, Readable
      <4>5. RootKept'
        BY <2>2, <4>1 DEF RootKept, Readable
      <4>6. \A q \in Process : job'[q] # Idle /\ job'[q].cmd \in {"init", "recover"} => NoKeys'
        BY <2>2, <2>3, <2>4, <3>2 DEF NoKeys, Readable
      <4> QED BY <4>4, <4>5, <4>6
    <3> QED BY <3>1, <3>2
  <2> QED BY <1>2, <2>2, <2>4
<1>4. CASE Onward(p)
  <2>1. hurt \subseteq hurt' /\ disk'.root = disk.root /\ disk'.info = disk.info
    BY <1>4 DEF Onward
  <2>2. ASSUME "root" \notin hurt', NEW m \in Mnemonic \cup {None}, Family(m), RootKept,
               \A q \in Process : job[q] # Idle /\ job[q].cmd \in {"init", "recover"} => NoKeys
        PROVE  /\ \E m2 \in Mnemonic \cup {None} : Family(m2)'
               /\ RootKept'
               /\ \A q \in Process : job'[q] # Idle /\ job'[q].cmd \in {"init", "recover"} => NoKeys'
    <3>1. \A q \in Process : \/ job'[q] = job[q]
                             \/ job'[q] = Idle /\ job[q].pc # "rootWrite"
                             \/ Goes(job[q], job'[q])
      BY <1>4, <2>2 DEF Onward
    <3>2. ASSUME NEW q \in Process
          PROVE  /\ job'[q].root \in Root => job'[q].root.mnemonic = m
                 /\ job'[q].mnemonic # None => job'[q].mnemonic = m
                 /\ job[q].pc = "rootWrite" => job'[q].pc = "rootWrite"
                 /\ job'[q] # Idle => job[q] # Idle /\ job'[q].cmd = job[q].cmd
      <4>1. /\ job[q].root \in Root => job[q].root.mnemonic = m
            /\ job[q].mnemonic # None => job[q].mnemonic = m
            /\ job[q] \in Job /\ job'[q] \in Job
        BY <1>0, <2>2 DEF Family
      <4>2. CASE job'[q] = job[q]
        BY <4>1, <4>2
      <4>3. CASE job'[q] = Idle /\ job[q].pc # "rootWrite"
        BY <1>0, <1>1, <4>3
      <4>4. CASE Goes(job[q], job'[q])
        <5>1. job[q] # Idle /\ job'[q].cmd = job[q].cmd
          BY <4>4 DEF Goes
        <5> QED BY <4>1, <4>4, <5>1, GoesFamily
      <4> QED BY <3>1, <4>2, <4>3, <4>4
    <3>3. Family(m)'
      BY <2>1, <2>2, <3>2 DEF Family, Readable
    <3>4. RootKept'
      BY <2>1, <2>2, <3>2 DEF RootKept, Bare, Readable
    <3>5. \A q \in Process : job'[q] # Idle /\ job'[q].cmd \in {"init", "recover"} => NoKeys'
      BY <2>1, <2>2, <3>2 DEF NoKeys, Readable
    <3> QED BY <3>3, <3>4, <3>5
  <2> QED BY <1>2, <2>1, <2>2
<1>5. CASE TruncateRoot(p)
  <2> DEFINE j == [job[p] EXCEPT !.pc = "rootWrite"]
  <2>1. Become(p, j) /\ disk'.root = Torn /\ disk'.info = disk.info /\ hurt' = hurt /\ job[p] # Idle
    BY <1>0, <1>5 DEF TruncateRoot, Disk
  <2>2. j.pc = "rootWrite" /\ j.cmd = job[p].cmd /\ j.mnemonic = job[p].mnemonic /\ j.root = job[p].root
    BY <1>0 DEF Job
  <2> HIDE DEF j
  <2>3. job'[p] = j /\ \A q \in Process : q # p => job'[q] = job[q]
    BY <1>0, <2>1, BecomeJob
  <2>4. ASSUME "root" \notin hurt', NEW m \in Mnemonic \cup {None}, Family(m), RootKept,
               \A q \in Process : job[q] # Idle /\ job[q].cmd \in {"init", "recover"} => NoKeys
        PROVE  /\ \E m2 \in Mnemonic \cup {None} : Family(m2)'
               /\ RootKept'
               /\ \A q \in Process : job'[q] # Idle /\ job'[q].cmd \in {"init", "recover"} => NoKeys'
    <3>1. Family(m)'
      BY <2>1, <2>2, <2>3, <2>4 DEF Family, Readable
    <3>2. RootKept'
      BY <2>2, <2>3 DEF RootKept
    <3>3. \A q \in Process : job'[q] # Idle /\ job'[q].cmd \in {"init", "recover"} => NoKeys'
      BY <2>1, <2>2, <2>3, <2>4 DEF NoKeys, Readable
    <3> QED BY <3>1, <3>2, <3>3
  <2> QED BY <1>2, <2>1, <2>4
<1>6. CASE WriteRoot(p)
  <2> DEFINE j == AfterRoot(p)
             new == [pass |-> job[p].password, mnemonic |-> job[p].mnemonic, index |-> StoredIndex(p)]
  <2>1. /\ Become(p, j) /\ disk'.root \in {new, Torn} /\ disk'.info = disk.info
        /\ hurt \subseteq hurt' /\ job[p].pc = "rootWrite" /\ job[p] # Idle
        /\ disk'.root = Torn => "root" \in hurt'
    BY <1>0, <1>6 DEF WriteRoot, Disk, Overwritten
  <2>2. j = Idle \/ (j.cmd = job[p].cmd /\ j.mnemonic = job[p].mnemonic /\ j.root = job[p].root)
    BY <1>0 DEF AfterRoot, Job
  <2>3. job[p].mnemonic \in Mnemonic /\ new.mnemonic = job[p].mnemonic
    BY <1>0, <2>1 DEF Job, Shape, Asking, Root
  <2> HIDE DEF j, new
  <2>4. job'[p] = j /\ \A q \in Process : q # p => job'[q] = job[q]
    BY <1>0, <2>1, BecomeJob
  <2>5. ASSUME "root" \notin hurt', NEW m \in Mnemonic \cup {None}, Family(m), RootKept,
               \A q \in Process : job[q] # Idle /\ job[q].cmd \in {"init", "recover"} => NoKeys
        PROVE  /\ \E m2 \in Mnemonic \cup {None} : Family(m2)'
               /\ RootKept'
               /\ \A q \in Process : job'[q] # Idle /\ job'[q].cmd \in {"init", "recover"} => NoKeys'
    <3>1. disk'.root = new /\ disk'.root # Torn
      BY <2>1, <2>5
    <3>2. Readable(disk'.root)
      <4>1. disk'.root \in Root
        <5>1. job[p].password \in Pass /\ job[p].index \in 0 .. MaxIndex
          BY <1>0, <2>1 DEF Job, Shape
        <5> QED BY <2>3, <3>1, <5>1 DEF new, StoredIndex, Root
      <4> QED BY <1>1, <4>1 DEF Readable
    <3>3. new.mnemonic = m
      BY <1>1, <2>3, <2>5 DEF Family
    <3>4. Family(m)'
      <4>1. \A n \in Name : Readable(disk'.info[n]) => disk'.info[n].mnemonic = m
        BY <2>1, <2>5 DEF Family
      <4>2. /\ j.root \in Root => j.root.mnemonic = m
            /\ j.mnemonic # None => j.mnemonic = m
        BY <1>0, <1>1, <2>2, <2>5 DEF Family
      <4>3. \A q \in Process : /\ job'[q].root \in Root => job'[q].root.mnemonic = m
                               /\ job'[q].mnemonic # None => job'[q].mnemonic = m
        BY <2>4, <2>5, <4>2 DEF Family
      <4> QED BY <3>1, <3>3, <4>1, <4>3 DEF Family
    <3>5. RootKept'
      BY <3>2 DEF RootKept, Readable
    <3>6. \A q \in Process : job'[q] # Idle /\ job'[q].cmd \in {"init", "recover"} => NoKeys'
      BY <2>1, <2>2, <2>4, <2>5 DEF NoKeys, Readable
    <3> QED BY <3>4, <3>5, <3>6
  <2> QED BY <1>2, <2>1, <2>5
<1>7. CASE WriteInfo(p)
  <2> DEFINE n == job[p].name
             k == DerivedKey(p)
  <2>0. /\ n \in Name /\ k \in Key /\ job[p].pc \in WritingInfo /\ job[p] # Idle /\ job[p].cmd = "create"
        /\ hurt' = hurt /\ disk'.root = disk.root /\ \A q \in Process : q # p => job'[q] = job[q]
        /\ job'[p] = Idle \/ job'[p] = [job[p] EXCEPT !.pc = job'[p].pc]
    BY <1>7, WriteInfoParts, WriterIs
  <2>1. job'[p] = Idle \/ (/\ job'[p].cmd = job[p].cmd /\ job'[p].mnemonic = job[p].mnemonic
                           /\ job'[p].root = job[p].root)
    BY <1>0, <2>0 DEF Job
  <2>2. \A a \in Name : disk'.info[a] = disk.info[a] \/ disk'.info[a] \in {Torn, k}
    BY <1>0, <1>7, <2>0, WriteInfoParts DEF Disk, Overwritten
  <2>3. k.mnemonic = job[p].mnemonic /\ job[p].mnemonic \in Mnemonic
    BY <2>0 DEF DerivedKey, Key
  <2> HIDE DEF n, k
  <2>4. ASSUME "root" \notin hurt', NEW m \in Mnemonic \cup {None}, Family(m), RootKept,
               \A q \in Process : job[q] # Idle /\ job[q].cmd \in {"init", "recover"} => NoKeys
        PROVE  /\ \E m2 \in Mnemonic \cup {None} : Family(m2)'
               /\ RootKept'
               /\ \A q \in Process : job'[q] # Idle /\ job'[q].cmd \in {"init", "recover"} => NoKeys'
    <3>1. job[p].mnemonic = m
      BY <1>1, <2>3, <2>4 DEF Family
    <3>2. Family(m)'
      <4>1. \A a \in Name : Readable(disk'.info[a]) => disk'.info[a].mnemonic = m
        BY <2>2, <2>3, <2>4, <3>1 DEF Family, Readable
      <4> QED BY <1>0, <1>1, <2>0, <2>1, <2>4, <4>1 DEF Family, Readable
    <3>3. RootKept'
      <4>1. ~Bare
        BY <2>0 DEF Bare
      <4>2. ASSUME NEW q \in Process, job[q].pc = "rootWrite" PROVE job'[q].pc = "rootWrite"
        BY <2>0, <4>2 DEF WritingInfo
      <4> QED BY <2>0, <2>4, <4>1, <4>2 DEF RootKept, Readable
    <3>4. \A q \in Process : job'[q] # Idle => job'[q].cmd \notin {"init", "recover"}
      BY <2>0, <2>1 DEF ShapeInv, Alone
    <3> QED BY <3>2, <3>3, <3>4
  <2> QED BY <1>2, <2>0, <2>4
<1>8. CASE RemoveAll(p)
  <2>1. /\ job[p].pc = "removeAll" /\ hurt' = hurt
        /\ \A q \in Process : q # p => job'[q] = job[q] /\ job[q] = Idle
        /\ job'[p] = job[p] \/ job'[p] = Idle
        /\ disk'.root \in {disk.root, Absent}
        /\ \A n \in Name : disk'.info[n] \in {disk.info[n], Absent}
    BY <1>8, RemoveAllParts
  <2>2. job[p] # Idle /\ job[p].cmd \in {"init", "recover"}
    BY <1>0, <2>1 DEF Shape, Asking, WritingRoot, WritingInfo
  <2>3. ASSUME "root" \notin hurt', NEW m \in Mnemonic \cup {None}, Family(m), RootKept,
               \A q \in Process : job[q] # Idle /\ job[q].cmd \in {"init", "recover"} => NoKeys
        PROVE  /\ \E m2 \in Mnemonic \cup {None} : Family(m2)'
               /\ RootKept'
               /\ \A q \in Process : job'[q] # Idle /\ job'[q].cmd \in {"init", "recover"} => NoKeys'
    <3>1. NoKeys'
      BY <2>1, <2>2, <2>3 DEF NoKeys, Readable
    <3>2. Bare'
      BY <2>1, <2>2, <3>1 DEF Bare, NoKeys, Readable
    <3>3. Family(m)'
      BY <1>0, <1>1, <2>1, <2>3, <3>1 DEF Family, NoKeys, Readable
    <3> QED BY <3>1, <3>2, <3>3 DEF RootKept
  <2> QED BY <1>2, <2>1, <2>3
<1> QED BY <1>3, <1>4, <1>5, <1>6, <1>7, <1>8, OnwardSteps

\* Export: the mnemonic of the record it read is the root's.
LEMMA ExportNext ==
    ASSUME ShapeInv, FamilyInv, ExportMatches, NEW p \in Process, Command(p) \/ Step(p) \/ Crash(p)
    PROVE  ExportMatches'
<1>1. ASSUME NEW x, Exported(p, x), hurt' = hurt, job[p].pc \in Asking
      PROVE  ExportMatches'
  <2>1. CASE UNCHANGED exported
    BY <1>1, <2>1 DEF ExportMatches
  <2>2. CASE job[p].cmd = "export" /\ "root" \notin hurt
    <3>1. job[p].root \in Root /\ job[p].mnemonic \in Mnemonic
      BY <1>1, <2>2, IdleJob DEF ShapeInv, Shape, Asking
    <3>2. job[p].root.mnemonic = job[p].mnemonic
      BY <2>2, <3>1, WalletAssumption DEF FamilyInv, Family
    <3> QED BY <1>1, <3>2 DEF Exported, ExportMatches, DerivedKey
  <2> QED BY <1>1, <2>1, <2>2 DEF Exported, ExportMatches
<1>2. ASSUME UNCHANGED exported, hurt \subseteq hurt'
      PROVE  ExportMatches'
  BY <1>2 DEF ExportMatches
<1>3. CASE Command(p)
  <2>1. exported' = None
    BY <1>3, CommandJob DEF Begin
  <2> QED BY <2>1 DEF ExportMatches
<1>4. CASE Unlock(p) \/ WriteKeyhash(p)
  BY <1>1, <1>2, <1>4 DEF Unlock, WriteKeyhash, Asking
<1>5. CASE Crash(p)
  BY <1>2, <1>5 DEF Crash
<1>6. CASE Step(p) /\ ~Unlock(p) /\ ~WriteKeyhash(p)
  <2>1. UNCHANGED exported /\ hurt \subseteq hurt'
    BY <1>6 DEF Step, ChoosePassphrase, CreateKeyhash, TruncateRoot, WriteRoot, confirmMnemonic,
                RemoveAll, RemoveKeyhash, CheckExists, WriteInfo
  <2> QED BY <1>2, <2>1
<1> QED BY <1>3, <1>4, <1>5, <1>6

\* Export writes the key it was asked for: ExportMatches for every wallet.
THEOREM ExportsMatch == WalletSpec => []ExportMatches
<1>1. WalletInit => FamilyInv /\ ExportMatches
  <2> SUFFICES ASSUME WalletInit PROVE FamilyInv /\ ExportMatches
    OBVIOUS
  <2>1. \A p \in Process : job[p] = Idle
    BY DEF WalletInit
  <2>2. ~Readable(disk.root) /\ \A n \in Name : ~Readable(disk.info[n])
    BY DEF WalletInit, NoFiles, Readable
  <2>3. Idle.root = None /\ Idle.mnemonic = None /\ None \notin Root
    BY MarkersAssumption DEF Idle
  <2>4. Family(None)
    BY <2>1, <2>2, <2>3 DEF Family
  <2> QED BY <2>1, <2>2, <2>4 DEF WalletInit, FamilyInv, Bare, ExportMatches
<1>2. ShapeInv /\ FamilyInv /\ [WalletNext]_vars => FamilyInv'
  <2> SUFFICES ASSUME ShapeInv, FamilyInv, [WalletNext]_vars PROVE FamilyInv'
    OBVIOUS
  <2>1. CASE UNCHANGED vars
    BY <2>1 DEF vars, FamilyInv, Family, Bare, Readable
  <2> QED BY <2>1, FamilyNext DEF WalletNext
<1>3. ShapeInv /\ FamilyInv /\ ExportMatches /\ [WalletNext]_vars => ExportMatches'
  <2> SUFFICES ASSUME ShapeInv, FamilyInv, ExportMatches, [WalletNext]_vars PROVE ExportMatches'
    OBVIOUS
  <2>1. CASE UNCHANGED vars
    BY <2>1 DEF vars, ExportMatches
  <2> QED BY <2>1, ExportNext DEF WalletNext
<1> QED BY <1>1, <1>2, <1>3, ShapeInit, ShapeNext, PTL DEF WalletSpec

-----------------------------------------------------------------------------
(* No key under two names *)

\* While no address entry is lost, every key is found by its address.
LEMMA ListedNext ==
    ASSUME ShapeInv, ListedInv, NEW p \in Process, Command(p) \/ Step(p) \/ Crash(p)
    PROVE  ListedInv'
<1>0. /\ disk \in Disk /\ job \in [Process -> Job] /\ job[p] \in Job /\ Idle.pc = "idle"
      /\ disk.info \in [Name -> File(Key)] /\ disk.addr \in [Key -> File(Name)]
  BY TypeIs, IdleJob DEF ShapeInv, Disk
<1>1. Absent # Torn /\ Absent \notin Name /\ Absent \notin Key
  BY WalletAssumption, MarkersAssumption
<1> DEFINE Found(n) ==
      \/ disk.addr[disk.info[n]] # Absent
      \/ \E q \in Process : job[q].pc = "addrTruncate" /\ job[q].name = n /\ DerivedKey(q) = disk.info[n]
<1>2. ASSUME hurt \subseteq hurt', disk'.info = disk.info, disk'.addr = disk.addr,
             "removal" \notin hurt' => (Removing => Removing'),
             "address" \notin hurt' => \A q \in Process : job[q].pc = "addrTruncate" => job'[q] = job[q]
      PROVE  ListedInv'
  <2> SUFFICES ASSUME {"address", "removal", "race"} \cap hurt' = {}, ~Removing',
                      NEW a \in Name, Readable(disk'.info[a])
               PROVE  \/ disk'.addr[disk'.info[a]] # Absent
                      \/ \E q \in Process : /\ job'[q].pc = "addrTruncate" /\ job'[q].name = a
                                            /\ DerivedKey(q)' = disk'.info[a]
    BY DEF ListedInv, Readable
  <2>1. {"address", "removal", "race"} \cap hurt = {} /\ ~Removing /\ Readable(disk.info[a])
    BY <1>2 DEF Readable
  <2>2. Found(a)
    BY <2>1 DEF ListedInv
  <2> QED BY <1>2, <2>2 DEF DerivedKey
<1>3. CASE Command(p)
  <2>1. PICK j \in Job : Begin(p, j) /\ Fresh(j)
    BY <1>3, CommandJob
  <2>2. disk' = disk /\ hurt \subseteq hurt' /\ job[p] = Idle /\ \A q \in Process : q # p => job'[q] = job[q]
    BY <1>0, <1>3, <2>1, CommandJob, BecomeJob DEF Begin
  <2>3. Removing => Removing'
    BY <1>0, <2>2 DEF Removing
  <2> QED BY <1>0, <1>2, <2>2, <2>3
<1>4. CASE Onward(p)
  <2>1. "removal" \notin hurt' => (Removing => Removing')
    BY <1>4 DEF Onward, Removing, Goes, Asking
  <2>2. "address" \notin hurt' => \A q \in Process : job[q].pc = "addrTruncate" => job'[q] = job[q]
    BY <1>4 DEF Onward, Goes, Asking
  <2> QED BY <1>2, <1>4, <2>1, <2>2 DEF Onward
<1>5. CASE TruncateRoot(p) \/ WriteRoot(p)
  <2>1. disk'.info = disk.info /\ disk'.addr = disk.addr /\ hurt \subseteq hurt'
    BY <1>0, <1>5 DEF TruncateRoot, WriteRoot, Disk
  <2>2. job[p].pc \notin {"removeAll", "addrTruncate"} /\ \A q \in Process : q # p => job'[q] = job[q]
    BY <1>0, <1>5, BecomeJob DEF TruncateRoot, WriteRoot
  <2>3. Removing => Removing'
    BY <2>2 DEF Removing
  <2> QED BY <1>2, <2>1, <2>2, <2>3
<1>6. CASE WriteInfo(p)
  <2> DEFINE n == job[p].name
             k == DerivedKey(p)
  <2>0. /\ n \in Name /\ k \in Key /\ ~Removing /\ job[p].pc \in WritingInfo
        /\ hurt' = hurt /\ \A q \in Process : q # p => job'[q] = job[q]
        /\ job'[p] = Idle \/ job'[p] = [job[p] EXCEPT !.pc = job'[p].pc]
    BY <1>6, WriteInfoParts, WriterIs
  <2> SUFFICES ASSUME {"address", "removal", "race"} \cap hurt = {},
                      \A a \in Name : Readable(disk.info[a]) => Found(a),
                      NEW a \in Name, Readable(disk'.info[a])
               PROVE  \/ disk'.addr[disk'.info[a]] # Absent
                      \/ \E q \in Process : /\ job'[q].pc = "addrTruncate" /\ job'[q].name = a
                                            /\ DerivedKey(q)' = disk'.info[a]
    BY <2>0 DEF ListedInv, Readable
  <2>1. ASSUME disk'.info[a] = disk.info[a], \A b \in Key : disk.addr[b] # Absent => disk'.addr[b] # Absent,
               job[p].pc = "addrTruncate" => disk'.addr[k] # Absent
        PROVE  \/ disk'.addr[disk'.info[a]] # Absent
               \/ \E q \in Process : /\ job'[q].pc = "addrTruncate" /\ job'[q].name = a
                                     /\ DerivedKey(q)' = disk'.info[a]
    <3>1. Found(a) /\ disk.info[a] \in Key
      BY <1>0, <2>1 DEF Readable, File
    <3>2. CASE disk.addr[disk.info[a]] # Absent
      BY <2>1, <3>1, <3>2
    <3>3. ASSUME NEW q \in Process, job[q].pc = "addrTruncate", job[q].name = a, DerivedKey(q) = disk.info[a]
          PROVE  \/ disk'.addr[disk'.info[a]] # Absent
                 \/ \E r \in Process : /\ job'[r].pc = "addrTruncate" /\ job'[r].name = a
                                       /\ DerivedKey(r)' = disk'.info[a]
      <4>1. CASE q = p
        BY <2>1, <3>3, <4>1
      <4>2. CASE q # p
        BY <2>0, <2>1, <3>3, <4>2 DEF DerivedKey
      <4> QED BY <4>1, <4>2
    <3> QED BY <3>1, <3>2, <3>3
  <2>2. CASE job[p].pc = "infoTruncate"
    <3>1. disk'.info = [disk.info EXCEPT ![n] = Torn] /\ disk'.addr = disk.addr
      BY <1>6, <2>2, WriteInfoParts
    <3>2. disk'.info[a] = disk.info[a]
      BY <1>0, <3>1 DEF Readable
    <3> QED BY <2>1, <2>2, <3>1, <3>2
  <2>3. CASE job[p].pc = "infoWrite"
    <3>1. /\ job'[p].pc = "addrTruncate" /\ disk'.addr = disk.addr
          /\ \E info \in {k, Torn} : disk'.info = [disk.info EXCEPT ![n] = info]
      <4>1. \A info \in Overwritten(disk.info[n], k) : info \in {k, Torn}
        BY DEF Overwritten
      <4>2. /\ job'[p].pc = "addrTruncate" /\ disk'.addr = disk.addr
            /\ \E info \in Overwritten(disk.info[n], k) : disk'.info = [disk.info EXCEPT ![n] = info]
        BY <1>6, <2>3, WriteInfoParts
      <4> HIDE DEF n, k
      <4> QED BY <4>1, <4>2
    <3>2. disk'.info[a] = disk.info[a] \/ (a = n /\ disk'.info[a] = k)
      <4>1. PICK info \in {k, Torn} : disk'.info = [disk.info EXCEPT ![n] = info]
        BY <3>1
      <4> HIDE DEF k, n
      <4>2. disk'.info[a] = IF a = n THEN info ELSE disk.info[a]
        BY <1>0, <4>1
      <4> QED BY <4>1, <4>2 DEF Readable
    <3>3. job'[p].name = n /\ DerivedKey(p)' = k
      BY <1>0, <2>0, <3>1 DEF DerivedKey, Job
    <3> QED BY <2>1, <2>3, <3>1, <3>2, <3>3
  <2>4. CASE job[p].pc = "addrTruncate"
    <3>1. disk'.addr = [disk.addr EXCEPT ![k] = Torn] /\ disk'.info = disk.info
      BY <1>6, <2>4, WriteInfoParts
    <3> QED BY <1>0, <1>1, <2>0, <2>1, <3>1
  <2>5. CASE job[p].pc = "addrWrite"
    <3>1. disk'.info = disk.info /\ \E name \in {n, Torn} : disk'.addr = [disk.addr EXCEPT ![k] = name]
      <4>1. \A name \in Overwritten(disk.addr[k], n) : name \in {n, Torn}
        BY DEF Overwritten
      <4>2. /\ disk'.info = disk.info
            /\ \E name \in Overwritten(disk.addr[k], n) : disk'.addr = [disk.addr EXCEPT ![k] = name]
        BY <1>6, <2>5, WriteInfoParts
      <4> HIDE DEF n, k
      <4> QED BY <4>1, <4>2
    <3>2. PICK name \in {n, Torn} : disk'.addr = [disk.addr EXCEPT ![k] = name]
      BY <3>1
    <3>3. name # Absent
      BY <1>1, <2>0, <3>2
    <3> HIDE DEF k, n
    <3>4. \A b \in Key : disk'.addr[b] = IF b = k THEN name ELSE disk.addr[b]
      BY <1>0, <3>2
    <3> QED BY <2>1, <2>5, <3>1, <3>3, <3>4
  <2> QED BY <2>0, <2>2, <2>3, <2>4, <2>5 DEF WritingInfo
<1>7. CASE RemoveAll(p)
  <2>1. CASE job' = job
    BY <1>7, <2>1, RemoveAllParts DEF ListedInv, Removing
  <2>2. CASE disk' = disk /\ disk = NoFiles
    BY <2>2 DEF ListedInv, NoFiles, Readable
  <2> QED BY <1>7, <2>1, <2>2, RemoveAllParts
<1> QED BY <1>3, <1>4, <1>5, <1>6, <1>7, OnwardSteps

\* A step keeps the keys under different names unless it writes a key that is
\* already there.
LEMMA UniqueKept ==
    ASSUME ShapeInv, UniqueInfo, NEW p \in Process, Command(p) \/ Step(p) \/ Crash(p),
           WriteInfo(p) /\ job[p].pc = "infoWrite" =>
             \A n \in Name : n # job[p].name => disk.info[n] # DerivedKey(p)
    PROVE  UniqueInfo'
<1>0. disk \in Disk /\ job \in [Process -> Job] /\ disk.info \in [Name -> File(Key)]
  BY TypeIs DEF ShapeInv, Disk
<1>1. ASSUME \A n \in Name : disk'.info[n] = disk.info[n] \/ ~Readable(disk'.info[n])
      PROVE  UniqueInfo'
  BY <1>1 DEF UniqueInfo, Readable
<1>2. CASE Command(p)
  <2>1. disk' = disk
    BY <1>2, CommandJob
  <2> QED BY <1>1, <2>1
<1>3. CASE Onward(p)
  BY <1>1, <1>3 DEF Onward
<1>4. CASE TruncateRoot(p) \/ WriteRoot(p)
  <2>1. disk'.info = disk.info
    BY <1>0, <1>4 DEF TruncateRoot, WriteRoot, Disk
  <2> QED BY <1>1, <2>1
<1>5. CASE RemoveAll(p)
  <2>1. \A n \in Name : disk'.info[n] \in {disk.info[n], Absent}
    BY <1>5, RemoveAllParts
  <2> QED BY <1>1, <2>1 DEF Readable
<1>6. CASE WriteInfo(p) /\ job[p].pc # "infoWrite"
  <2>1. disk'.info = disk.info \/ disk'.info = [disk.info EXCEPT ![job[p].name] = Torn]
    BY <1>6, WriteInfoParts
  <2> QED BY <1>0, <1>1, <2>1 DEF Readable
<1>7. CASE WriteInfo(p) /\ job[p].pc = "infoWrite"
  <2> DEFINE n == job[p].name
             k == DerivedKey(p)
  <2>1. \E info \in Overwritten(disk.info[n], k) : disk'.info = [disk.info EXCEPT ![n] = info]
    BY <1>7, WriteInfoParts
  <2>2. \A info \in Overwritten(disk.info[n], k) : info \in {k, Torn}
    BY DEF Overwritten
  <2>3. \A a \in Name : a # n => disk.info[a] # k
    BY <1>7
  <2> HIDE DEF n, k
  <2>4. PICK info \in {k, Torn} : disk'.info = [disk.info EXCEPT ![n] = info]
    BY <2>1, <2>2
  <2>5. \A a \in Name : disk'.info[a] = IF a = n THEN info ELSE disk.info[a]
    BY <1>0, <2>4
  <2> QED BY <2>3, <2>4, <2>5 DEF UniqueInfo, Readable
<1> QED BY <1>2, <1>3, <1>4, <1>5, <1>6, <1>7, OnwardSteps

\* The invariant of KeysOnce when the address entries can be relied on.
UniqueInv == {"address", "removal", "race"} \cap hurt = {} => UniqueInfo

\* Every step keeps UniqueInv: writeInfo refuses a key whose address entry is
\* there.
LEMMA UniqueNext ==
    ASSUME ShapeInv, IndexInv, ListedInv, UniqueInv, NEW p \in Process, Command(p) \/ Step(p) \/ Crash(p)
    PROVE  UniqueInv'
<1>1. hurt \subseteq hurt'
  <2>1. CASE Command(p)
    BY <2>1, CommandJob DEF Begin
  <2>2. CASE TruncateRoot(p) \/ WriteRoot(p)
    BY <2>2 DEF TruncateRoot, WriteRoot
  <2>3. CASE WriteInfo(p)
    BY <2>3, WriteInfoParts
  <2>4. CASE RemoveAll(p)
    BY <2>4, RemoveAllParts
  <2> QED BY <2>1, <2>2, <2>3, <2>4, OnwardSteps DEF Onward
<1> SUFFICES ASSUME {"address", "removal", "race"} \cap hurt = {}, WriteInfo(p), job[p].pc = "infoWrite",
                    NEW n \in Name, n # job[p].name, disk.info[n] = DerivedKey(p)
             PROVE  FALSE
  BY <1>1, UniqueKept DEF UniqueInv
<1>2. DerivedKey(p) \in Key /\ ~Removing /\ job[p].pc \in WritingInfo
  BY WriterIs DEF WritingInfo
<1>3. Readable(disk.info[n])
  BY <1>2, MarkersAssumption DEF Readable
<1>4. disk.addr[DerivedKey(p)] = Absent
  BY <1>2 DEF IndexInv, Claimed
<1>5. PICK q \in Process : job[q].pc = "addrTruncate" /\ job[q].name = n /\ DerivedKey(q) = disk.info[n]
  BY <1>2, <1>3, <1>4 DEF ListedInv
<1>6. Disjoint(p, q)
  BY <1>2, <1>5 DEF IndexInv, WritingInfo
<1> QED BY <1>5, <1>6 DEF Disjoint

\* While no index was read twice, only exports overlap another command.
OneWriter ==
    \A p, q \in Process : p # q /\ job[p] # Idle /\ job[q] # Idle => "export" \in {job[p].cmd, job[q].cmd}

\* While no index is lost, every new key has an index of its own: the step keeps
\* OrderInv.
LEMMA OrderNext ==
    ASSUME ShapeInv, FamilyInv, OrderInv, NEW p \in Process, Command(p) \/ Step(p) \/ Crash(p)
    PROVE  OrderInv'
<1>0. /\ disk \in Disk /\ job \in [Process -> Job] /\ job[p] \in Job /\ Shape(job[p])
      /\ disk.info \in [Name -> File(Key)] /\ disk.root \in File(Root)
      /\ Idle.pc = "idle" /\ ShapeInv' /\ job' \in [Process -> Job] /\ disk'.info \in [Name -> File(Key)]
  <2>1. ShapeInv'
    BY ShapeNext DEF WalletNext
  <2>2. disk' \in Disk /\ job' \in [Process -> Job]
    BY <2>1 DEF ShapeInv, WalletTypeOK, Disk, Job
  <2> QED BY <2>1, <2>2, TypeIs, IdleJob DEF ShapeInv, Disk
<1>1. /\ MaxIndex \in Nat
      /\ \A n \in Name : Readable(disk.info[n]) => disk.info[n] \in Key /\ disk.info[n].index \in 0 .. MaxIndex
      /\ Readable(disk.root) => disk.root \in Root /\ disk.root.index \in 0 .. MaxIndex
  BY <1>0, WalletAssumption DEF Readable, File, Key, Root
<1>2. ASSUME hurt \subseteq hurt',
             ASSUME {"root", "index"} \cap hurt' = {}, {"root", "index"} \cap hurt = {}, OneWriter,
                    \A q \in Process : job[q] # Idle => Counting(job[q]),
                    Readable(disk.root) => UpTo(disk.root.index), UniqueInfo
             PROVE  /\ OneWriter'
                    /\ \A q \in Process : job'[q] # Idle => Counting(job[q])'
                    /\ Readable(disk'.root) => UpTo(disk.root.index)'
                    /\ WriteInfo(p) /\ job[p].pc = "infoWrite" => Below(job[p].index)
      PROVE  OrderInv'
  <2> SUFFICES ASSUME {"root", "index"} \cap hurt' = {}
               PROVE  /\ OneWriter' /\ UniqueInfo'
                      /\ \A q \in Process : job'[q] # Idle => Counting(job[q])'
                      /\ Readable(disk'.root) => UpTo(disk.root.index)'
    BY DEF OrderInv, OneWriter, Readable
  <2>1. /\ {"root", "index"} \cap hurt = {} /\ OneWriter /\ UniqueInfo
        /\ \A q \in Process : job[q] # Idle => Counting(job[q])
        /\ Readable(disk.root) => UpTo(disk.root.index)
    BY <1>2 DEF OrderInv, OneWriter
  <2>2. /\ OneWriter'
        /\ \A q \in Process : job'[q] # Idle => Counting(job[q])'
        /\ Readable(disk'.root) => UpTo(disk.root.index)'
        /\ WriteInfo(p) /\ job[p].pc = "infoWrite" => Below(job[p].index)
    BY <1>2, <2>1
  <2>3. ASSUME WriteInfo(p), job[p].pc = "infoWrite", NEW n \in Name, disk.info[n] = DerivedKey(p)
        PROVE  FALSE
    <3>1. DerivedKey(p) \in Key
      BY <2>3, WriterIs DEF WritingInfo
    <3>2. Readable(disk.info[n]) /\ disk.info[n].index = job[p].index
      BY <2>3, <3>1, MarkersAssumption DEF Readable, DerivedKey
    <3> QED BY <1>1, <2>2, <2>3, <3>2 DEF Below
  <2> QED BY <2>1, <2>2, <2>3, UniqueKept
<1>3. CASE Command(p)
  <2>1. PICK j \in Job : Begin(p, j) /\ Fresh(j)
    BY <1>3, CommandJob
  <2>2. /\ disk' = disk /\ hurt \subseteq hurt' /\ job[p] = Idle
        /\ job'[p] = j /\ \A q \in Process : q # p => job'[q] = job[q]
    BY <1>0, <1>3, <2>1, CommandJob, BecomeJob DEF Begin
  <2>3. ASSUME {"root", "index"} \cap hurt' = {}, {"root", "index"} \cap hurt = {}, OneWriter,
               \A q \in Process : job[q] # Idle => Counting(job[q]),
               Readable(disk.root) => UpTo(disk.root.index), UniqueInfo
        PROVE  /\ OneWriter'
               /\ \A q \in Process : job'[q] # Idle => Counting(job[q])'
               /\ Readable(disk'.root) => UpTo(disk.root.index)'
               /\ WriteInfo(p) /\ job[p].pc = "infoWrite" => Below(job[p].index)
    <3>1. \A q \in Process : q # p /\ job[q] # Idle => "export" \in {j.cmd, job[q].cmd}
      BY <2>1, <2>3 DEF Begin
    <3>2. OneWriter'
      BY <2>2, <2>3, <3>1 DEF OneWriter
    <3>3. Counting(j)
      <4>1. Readable(disk.root) => disk.root.mnemonic # None
        BY <1>1, WalletAssumption DEF Root
      <4> QED BY <2>1, <2>3, <4>1 DEF Fresh, HasInit, Counting, WritingRoot, Asking
    <3>4. \A q \in Process : job'[q] # Idle => Counting(job[q])'
      BY <2>2, <2>3, <3>3 DEF Counting, Below, UpTo, Readable
    <3>5. Readable(disk'.root) => UpTo(disk.root.index)'
      BY <2>2, <2>3 DEF UpTo, Readable
    <3> QED BY <1>0, <2>2, <3>2, <3>4, <3>5
  <2> QED BY <1>2, <2>2, <2>3
<1>4. CASE Onward(p)
  <2>1. hurt \subseteq hurt' /\ disk'.root = disk.root /\ disk'.info = disk.info
    BY <1>4 DEF Onward
  <2>2. \A q \in Process : job'[q] = job[q] \/ job'[q] = Idle \/ Goes(job[q], job'[q])
    BY <1>4 DEF Onward
  <2>3. ASSUME {"root", "index"} \cap hurt' = {}, {"root", "index"} \cap hurt = {}, OneWriter,
               \A q \in Process : job[q] # Idle => Counting(job[q]),
               Readable(disk.root) => UpTo(disk.root.index), UniqueInfo
        PROVE  /\ OneWriter'
               /\ \A q \in Process : job'[q] # Idle => Counting(job[q])'
               /\ Readable(disk'.root) => UpTo(disk.root.index)'
               /\ WriteInfo(p) /\ job[p].pc = "infoWrite" => Below(job[p].index)
    <3>1. OneWriter'
      BY <2>2, <2>3 DEF OneWriter, Goes
    <3>2. ASSUME NEW q \in Process, job'[q] # Idle PROVE Counting(job'[q])
      <4>1. CASE job'[q] = job[q]
        BY <2>3, <3>2, <4>1
      <4>2. CASE Goes(job[q], job'[q])
        <5>1. job[q] # Idle /\ Counting(job[q]) /\ Shape(job[q]) /\ job[q] \in Job
          BY <1>0, <2>3, <4>2 DEF Goes, ShapeInv
        <5>2. job[q].pc = "hashRemove" => job[q].cmd = "update" /\ job[q].mnemonic # None
          BY <5>1 DEF Shape, Asking, WritingRoot, WritingInfo
        <5>3. CASE job[q].pc \in Asking /\ job'[q].pc = "rootTruncate"
          BY <2>3, <4>2, <5>1, <5>3 DEF Goes, Counting, Asking, WritingRoot
        <5>4. CASE job[q].pc \in Asking /\ job'[q].pc \in Asking
          BY <4>2, <5>1, <5>4 DEF Goes, Counting, Asking, WritingRoot
        <5>5. CASE job[q].pc \notin Asking
          BY <4>2, <5>1, <5>2, <5>5 DEF Goes, Counting, Asking, WritingRoot
        <5> QED BY <4>2, <5>3, <5>4, <5>5 DEF Goes, Asking
      <4> QED BY <2>2, <3>2, <4>1, <4>2
    <3>3. \A q \in Process : job'[q] # Idle => Counting(job[q])'
      BY <2>1, <3>2 DEF Counting, Below, UpTo, Readable
    <3>4. Readable(disk'.root) => UpTo(disk.root.index)'
      BY <2>1, <2>3 DEF UpTo, Readable
    <3>5. WriteInfo(p) /\ job[p].pc = "infoWrite" => Below(job[p].index)
      <4> SUFFICES ASSUME WriteInfo(p), job[p].pc = "infoWrite" PROVE Below(job[p].index)
        OBVIOUS
      <4>1. job[p] # Idle /\ job[p].cmd = "create"
        BY WriterIs DEF WritingInfo
      <4> QED BY <2>3, <4>1 DEF Counting
    <3> QED BY <3>1, <3>3, <3>4, <3>5
  <2> QED BY <1>2, <2>1, <2>3
<1>6. CASE TruncateRoot(p)
  <2> DEFINE j == [job[p] EXCEPT !.pc = "rootWrite"]
  <2>1. /\ Become(p, j) /\ disk'.root = Torn /\ disk'.info = disk.info /\ hurt' = hurt
        /\ job[p] # Idle /\ job[p].pc = "rootTruncate"
    BY <1>0, <1>6 DEF TruncateRoot, Disk
  <2>2. /\ j.pc = "rootWrite" /\ j.cmd = job[p].cmd /\ j.mnemonic = job[p].mnemonic
        /\ j.root = job[p].root /\ j.index = job[p].index /\ job[p].cmd # "export"
    BY <1>0, <2>1 DEF Job, Shape, Asking
  <2> HIDE DEF j
  <2>3. job'[p] = j /\ \A q \in Process : q # p => job'[q] = job[q]
    BY <1>0, <2>1, BecomeJob
  <2>4. ASSUME {"root", "index"} \cap hurt' = {}, {"root", "index"} \cap hurt = {}, OneWriter,
               \A q \in Process : job[q] # Idle => Counting(job[q]),
               Readable(disk.root) => UpTo(disk.root.index), UniqueInfo
        PROVE  /\ OneWriter'
               /\ \A q \in Process : job'[q] # Idle => Counting(job[q])'
               /\ Readable(disk'.root) => UpTo(disk.root.index)'
               /\ WriteInfo(p) /\ job[p].pc = "infoWrite" => Below(job[p].index)
    <3>1. OneWriter'
      BY <2>1, <2>2, <2>3, <2>4 DEF OneWriter
    <3>2. ~Readable(disk'.root)
      BY <2>1 DEF Readable
    <3>3. job[p].cmd = "create" => Below(job[p].index)
      <4> SUFFICES ASSUME job[p].cmd = "create", NEW n \in Name, Readable(disk.info[n])
                   PROVE  disk.info[n].index < job[p].index
        BY DEF Below
      <4>1. disk.root = job[p].root /\ Readable(disk.root) /\ job[p].index = job[p].root.index + 1
        BY <1>0, <2>1, <2>4 DEF Counting, Shape, Asking
      <4>2. disk.info[n].index <= disk.root.index
        BY <2>4, <4>1 DEF UpTo
      <4> QED BY <1>1, <4>1, <4>2
    <3>4. job[p].cmd = "update" => UpTo(job[p].index)
      BY <2>1, <2>4 DEF Counting, WritingRoot
    <3>5. Counting(job[p])'
      BY <2>1, <2>2, <2>3, <3>3, <3>4 DEF Counting, Asking, Below, UpTo
    <3>6. ASSUME NEW q \in Process, q # p, job'[q] # Idle PROVE job'[q].cmd \notin {"create", "update"}
      BY <2>1, <2>2, <2>3, <2>4, <3>6 DEF OneWriter
    <3>7. \A q \in Process : job'[q] # Idle => Counting(job[q])'
      BY <3>5, <3>6 DEF Counting
    <3> QED BY <2>1, <3>1, <3>2, <3>7
  <2> QED BY <1>2, <2>1, <2>4
<1>7. CASE WriteRoot(p)
  <2> DEFINE j == AfterRoot(p)
             new == [pass |-> job[p].password, mnemonic |-> job[p].mnemonic, index |-> StoredIndex(p)]
  <2>1. /\ Become(p, j) /\ disk'.root \in {new, Torn} /\ disk'.info = disk.info
        /\ hurt \subseteq hurt' /\ job[p].pc = "rootWrite" /\ job[p] # Idle
        /\ disk'.root = Torn => "root" \in hurt'
    BY <1>0, <1>7 DEF WriteRoot, Disk, Overwritten
  <2>2. /\ j = Idle \/ (/\ j.cmd = job[p].cmd /\ j.mnemonic = job[p].mnemonic /\ j.root = job[p].root
                        /\ j.index = job[p].index)
        /\ j # Idle => j.pc \in {"confirm", "hashRemove", "exists"}
        /\ job[p].cmd # "export" /\ new.index = job[p].index
    BY <1>0, <2>1 DEF AfterRoot, Job, Shape, Asking, StoredIndex
  <2> HIDE DEF j
  <2>3. job'[p] = j /\ \A q \in Process : q # p => job'[q] = job[q]
    BY <1>0, <2>1, BecomeJob
  <2>4. new \in Root
    BY <1>0, <2>1, WalletAssumption DEF Job, Shape, Asking, Root, StoredIndex
  <2> HIDE DEF new
  <2>5. ASSUME {"root", "index"} \cap hurt' = {}, {"root", "index"} \cap hurt = {}, OneWriter,
               \A q \in Process : job[q] # Idle => Counting(job[q]),
               Readable(disk.root) => UpTo(disk.root.index), UniqueInfo
        PROVE  /\ OneWriter'
               /\ \A q \in Process : job'[q] # Idle => Counting(job[q])'
               /\ Readable(disk'.root) => UpTo(disk.root.index)'
               /\ WriteInfo(p) /\ job[p].pc = "infoWrite" => Below(job[p].index)
    <3>1. OneWriter'
      BY <2>1, <2>2, <2>3, <2>5 DEF OneWriter
    <3>2. disk'.root = new /\ Readable(disk'.root) /\ disk'.root.index = job[p].index
      BY <2>1, <2>2, <2>4, <2>5, MarkersAssumption DEF Readable
    <3>3. UpTo(job[p].index)
      <4> SUFFICES ASSUME NEW n \in Name, Readable(disk.info[n]) PROVE disk.info[n].index <= job[p].index
        BY DEF UpTo
      <4>1. CASE job[p].cmd \in {"init", "recover"}
        BY <2>1, <2>5, <4>1 DEF FamilyInv
      <4>2. CASE job[p].cmd = "create"
        <5>1. disk.info[n].index < job[p].index /\ job[p].index \in 0 .. MaxIndex
          BY <1>0, <2>1, <2>5, <4>2 DEF Counting, Below, Job
        <5> QED BY <1>1, <5>1
      <4>3. CASE job[p].cmd = "update"
        BY <2>1, <2>5, <4>3 DEF Counting, WritingRoot, UpTo
      <4> QED BY <1>0, <2>1, <2>2, <4>1, <4>2, <4>3 DEF Shape
    <3>4. job[p].cmd = "create" => Below(job[p].index)
      BY <2>1, <2>5 DEF Counting
    <3>5. ASSUME j # Idle PROVE Counting(job[p])'
      <4>1. job[p].cmd = "update" => j.pc # "rootTruncate" /\ j.pc \notin Asking /\ j.pc \notin WritingRoot
        BY <2>2, <3>5 DEF Asking, WritingRoot
      <4> QED BY <2>1, <2>2, <2>3, <3>2, <3>4, <3>5, <4>1 DEF Counting, Asking, Below, Readable
    <3>6. ASSUME NEW q \in Process, q # p, job'[q] # Idle PROVE job'[q].cmd \notin {"create", "update"}
      BY <2>1, <2>2, <2>3, <2>5, <3>6 DEF OneWriter
    <3>7. \A q \in Process : job'[q] # Idle => Counting(job[q])'
      BY <2>3, <3>5, <3>6 DEF Counting
    <3>8. UpTo(disk.root.index)'
      BY <2>1, <3>2, <3>3 DEF UpTo
    <3> QED BY <2>1, <3>1, <3>7, <3>8
  <2> QED BY <1>2, <2>1, <2>5
<1>8. CASE WriteInfo(p)
  <2> DEFINE n == job[p].name
             k == DerivedKey(p)
  <2>0. /\ n \in Name /\ k \in Key /\ job[p].pc \in WritingInfo /\ job[p] # Idle /\ job[p].cmd = "create"
        /\ hurt' = hurt /\ disk'.root = disk.root /\ \A q \in Process : q # p => job'[q] = job[q]
        /\ job'[p] = Idle \/ (job'[p].pc \in WritingInfo /\ job'[p] = [job[p] EXCEPT !.pc = job'[p].pc])
    BY <1>8, WriteInfoParts, WriterIs
  <2>1. job'[p] = Idle \/ (job'[p].cmd = job[p].cmd /\ job'[p].index = job[p].index /\ job'[p].root = job[p].root)
    BY <1>0, <2>0 DEF Job
  <2>2. /\ job[p].pc = "infoTruncate" => job'[p].pc = "infoWrite"
        /\ job[p].pc # "infoTruncate" => job'[p].pc \in {"addrTruncate", "addrWrite", "idle"}
        /\ job'[p].pc = "infoWrite" => disk'.info = [disk.info EXCEPT ![n] = Torn]
        /\ job[p].pc # "infoWrite" => \A a \in Name : disk'.info[a] = disk.info[a] \/ disk'.info[a] = Torn
    <3>1. /\ job[p].pc = "infoTruncate" => job'[p].pc = "infoWrite" /\ disk'.info = [disk.info EXCEPT ![n] = Torn]
          /\ job[p].pc = "infoWrite" => job'[p].pc = "addrTruncate"
          /\ job[p].pc = "addrTruncate" => job'[p].pc = "addrWrite" /\ disk'.info = disk.info
          /\ job[p].pc = "addrWrite" => job'[p] = Idle /\ disk'.info = disk.info
      BY <1>8, WriteInfoParts
    <3> QED BY <1>0, <2>0, <3>1 DEF WritingInfo
  <2>3. \A a \in Name : disk'.info[a] = disk.info[a] \/ disk'.info[a] \in {Torn, k}
    <3>1. \A info \in Overwritten(disk.info[n], k) : info \in {Torn, k}
      BY DEF Overwritten
    <3>2. \/ disk'.info = disk.info \/ disk'.info = [disk.info EXCEPT ![n] = Torn]
          \/ \E info \in Overwritten(disk.info[n], k) : disk'.info = [disk.info EXCEPT ![n] = info]
      BY <1>8, WriteInfoParts
    <3> HIDE DEF n, k
    <3>3. \E info \in {Torn, k} : disk'.info = disk.info \/ disk'.info = [disk.info EXCEPT ![n] = info]
      BY <3>1, <3>2
    <3> QED BY <1>0, <3>3
  <2>4. k.index = job[p].index /\ job[p].index \in 0 .. MaxIndex
    BY <1>0 DEF DerivedKey, Job
  <2> HIDE DEF n, k
  <2>5. ASSUME {"root", "index"} \cap hurt' = {}, {"root", "index"} \cap hurt = {}, OneWriter,
               \A q \in Process : job[q] # Idle => Counting(job[q]),
               Readable(disk.root) => UpTo(disk.root.index), UniqueInfo
        PROVE  /\ OneWriter'
               /\ \A q \in Process : job'[q] # Idle => Counting(job[q])'
               /\ Readable(disk'.root) => UpTo(disk.root.index)'
               /\ WriteInfo(p) /\ job[p].pc = "infoWrite" => Below(job[p].index)
    <3>1. OneWriter'
      BY <2>0, <2>1, <2>5 DEF OneWriter
    <3>2. /\ job[p].pc \in {"infoTruncate", "infoWrite"} => Readable(disk.root) /\ disk.root.index = job[p].index
          /\ job[p].pc \in {"infoTruncate", "infoWrite"} => Below(job[p].index)
      BY <2>0, <2>5 DEF Counting
    <3>3. ASSUME Readable(disk.root) PROVE UpTo(disk.root.index)'
      <4> SUFFICES ASSUME NEW a \in Name, Readable(disk'.info[a])
                   PROVE  disk'.info[a].index <= disk.root.index
        BY <2>0 DEF UpTo, Readable
      <4>1. CASE disk'.info[a] = disk.info[a]
        BY <2>5, <3>3, <4>1 DEF UpTo, Readable
      <4>2. CASE disk'.info[a] = k /\ job[p].pc = "infoWrite"
        BY <1>1, <2>4, <3>2, <3>3, <4>2
      <4> QED BY <2>2, <2>3, <4>1, <4>2 DEF Readable
    <3>4. job'[p].pc = "infoWrite" =>
            Below(job[p].index)' /\ Readable(disk'.root) /\ disk'.root.index = job'[p].index
      <4> SUFFICES ASSUME job'[p].pc = "infoWrite"
                   PROVE  Below(job[p].index)' /\ Readable(disk'.root) /\ disk'.root.index = job'[p].index
        OBVIOUS
      <4>1. job[p].pc = "infoTruncate" /\ job'[p].index = job[p].index
        BY <1>0, <2>1, <2>2
      <4>2. \A a \in Name : disk'.info[a] = disk.info[a] \/ disk'.info[a] = Torn
        BY <2>2, <4>1
      <4> QED BY <2>0, <3>2, <4>1, <4>2 DEF Below, Readable
    <3>5. ASSUME job'[p] # Idle PROVE Counting(job[p])'
      <4>1. job'[p].pc \in {"infoWrite", "addrTruncate", "addrWrite"}
        BY <2>0, <2>1, <2>2, <3>5 DEF WritingInfo
      <4> QED BY <2>0, <2>1, <3>4, <3>5, <4>1 DEF Counting, Asking
    <3>6. ASSUME NEW q \in Process, q # p, job'[q] # Idle PROVE job'[q].cmd \notin {"create", "update"}
      BY <2>0, <2>5, <3>6 DEF OneWriter
    <3>7. \A q \in Process : job'[q] # Idle => Counting(job[q])'
      BY <3>5, <3>6 DEF Counting
    <3> QED BY <2>0, <3>1, <3>2, <3>3, <3>7
  <2> QED BY <1>2, <2>0, <2>5
<1>9. CASE RemoveAll(p)
  <2>1. /\ job[p].pc = "removeAll" /\ hurt' = hurt
        /\ \A q \in Process : q # p => job'[q] = job[q] /\ job[q] = Idle
        /\ job'[p] = job[p] \/ job'[p] = Idle
        /\ disk'.root \in {disk.root, Absent}
        /\ \A n \in Name : disk'.info[n] \in {disk.info[n], Absent}
    BY <1>9, RemoveAllParts
  <2>2. job[p] # Idle /\ job[p].cmd \in {"init", "recover"}
    BY <1>0, <2>1 DEF Shape, Asking, WritingRoot, WritingInfo
  <2>3. ASSUME {"root", "index"} \cap hurt' = {}, {"root", "index"} \cap hurt = {}, OneWriter,
               \A q \in Process : job[q] # Idle => Counting(job[q]),
               Readable(disk.root) => UpTo(disk.root.index), UniqueInfo
        PROVE  /\ OneWriter'
               /\ \A q \in Process : job'[q] # Idle => Counting(job[q])'
               /\ Readable(disk'.root) => UpTo(disk.root.index)'
               /\ WriteInfo(p) /\ job[p].pc = "infoWrite" => Below(job[p].index)
    <3>1. OneWriter'
      BY <2>1 DEF OneWriter
    <3>2. \A q \in Process : job'[q] # Idle => Counting(job[q])'
      BY <2>1, <2>2 DEF Counting
    <3>3. Readable(disk'.root) => UpTo(disk.root.index)'
      BY <2>1, <2>3 DEF UpTo, Readable
    <3> QED BY <2>1, <3>1, <3>2, <3>3
  <2> QED BY <1>2, <2>1, <2>3
<1> QED BY <1>3, <1>4, <1>6, <1>7, <1>8, <1>9, OnwardSteps

\* NewKey never gives one key to two names: NoKeyTwice for every wallet.  With
\* the address entries all there UniqueInv says so, with the index never lost
\* OrderInv does.
THEOREM KeysOnce == WalletSpec => []NoKeyTwice
<1> DEFINE Inv == ShapeInv /\ IndexInv /\ FamilyInv /\ ListedInv /\ UniqueInv /\ OrderInv
<1>1. WalletInit => Inv
  <2> SUFFICES ASSUME WalletInit PROVE Inv
    OBVIOUS
  <2>1. (\A p \in Process : job[p] = Idle) /\ Idle.pc = "idle"
    BY IdleJob DEF WalletInit
  <2>2. /\ ~Readable(disk.root) /\ \A n \in Name : ~Readable(disk.info[n])
        /\ \A k \in Key : ~Readable(disk.addr[k])
    BY DEF WalletInit, NoFiles, Readable
  <2>3. IndexInv
    BY <2>1, <2>2 DEF IndexInv, WritingInfo
  <2>4. Idle.root = None /\ Idle.mnemonic = None /\ None \notin Root
    BY MarkersAssumption DEF Idle
  <2>5. Family(None)
    BY <2>1, <2>2, <2>4 DEF Family
  <2>6. FamilyInv
    BY <2>1, <2>2, <2>5 DEF FamilyInv, Bare
  <2>7. ListedInv /\ UniqueInv /\ OrderInv
    BY <2>1, <2>2 DEF ListedInv, UniqueInv, UniqueInfo, OrderInv
  <2> QED BY <2>3, <2>6, <2>7, ShapeInit
<1>2. Inv /\ [WalletNext]_vars => Inv'
  <2> SUFFICES ASSUME Inv, [WalletNext]_vars PROVE Inv'
    OBVIOUS
  <2>1. CASE UNCHANGED vars
    <3>1. ShapeInv'
      BY ShapeNext
    <3>2. IndexInv' /\ FamilyInv'
      BY <2>1 DEF vars, IndexInv, Claimed, Disjoint, DerivedKey, Removing, FamilyInv, Family, Bare, Readable
    <3>3. ListedInv' /\ UniqueInv' /\ OrderInv'
      BY <2>1 DEF vars, ListedInv, UniqueInv, UniqueInfo, OrderInv, Counting, Below, UpTo, DerivedKey,
                  Removing, Readable
    <3> QED BY <3>1, <3>2, <3>3
  <2>2. CASE WalletNext
    BY <2>2, ShapeNext, IndexNext, FamilyNext, ListedNext, UniqueNext, OrderNext DEF WalletNext
  <2> QED BY <2>1, <2>2
<1>3. Inv => NoKeyTwice
  BY DEF UniqueInv, OrderInv, UniqueInfo, NoKeyTwice, Has
<1> HIDE DEF Inv
<1> QED BY <1>1, <1>2, <1>3, PTL DEF WalletSpec

=============================================================================
