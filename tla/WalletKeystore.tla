--------------------------- MODULE WalletKeystore ---------------------------
(***************************************************************************)
(* The command line wallet (wallet/ and wallet/keyring/): a directory with *)
(* the root record (the mnemonic under the passphrase, and the index of    *)
(* the last key), the hash of the passphrase, and for every key an info    *)
(* record by name and an index entry by address.                           *)
(*                                                                         *)
(* A command is a sequence of file operations with prompts in between, and *)
(* its process may die before each: ioutil.WriteFile is two of them, the   *)
(* truncation and the write.  The directory has no lock, so commands may   *)
(* overlap; only init is assumed to run alone.  `job' holds the running    *)
(* commands, `disk' the directory, which survives.                         *)
(***************************************************************************)
EXTENDS Naturals

CONSTANTS
    Process,        \* terminals, each of which runs one command at a time
    Name,           \* names of keys
    RootName,       \* the name "root", under which no record is kept
    Pass,           \* passphrases
    Mnemonic,       \* mnemonics, well formed or not
    WellFormed,     \* those bip39 accepts
    Absent,         \* content of a file that does not exist
    Torn,           \* content of a file that was truncated and not written
    None,           \* a field that is not set
    MaxIndex,       \* bound on the index of a key
    MaxFaults       \* bound on the crashes and the commands started beside another

ASSUME WalletAssumption ==
    /\ WellFormed \subseteq Mnemonic /\ RootName \in Name
    /\ MaxIndex \in Nat /\ MaxFaults \in Nat
    /\ {Absent, Torn, None} \cap (Name \cup Pass \cup Mnemonic) = {}
    /\ Absent # Torn

\* A derived key, and with it its address: the HD path differs in the index only.
Key == [mnemonic : Mnemonic, index : 0 .. MaxIndex]
\* The record under root.ini; `pass' is what its mnemonic is encrypted with.
Root == [pass : Pass, mnemonic : Mnemonic, index : 0 .. MaxIndex]
File(Content) == Content \cup {Absent, Torn}

\* What stands for a missing or torn file, or for a field not set, is no record.
ASSUME MarkersAssumption == {Absent, Torn, None} \cap (Key \cup Root) = {}

Commands == {"init", "recover", "update", "create", "export"}
PC == {"idle", "unlock", "hashCreate", "hashWrite", "rootTruncate", "rootWrite", "confirm",
       "removeAll", "hashRemove", "hashLost", "exists", "infoTruncate", "infoWrite", "addrTruncate",
       "addrWrite"}

VARIABLES
    disk,           \* the files
    job,            \* the commands running, with fileKeyring.password
    drawn,          \* mnemonics that init has generated
    exported,       \* an export just made: the key asked for and the key written
    hurt,           \* history: what a crash left half done and where two commands met
    faults          \* crashes and overlaps so far

vars == <<disk, job, drawn, exported, hurt, faults>>

Idle == [pc |-> "idle", cmd |-> None, name |-> None, root |-> None, mnemonic |-> None,
         index |-> 0, password |-> None, newPwd |-> None]

-----------------------------------------------------------------------------
(* Processes *)

Become(p, j) == job' = [job EXCEPT ![p] = j]

\* A command starts, alone or beside another one.  Of two that write the root
\* record one writes a stale index; while update changes the passphrase, any
\* other command may find no keyhash, and makes one.
Begin(p, j) ==
    LET beside == {q \in Process \ {p} : job[q] # Idle}
    IN  /\ job[p] = Idle /\ Become(p, j) /\ exported' = None
        /\ \A q \in beside : {j.cmd, job[q].cmd} \cap {"init", "recover"} = {}
        /\ IF beside = {} THEN UNCHANGED faults ELSE faults < MaxFaults /\ faults' = faults + 1
        /\ hurt' = hurt \cup
                   {w \in {"index", "passphrase"} : \E q \in beside :
                      \/ w = "index" /\ "export" \notin {j.cmd, job[q].cmd}
                      \/ w = "passphrase" /\ "update" \in {j.cmd, job[q].cmd}}

\* A file written by a process that truncated it, and maybe by another one
\* since: the rest of the other's content stays if it is longer.
Overwritten(old, new) == IF old = Torn THEN {new} ELSE {new, Torn}

-----------------------------------------------------------------------------
(* What the commands read *)

\* getRoot: a root file that does not parse is an error, like a missing one.
Readable(content) == content \notin {Absent, Torn}

HasInit == Readable(disk.root)

Has(name) == Readable(disk.info[name])

\* The key of the command: the one addKey derives, the one of the info record
\* that export read.
DerivedKey(p) == [mnemonic |-> job[p].mnemonic, index |-> job[p].index]

\* Mutant: only the name is looked up.
existsInDbByName(p) == disk.info[job[p].name] # Absent

\* By address, then by name; a torn file is an error, and stops addKey as well.
existsInDb(p) == disk.addr[DerivedKey(p)] # Absent \/ disk.info[job[p].name] # Absent

-----------------------------------------------------------------------------
(* Prompts *)

\* The passphrase x is accepted.  create, export and the update without a
\* mnemonic decrypt the root record with it, which fails if it is not its own.
Unlocked(p, x) ==
    IF job[p].cmd \in {"init", "recover"}
      THEN Become(p, [job[p] EXCEPT !.password = x, !.pc = "rootTruncate"])
      ELSE IF job[p].root.pass # x THEN Become(p, Idle)
      ELSE CASE job[p].cmd = "create" ->
                  Become(p, [job[p] EXCEPT !.password = x, !.pc = "rootTruncate",
                                           !.mnemonic = job[p].root.mnemonic,
                                           !.index = job[p].root.index + 1])
             [] job[p].cmd = "update" ->
                  Become(p, [job[p] EXCEPT !.password = job[p].newPwd, !.pc = "rootTruncate",
                                           !.mnemonic = job[p].root.mnemonic,
                                           !.index = job[p].root.index])
             [] job[p].cmd = "export" -> Become(p, Idle)

\* Mutant: the path is taken from the root record.
ExportedAtRootIndex(p, x) ==
    IF job[p].cmd = "export" /\ job[p].root.pass = x /\ job[p].root.mnemonic \in WellFormed
      THEN exported' = [of |-> DerivedKey(p),
                        is |-> [mnemonic |-> job[p].root.mnemonic, index |-> job[p].root.index]]
      ELSE UNCHANGED exported

\* Export: the key at the path of the info record, of the root's mnemonic; no key
\* can be derived from one that is not well formed.
Exported(p, x) ==
    IF job[p].cmd = "export" /\ job[p].root.pass = x /\ job[p].root.mnemonic \in WellFormed
      THEN exported' = [of |-> DerivedKey(p),
                        is |-> [mnemonic |-> job[p].root.mnemonic, index |-> job[p].index]]
      ELSE UNCHANGED exported

\* promptPassword with a keyhash file: its passphrase is entered, or three
\* wrong ones; nothing matches a torn file.
Unlock(p) ==
    /\ job[p].pc = "unlock" /\ disk.keyhash # Absent
    /\ \/ disk.keyhash # Torn /\ Unlocked(p, disk.keyhash) /\ Exported(p, disk.keyhash)
       \/ Become(p, Idle) /\ UNCHANGED exported
    /\ UNCHANGED <<disk, drawn, hurt, faults>>

\* promptPassword without one: any passphrase, entered twice, is made the
\* wallet's.
ChoosePassphrase(p, x) ==
    /\ job[p].pc = "unlock" /\ disk.keyhash = Absent
    /\ Become(p, [job[p] EXCEPT !.pc = "hashCreate", !.password = x])
    /\ UNCHANGED <<disk, drawn, exported, hurt, faults>>

\* ioutil.WriteFile of the keyhash, from promptPassword and from Reset; it is
\* read-only and is not opened again if another command has just created it.
CreateKeyhash(p) ==
    /\ job[p].pc = "hashCreate"
    /\ IF disk.keyhash # Absent
         THEN Become(p, Idle) /\ UNCHANGED disk
         ELSE /\ disk' = [disk EXCEPT !.keyhash = Torn]
              /\ Become(p, [job[p] EXCEPT !.pc = "hashWrite"])
    /\ UNCHANGED <<drawn, exported, hurt, faults>>

WriteKeyhash(p) ==
    /\ \/ job[p].pc = "hashWrite" /\ disk' = [disk EXCEPT !.keyhash = job[p].password]
       \/ job[p].pc = "hashLost" /\ UNCHANGED disk
    /\ IF job[p].cmd = "update" /\ job[p].mnemonic # None
         THEN Become(p, Idle) /\ UNCHANGED exported
         ELSE Unlocked(p, job[p].password) /\ Exported(p, job[p].password)
    /\ UNCHANGED <<drawn, hurt, faults>>

-----------------------------------------------------------------------------
(* The commands up to their first prompt or write *)

\* Init, of the command init: a mnemonic nobody has had before.
Create(p, m) ==
    /\ ~HasInit
    /\ m \in WellFormed \ drawn /\ drawn' = drawn \cup {m}
    /\ Begin(p, [Idle EXCEPT !.pc = "unlock", !.cmd = "init", !.mnemonic = m])
    /\ UNCHANGED disk

\* init --recover: whatever is typed; it is checked after the root is written.
Recover(p, m) ==
    /\ ~HasInit
    /\ m \in drawn \cup (Mnemonic \ WellFormed)
    /\ Begin(p, [Idle EXCEPT !.pc = "unlock", !.cmd = "recover", !.mnemonic = m])
    /\ UNCHANGED <<disk, drawn>>

\* update: with the mnemonic no passphrase is asked for.
UpdateRoot(p, byMnemonic, newPwd) ==
    /\ HasInit
    /\ Begin(p, IF byMnemonic
                  THEN [Idle EXCEPT !.pc = "rootTruncate", !.cmd = "update",
                                    !.mnemonic = disk.root.mnemonic, !.index = disk.root.index,
                                    !.password = newPwd, !.newPwd = newPwd]
                  ELSE [Idle EXCEPT !.pc = "unlock", !.cmd = "update", !.root = disk.root,
                                    !.newPwd = newPwd])
    /\ UNCHANGED <<disk, drawn>>

NewKey(p, name) ==
    /\ ~Has(name) /\ HasInit
    /\ disk.root.index < MaxIndex
    /\ Begin(p, [Idle EXCEPT !.pc = "unlock", !.cmd = "create", !.name = name, !.root = disk.root])
    /\ UNCHANGED <<disk, drawn>>

\* By name; by address it is the name of the address entry.
Export(p, name) ==
    /\ Has(name) /\ HasInit
    /\ Begin(p, [Idle EXCEPT !.pc = "unlock", !.cmd = "export", !.name = name, !.root = disk.root,
                              !.mnemonic = disk.info[name].mnemonic,
                              !.index = disk.info[name].index])
    /\ UNCHANGED <<disk, drawn>>

-----------------------------------------------------------------------------
(* Their writes *)

TruncateRoot(p) ==
    /\ job[p].pc = "rootTruncate"
    /\ disk' = [disk EXCEPT !.root = Torn]
    /\ Become(p, [job[p] EXCEPT !.pc = "rootWrite"])
    /\ UNCHANGED <<drawn, exported, hurt, faults>>

\* Where a command goes after the root record: addKey fails on a mnemonic that
\* is not well formed, and keeps nothing of the key named root; the root record
\* stays as written.
AfterRoot(p) ==
    CASE job[p].cmd = "init" -> [job[p] EXCEPT !.pc = "confirm"]
      [] job[p].cmd = "update" -> [job[p] EXCEPT !.pc = "hashRemove"]
      [] job[p].cmd = "create" /\ job[p].mnemonic \in WellFormed /\ job[p].name # RootName ->
             [job[p] EXCEPT !.pc = "exists"]
      [] OTHER -> Idle

\* Mutant: the index is saved one behind.
StoredIndexBehind(p) == job[p].index - 1

StoredIndex(p) == job[p].index

WriteRoot(p) ==
    /\ job[p].pc = "rootWrite"
    /\ \E root \in Overwritten(disk.root, [pass |-> job[p].password, mnemonic |-> job[p].mnemonic,
                                           index |-> StoredIndex(p)]) :
         /\ disk' = [disk EXCEPT !.root = root]
         /\ hurt' = IF root = Torn THEN hurt \cup {"root"} ELSE hurt
    /\ Become(p, AfterRoot(p))
    /\ UNCHANGED <<drawn, exported, faults>>

\* The mnemonic is typed correctly, or the wallet is removed.
confirmMnemonic(p, ok) ==
    /\ job[p].pc = "confirm"
    /\ Become(p, IF ok THEN Idle ELSE [job[p] EXCEPT !.pc = "removeAll"])
    /\ UNCHANGED <<disk, drawn, exported, hurt, faults>>

NoFiles == [root |-> Absent, keyhash |-> Absent,
            info |-> [n \in Name |-> Absent], addr |-> [k \in Key |-> Absent]]

\* os.RemoveAll deletes the files one by one, in the directory's order.
RemoveAll(p) ==
    /\ job[p].pc = "removeAll"
    /\ \/ disk.root # Absent /\ disk' = [disk EXCEPT !.root = Absent] /\ UNCHANGED job
       \/ disk.keyhash # Absent /\ disk' = [disk EXCEPT !.keyhash = Absent] /\ UNCHANGED job
       \/ \E n \in Name : /\ disk.info[n] # Absent
                          /\ disk' = [disk EXCEPT !.info[n] = Absent] /\ UNCHANGED job
       \/ \E k \in Key : /\ disk.addr[k] # Absent
                         /\ disk' = [disk EXCEPT !.addr[k] = Absent] /\ UNCHANGED job
       \/ disk = NoFiles /\ Become(p, Idle) /\ UNCHANGED disk
    /\ UNCHANGED <<drawn, exported, hurt, faults>>

\* Mutant: a new keyhash is not written.
ResetLeavesOld(p) == Become(p, Idle) /\ UNCHANGED disk

\* Reset: the old keyhash is read-only and is removed first; without one the
\* command fails here.  Another command that has it open writes to no file.
Reset(p) ==
    IF disk.keyhash = Absent
      THEN Become(p, Idle) /\ UNCHANGED disk
      ELSE /\ disk' = [disk EXCEPT !.keyhash = Absent]
           /\ job' = [q \in Process |->
                        IF q = p THEN [job[q] EXCEPT !.pc = "hashCreate"]
                        ELSE IF job[q].pc = "hashWrite" THEN [job[q] EXCEPT !.pc = "hashLost"]
                        ELSE job[q]]

RemoveKeyhash(p) ==
    /\ job[p].pc = "hashRemove" /\ Reset(p)
    /\ UNCHANGED <<drawn, exported, hurt, faults>>

\* Another command that has made the check and not yet written what it looks at.
Racing(p) ==
    \E q \in Process \ {p} :
       \/ job[q].pc = "infoTruncate" /\ job[q].name = job[p].name
       \/ /\ job[q].pc \in {"infoTruncate", "infoWrite", "addrTruncate"}
          /\ DerivedKey(q) = DerivedKey(p)

CheckExists(p) ==
    /\ job[p].pc = "exists"
    /\ IF existsInDb(p)
         THEN Become(p, Idle) /\ UNCHANGED hurt
         ELSE /\ Become(p, [job[p] EXCEPT !.pc = "infoTruncate"])
              /\ hurt' = IF Racing(p) THEN hurt \cup {"race"} ELSE hurt
    /\ UNCHANGED <<disk, drawn, exported, faults>>

\* Mutant: the entry by address first.
WriteInfoAddressFirst(p) ==
    /\ \/ /\ job[p].pc = "infoTruncate" /\ Become(p, [job[p] EXCEPT !.pc = "infoWrite"])
          /\ disk' = [disk EXCEPT !.addr[DerivedKey(p)] = Torn]
       \/ /\ job[p].pc = "infoWrite" /\ Become(p, [job[p] EXCEPT !.pc = "addrTruncate"])
          /\ disk' = [disk EXCEPT !.addr[DerivedKey(p)] = job[p].name]
       \/ /\ job[p].pc = "addrTruncate" /\ Become(p, [job[p] EXCEPT !.pc = "addrWrite"])
          /\ disk' = [disk EXCEPT !.info[job[p].name] = Torn]
       \/ /\ job[p].pc = "addrWrite" /\ Become(p, Idle)
          /\ disk' = [disk EXCEPT !.info[job[p].name] = DerivedKey(p)]
    /\ UNCHANGED <<drawn, exported, hurt, faults>>

\* writeInfo: the info record, then the entry by address.
WriteInfo(p) ==
    /\ \/ /\ job[p].pc = "infoTruncate" /\ Become(p, [job[p] EXCEPT !.pc = "infoWrite"])
          /\ disk' = [disk EXCEPT !.info[job[p].name] = Torn]
       \/ /\ job[p].pc = "infoWrite" /\ Become(p, [job[p] EXCEPT !.pc = "addrTruncate"])
          /\ \E info \in Overwritten(disk.info[job[p].name], DerivedKey(p)) :
               disk' = [disk EXCEPT !.info[job[p].name] = info]
       \/ /\ job[p].pc = "addrTruncate" /\ Become(p, [job[p] EXCEPT !.pc = "addrWrite"])
          /\ disk' = [disk EXCEPT !.addr[DerivedKey(p)] = Torn]
       \/ /\ job[p].pc = "addrWrite" /\ Become(p, Idle)
          /\ \E name \in Overwritten(disk.addr[DerivedKey(p)], job[p].name) :
               disk' = [disk EXCEPT !.addr[DerivedKey(p)] = name]
    /\ UNCHANGED <<drawn, exported, hurt, faults>>

\* What a crash at this point leaves half done.
HalfDone(p) ==
    {w \in {"root", "passphrase", "address", "removal"} :
       \/ w = "root" /\ job[p].pc = "rootWrite"
       \/ /\ w = "passphrase" /\ job[p].cmd = "update"
          /\ job[p].pc \in {"hashRemove", "hashCreate", "hashWrite", "hashLost"}
       \/ w = "address" /\ job[p].pc = "addrTruncate"
       \/ w = "removal" /\ job[p].pc = "removeAll"}

Crash(p) ==
    /\ job[p] # Idle /\ faults < MaxFaults
    /\ faults' = faults + 1
    /\ hurt' = hurt \cup HalfDone(p)
    /\ Become(p, Idle)
    /\ UNCHANGED <<disk, drawn, exported>>

-----------------------------------------------------------------------------
WalletInit ==
    /\ disk = NoFiles
    /\ job = [p \in Process |-> Idle]
    /\ drawn = {} /\ exported = None /\ hurt = {} /\ faults = 0

Command(p) ==
    \/ \E m \in Mnemonic : Create(p, m) \/ Recover(p, m)
    \/ \E byMnemonic \in BOOLEAN, newPwd \in Pass : UpdateRoot(p, byMnemonic, newPwd)
    \/ \E name \in Name : NewKey(p, name) \/ Export(p, name)

Step(p) ==
    \/ Unlock(p) \/ (\E x \in Pass : ChoosePassphrase(p, x)) \/ CreateKeyhash(p)
    \/ WriteKeyhash(p) \/ TruncateRoot(p) \/ WriteRoot(p)
    \/ (\E ok \in BOOLEAN : confirmMnemonic(p, ok)) \/ RemoveAll(p) \/ RemoveKeyhash(p)
    \/ CheckExists(p) \/ WriteInfo(p)

WalletNext == \E p \in Process : Command(p) \/ Step(p) \/ Crash(p)

WalletSpec == WalletInit /\ [][WalletNext]_vars

-----------------------------------------------------------------------------
(* Properties *)

\* Type correctness of the directory and of the running commands.
WalletTypeOK ==
    /\ disk \in [root : File(Root), keyhash : File(Pass), info : [Name -> File(Key)],
                 addr : [Key -> File(Name)]]
    /\ job \in [Process ->
                [pc : PC, cmd : Commands \cup {None}, name : Name \cup {None},
                 root : Root \cup {None}, mnemonic : Mnemonic \cup {None},
                 index : 0 .. MaxIndex, password : Pass \cup {None}, newPwd : Pass \cup {None}]]
    /\ drawn \subseteq WellFormed
    /\ exported \in [of : Key, is : Key] \cup {None}
    /\ hurt \subseteq {"root", "passphrase", "address", "removal", "index", "race"}
    /\ faults \in 0 .. MaxFaults

Removing == \E p \in Process : job[p].pc = "removeAll"

\* KeyByAddress returns the key with that address: the entry of an address that
\* was written leads to an info record of the same key, for ever, except while
\* the wallet is being removed, after a removal that was cut short, and after
\* two commands that both made writeInfo's check before either wrote.
AddressIndexSound ==
    Removing \/ {"removal", "race"} \cap hurt # {} \/
      \A k \in Key : Readable(disk.addr[k]) => disk.info[disk.addr[k]] = k

\* NewKey never gives one key to two names, also after a recovery that starts
\* the index over and beside another NewKey that read the same index, however
\* long the prompt stays open: only commands that meet between writeInfo's check
\* and its writes can, or a wallet that lost the address entry of a key it had
\* written and, earlier or later, its root record or an index.
NoKeyTwice ==
    \/ "address" \in hurt /\ {"root", "index"} \cap hurt # {}
    \/ {"removal", "race"} \cap hurt # {}
    \/ \A m, n \in Name : Has(m) /\ disk.info[m] = disk.info[n] => m = n

\* Between commands the passphrase the prompt accepts is the one that decrypts
\* the root record, unless an update of it was cut short after the root was
\* written, or ran beside another command: a crash anywhere else, every abandoned
\* command and every other overlap leave them equal.
PassphraseOpens ==
    /\ \A p \in Process : job[p] = Idle
    /\ HasInit /\ hurt \cap {"passphrase", "removal"} = {}
    => disk.keyhash = disk.root.pass

\* Export writes the key of the record it was asked for, whatever runs beside it,
\* unless the root record was lost in a crash or by two writes at once.
ExportMatches ==
    "root" \in hurt \/ exported = None \/ exported.is = exported.of
=============================================================================
