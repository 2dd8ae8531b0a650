SPECIFICATION WalletSpec
CONSTANTS
    Process = {t1, t2}
    Name = {n1, n2, root}
    RootName = root
    Pass = {p1, p2}
    Mnemonic = {m1, m2, bad}
    WellFormed = {m1, m2}
    Absent = Absent
    Torn = Torn
    None = None
    MaxIndex = 2
    MaxFaults = 2
SYMMETRY WalletSymmetry
INVARIANTS
    WalletTypeOK
    AddressIndexSound
    NoKeyTwice
    PassphraseOpens
    ExportMatches
