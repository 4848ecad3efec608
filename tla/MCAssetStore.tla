----------------------------- MODULE MCAssetStore -----------------------------
(* Instances of AssetStore for TLC: the tables a behaviour starts from and *)
(* the symmetry of interchangeable request slots and addresses.            *)
EXTENDS AssetStore, TLC

CONSTANTS a, b  \* two addresses

Stored(ip, type, archived) ==
  [ip |-> ip, type |-> type, project |-> Nil, host |-> Nil, notes |-> Nil,
   archived |-> archived]

OnlyRow(row) == [NoRows EXCEPT ![1] = row]

SeedEmpty    == {NoRows}
SeedBmc      == {OnlyRow(Stored(a, "BMC", FALSE))}
SeedArchived == {OnlyRow(Stored(a, "BMC", TRUE))}
SeedActive   == {OnlyRow(Stored(a, "VM", FALSE))}
SeedTwo      == {[NoRows EXCEPT ![1] = Stored(a, "VM", FALSE),
                                ![2] = Stored(b, "VM", TRUE)]}
SeedRaces    == {NoRows} \union SeedArchived \union SeedTwo

Slots == Permutations(Workers)
FormSlots == Permutations(Forms)
===============================================================================
