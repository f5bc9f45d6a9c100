------------------------------ MODULE Storage ------------------------------
(***************************************************************************)
(* The persistent configuration of src/service/storage.c as operators on   *)
(* the two flash slots.  An image that storage_validate accepts (magic,    *)
(* size and CRC32 agree) is the configuration itself; an erased slot is    *)
(* Erased and an image that fails the validation is Damaged.  The reserved *)
(* bytes and the CRC arithmetic are abstracted by that distinction.        *)
(***************************************************************************)
EXTENDS Integers

CONSTANTS Erased, Damaged   \* model values

DeviceConfig == [dew_margin_on_cd : Int, dew_margin_off_cd : Int, sample_period_ms : Nat]

ASSUME StorageAssumption == Erased \notin DeviceConfig /\ Damaged \notin DeviceConfig

StorageDefaults ==
    [dew_margin_on_cd |-> 500, dew_margin_off_cd |-> 700, sample_period_ms |-> 1000]

Slots == {0, 1}

Image == DeviceConfig \cup {Erased, Damaged}

\* platform_flash_read_config succeeds and storage_validate accepts the image.
Usable(image) == image \notin {Erased, Damaged}

\* Mutant: the first slot is not validated.
StorageLoadUnchecked(flash) == flash[0]

\* Slot 0 first, then slot 1, then the defaults.
StorageLoad(flash) ==
    IF \E i \in Slots : Usable(flash[i])
    THEN flash[IF Usable(flash[0]) THEN 0 ELSE 1]
    ELSE StorageDefaults

\* The firmware's platform_flash_write_config reports success and writes nothing.
StorageSave(flash, config) == flash
=============================================================================
