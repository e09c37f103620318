---------------------------- MODULE HostInventory ----------------------------
(***************************************************************************)
(* What the host collector makes of the machine it runs on                 *)
(* (collectors/observatory_collectors/host_pi/inventory.py): hardware and  *)
(* operating-system identity, the storage entries with their logical       *)
(* names, the interfaces, the maintenance section and the signature that   *)
(* tells a durable change from a volatile one.  Pure operators.            *)
(*                                                                         *)
(* A machine is a record of what its sources hold, None where a file is    *)
(* missing or cannot be read: every probe fails soft.                      *)
(***************************************************************************)
EXTENDS Integers, Sequences, FiniteSets

CONSTANT None

\* `a or b' of the code.
Or(a, b) == IF a # None THEN a ELSE b

(* Hardware and operating system.  A model is [board, rev], rev being the      *)
(* trailing "Rev x.y" of the string, or None.                                  *)

Model(m) == Or(m.dtModel, Or(m.cpuinfo.model, m.dmi.product))

Board(m) == IF Model(m) = None THEN None ELSE Model(m).board

Manufacturer(m) ==
    Or(m.dmi.vendor, IF Board(m) \in m.raspberries THEN "Raspberry Pi Foundation" ELSE None)

Revision(m) ==
    Or(Or(m.cpuinfo.revision, IF Model(m) = None THEN None ELSE Model(m).rev),
       m.dmi.version)

Hardware(m) ==
    [manufacturer |-> Manufacturer(m),
     model        |-> Board(m),
     revision     |-> Revision(m),
     cpu_model    |-> Or(m.cpuinfo.cpu, m.soc),
     serial       |-> Or(m.cpuinfo.serial, m.dmi.serial)]

OperatingSystem(m) == [release |-> Or(m.os.codename, m.os.version), kernel |-> m.kernel]

(* Storage.  A device name is [family, unit, part]: mmcblk0p2 is               *)
(* [family |-> "mmcblk", unit |-> 0, part |-> 2], md0 is                       *)
(* [family |-> "md", unit |-> 0, part |-> None].                               *)

Partitioned == {"mmcblk", "nvme", "sd", "vd", "hd"}
Numbered    == {"md", "loop", "sr", "nbd", "zram"}

\* The whole disk of a partition.  The pattern that strips the partition number
\* off sda1 strips the number off md0 and loop0 as well; md0p1 passes both.
BaseDevice(name) ==
    CASE name.family \in Partitioned -> [name EXCEPT !.part = None]
      [] name.family \in Numbered /\ name.part = None -> [name EXCEPT !.unit = None]
      [] OTHER -> name

\* m.sysfs says of a whole disk: the card type, whether it hangs on USB, whether
\* it rotates.  The name that lost its number is not there.
Sysfs(m, base) ==
    IF base \in DOMAIN m.sysfs THEN m.sysfs[base]
    ELSE [card |-> None, usb |-> FALSE, rotational |-> FALSE]

Transport(m, base) ==
    CASE base.family = "mmcblk" -> IF Sysfs(m, base).card = "MMC" THEN "eMMC" ELSE "SD"
      [] base.family = "nvme"   -> "NVMe"
      [] base.family \in {"sd", "vd", "hd"} -> IF Sysfs(m, base).usb THEN "USB" ELSE "SATA"
      [] OTHER                  -> None

TypeLabel(m, base) ==
    LET transport == Transport(m, base)
    IN  CASE transport = "SD"   -> "SD Card"
          [] transport = "eMMC" -> "eMMC"
          [] transport \notin {"SD", "eMMC"} /\ Sysfs(m, base).rotational -> "HDD"
          [] transport \in {"USB", "NVMe", "SATA"} /\ ~Sysfs(m, base).rotational -> "SSD"
          [] OTHER              -> "Disk"

Prefix(type) ==
    CASE type = "SD Card" -> "SD"
      [] type = "eMMC"    -> "EMMC"
      [] type = "Disk"    -> "DISK"
      [] OTHER            -> type

Physical(m, i) == BaseDevice(m.mounts[i].device)

\* The first mount of the same physical device.
FirstMount(m, i) ==
    LET same == {j \in 1..i : Physical(m, j) = Physical(m, i)}
    IN  CHOOSE j \in same : \A k \in same : j <= k

PrefixAt(m, i) == Prefix(TypeLabel(m, Physical(m, i)))

\* Mutant of LogicalName: the ordinal counts mounts, not devices.
LogicalNameByMount(m, i) ==
    <<PrefixAt(m, i),
      Cardinality({j \in 1..i : PrefixAt(m, j) = PrefixAt(m, i)})>>

\* Prefix and ordinal, counted over physical devices in the order of the mounts.
LogicalName(m, i) ==
    LET first == FirstMount(m, i)
    IN  <<PrefixAt(m, first),
          Cardinality({j \in 1..first : /\ FirstMount(m, j) = j
                                        /\ PrefixAt(m, j) = PrefixAt(m, first)})>>

\* One entry per mounted filesystem; how full it is changes all the time.
Storage(m, usage) ==
    {[position |-> i,
      mount    |-> m.mounts[i],
      physical |-> Physical(m, i),
      type     |-> TypeLabel(m, Physical(m, i)),
      name     |-> LogicalName(m, i),
      used     |-> usage] : i \in DOMAIN m.mounts}

(* Network: host interfaces only, and the default route if it says anything. *)

Plumbing == {"lo", "veth", "br", "docker"}

Network(m) ==
    [interfaces |-> {i \in m.interfaces : i.kind \notin Plumbing},
     route      |-> IF m.route.gateway = None /\ m.route.interface = None
                    THEN None ELSE m.route]

(* Maintenance.  A log is a sequence of [start, full] upgrades; m.logs maps 0, *)
(* the current log, and the numbers of the archives to logs.                   *)

\* The date of the last upgrade in the log among those at the given places.
LastOf(log, places) ==
    IF places = {} THEN None
    ELSE log[CHOOSE i \in places : \A j \in places : j <= i].start

ParseHistory(log) ==
    [upgrade |-> LastOf(log, DOMAIN log),
     full    |-> LastOf(log, {i \in DOMAIN log : log[i].full})]

\* Mutant of NameBefore: the oldest archive first.
NameBeforeOldest(a, b) == a > b

\* The order of history.log.<n>.gz by name, not by number.
NameBefore(a, b) ==
    IF a < 10 /\ b >= 10 THEN a < b \div 10 \/ a = b \div 10
    ELSE IF a >= 10 /\ b < 10 THEN a \div 10 < b
    ELSE a < b

\* The logs are read one after the other until both dates are found: a date is
\* that of the first log that has it.
FirstDate(m, kind) ==
    LET date(n) == ParseHistory(m.logs[n])[kind]
        archives == {n \in DOMAIN m.logs \ {0} : date(n) # None}
    IN  IF date(0) # None THEN date(0)
        ELSE IF archives = {} THEN None
        ELSE date(CHOOSE n \in archives : \A k \in archives \ {n} : NameBefore(n, k))

Maintenance(m) ==
    [last_apt_upgrade      |-> FirstDate(m, "upgrade"),
     last_apt_full_upgrade |-> FirstDate(m, "full"),
     updates_available     |-> m.updates,
     reboot_required       |-> m.rebootFlag]

(* Assembly *)

Identity(m, usage) ==
    [hardware |-> Hardware(m), os |-> OperatingSystem(m),
     storage  |-> Storage(m, usage), network |-> Network(m)]

\* Mutant of Signature: how full the filesystems are is part of it.
SignatureVolatile(identity) == identity

\* stable_signature: the identity without the volatile numbers.
Signature(identity) ==
    [identity EXCEPT !.storage = {[entry EXCEPT !.used = None] : entry \in @}]
=============================================================================
