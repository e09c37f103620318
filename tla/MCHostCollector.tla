--------------------------- MODULE MCHostCollector ---------------------------
EXTENDS HostCollector

\* A Raspberry Pi with an SD card of two partitions.
SD == [family |-> "mmcblk", unit |-> 0, part |-> None]
Usb(unit) == [family |-> "sd", unit |-> unit, part |-> None]
NVMe == [family |-> "nvme", unit |-> 0, part |-> None]
Mount(disk, part, point) == [device |-> [disk EXCEPT !.part = part], mount |-> point]
Upgrade(start, full) == [start |-> start, full |-> full]

Pi ==
    [dtModel |-> [board |-> "Raspberry Pi 4", rev |-> "1.4"],
     cpuinfo |-> [model |-> None, revision |-> "c03114", cpu |-> None, serial |-> "s1"],
     dmi |-> [product |-> None, version |-> None, vendor |-> None, serial |-> None],
     raspberries |-> {"Raspberry Pi 4"}, soc |-> "BCM2711",
     os |-> [codename |-> "trixie", version |-> None], kernel |-> 1,
     mounts |-> <<Mount(SD, 1, "/boot"), Mount(SD, 2, "/")>>,
     sysfs |-> [d \in {SD, Usb(1), Usb(2), NVMe} |->
                   [card |-> "SD", usb |-> d # NVMe, rotational |-> d = Usb(2)]],
     interfaces |-> {[kind |-> "eth", ipv4 |-> 1], [kind |-> "veth", ipv4 |-> None]},
     route |-> [gateway |-> 1, interface |-> "eth"],
     logs |-> [n \in 0..2 |-> CASE n = 0 -> <<>> [] n = 1 -> <<Upgrade(8, FALSE)>>
                                 [] n = 2 -> <<Upgrade(1, TRUE), Upgrade(2, TRUE)>>],
     updates |-> 0, rebootFlag |-> FALSE]

\* Three disks are plugged in, two of them of one type and one of them with two
\* partitions; the device tree cannot be read for a while.
Plugged ==
    [Pi EXCEPT !.mounts = @ \o <<Mount(Usb(1), 1, "/a"), Mount(Usb(2), 1, "/b"),
                                 Mount(NVMe, 1, "/c"), Mount(Usb(1), 2, "/d")>>,
               !.logs[0] = <<Upgrade(9, FALSE)>>]
Unread == [Pi EXCEPT !.dtModel = None]

MCFacts == [m \in {"pi", "plugged", "unread"} |->
    CASE m = "pi" -> Pi [] m = "plugged" -> Plugged [] m = "unread" -> Unread]
=============================================================================
