----------------------------- MODULE MCShowPhy -----------------------------
(* Model-checking instances of ShowPhy: the columns of boy_show_phy, and   *)
(* VPPs with two cards and with interfaces that are not physical.          *)
EXTENDS ShowPhy

Col(header, min_width, max_width, is_flexible, align) ==
  [header |-> header, min_width |-> min_width, max_width |-> max_width,
   is_flexible |-> is_flexible, align |-> align]

PhyColumns == <<Col(14, 14, 0, TRUE, "left"), Col(8, 8, 10, FALSE, "right"),
                Col(4, 4, 8, FALSE, "left"), Col(5, 5, 10, FALSE, "left"),
                Col(16, 16, 17, FALSE, "left"), Col(11, 11, 0, TRUE, "left")>>

If(name, type, dev_type, index, speed) ==
  [name |-> name, type |-> type, dev_type |-> dev_type, sw_if_index |-> index,
   link_up |-> speed # 0, link_speed |-> speed]

Eth0   == If("TenGigabitEthernet3/0/0", "hardware", "dpdk", 1, 10000000)
Eth1   == If("eth1", "hardware", "dpdk", 12, 0)
Memif  == If("memif0/0", "hardware", "memif", 3, 0)
Local  == If("local0", "hardware", "local", 0, 0)
Sub    == If("eth1.7", "sub", "vlan", 4, 2500)

MCDumps == {<<>>, <<Local, Eth0, Memif, Eth1>>, <<Eth1, Sub>>}

MCLength(text) == CASE text = "TenGigabitEthernet3/0/0" -> 23
                    [] text = "Intel X710 10GbE SFP+"   -> 21
                    [] text = "eth1"                    -> 4
                    [] text = "dpdk"                    -> 4
                    [] text = "Virtio"                  -> 6
                    [] text = "memif0/0"                -> 8
                    [] text \in {"local0", "eth1.7"}    -> 6
                    [] text \in {"local", "memif"}      -> 5
                    [] text = "vlan"                    -> 4
                    [] text = ""                        -> 0

Line(kind, what) == [kind |-> kind, what |-> what]

MCLines == {Line("blank", ""), Line("section", ""), Line("ethernet", ""), Line("stop", ""),
            Line("header", "TenGigabitEthernet3/0/0"), Line("header", "eth1"),
            Line("header", "memif0/0"),
            Line("text", "Intel X710 10GbE SFP+"), Line("text", "Virtio")}
=============================================================================
