------------------------------ MODULE MCValues ------------------------------
(* The inputs of the functions for TLC. *)
EXTENDS Values

\* A CIM interval has two digits of everything here.
MCDurations ==
  {d \in [format : {"iso", "cim", "other"}, days : {0, 1, 98, 99, 100, 250, Half},
          hours : {0, 23, 24, 99, 100}, minutes : {0, 59, 60, 99},
          seconds : {0, 59, 60, 99}] :
     d.format = "cim" => d.days <= MaxDays /\ d.hours <= 99}

MCChars == {"&", "<", ">", "x", Quote, "LF", "NUL"}

MCElements ==
  [name : {"Count", "Notes", "Enabled"}, nil : BOOLEAN,
   texts : {<<>>, <<"1">>, <<"2">>, <<"1", "">>, <<"TRUE">>, <<"TRUE", "2">>}]

MCStructs ==
  [ElementName : {"", "a"}, Count : Numerals, Enabled : {"unset", "TRUE", "FALSE"},
   Notes : Upto({"", "a", "b"}, 3)]

Spelled(ids) == [id : ids, spelling : {"upper", "lower"}]

AsHost(i) == [id |-> i, spelling |-> "upper"]

\* Two VMs and the host in two orders, with display names that may be alike.
MCSystems ==
  {<<[name |-> AsHost("pc"), guid |-> FALSE, element |-> AsHost(n)],
     [name |-> AsHost("vm1"), guid |-> TRUE, element |-> m],
     [name |-> AsHost("vm2"), guid |-> TRUE, element |-> [id |-> "b", spelling |-> "lower"]]>> :
     n \in {"a", "pc"}, m \in Spelled({"a", "b"})}
  \cup {<<[name |-> AsHost("vm2"), guid |-> TRUE, element |-> AsHost("b")]>>, <<>>}

Setting(vm, type) == [vm |-> AsHost(vm), type |-> type]

MCSettingsLists ==
  {<<Setting("vm1", "Snapshot:Realized"), Setting("vm2", "Realized"),
     Setting("vm1", "Realized"), Setting("vm1", "Snapshot:Realized")>>,
   <<Setting("vm1", "Snapshot:Realized"), Setting("vm2", "Realized")>>}

Device(i, vm, class, sub) ==
  [id |-> i, owner |-> AsHost(vm), class |-> class, sub |-> sub]

\* Three controllers in every order, and one device of each other kind.
MCDeviceLists ==
  {order \o <<Device(4, "vm1", "ResourceAllocation", "Disk"),
     Device(5, "vm1", "ResourceAllocation", "DVD"), Device(6, "vm1", "StorageAllocation", ""),
     Device(7, "vm1", "SyntheticEthernetPort", ""), Device(8, "vm1", "EthernetPortAllocation", ""),
     Device(9, "vm1", "BootSource", ""), Device(10, "vm1", "GpuPartition", ""),
     Device(11, "vm2", "StorageAllocation", ""), Device(12, "vm2", "Memory", ""),
     Device(13, "vm1", "Memory", "")>> :
     order \in SetToSeqs({Device(1, "vm1", "ResourceAllocation", "SCSI"),
                          Device(2, "vm1", "ResourceAllocation", "SCSI"),
                          Device(3, "vm1", "ResourceAllocation", "IDE"),
                          Device(14, "vm2", "ResourceAllocation", "SCSI")})}

MCNamesAsked == Spelled({"vm1", "vm2", "a", "b", "pc", "none"})

Port(i, element, keys) == [id |-> i, element |-> element, keys |-> keys]

MCPorts ==
  {<<>>, <<Port("n1", "e", TRUE)>>, <<Port("n1", "f", TRUE), Port("n2", "e", TRUE)>>,
   <<Port("n1", "e", FALSE), Port("n2", "e", TRUE)>>}

MCSwitches ==
  [type : {"Private", "Internal", "External", "Other"}, externalAdapter : {"e", "g"},
   allowManagementOS : BOOLEAN]

MCOptions ==
  {<<"WithHTTPClient", "http">>, <<"WithHTTPClient", "other">>, <<"WithHTTPClient", "nil">>,
   <<"WithNTLM", TRUE>>, <<"WithCertificate", TRUE>>}
  \cup {<<"WithCertificate", FALSE>>, <<"WithCACert", TRUE>>, <<"WithCACert", FALSE>>,
        <<"WithTimeout", "0s">>, <<"WithRetry", 3>>, <<"WithInsecureSkipVerify", TRUE>>,
        <<"WithRecorder", "usable">>, <<"WithRecorder", "unusable">>, <<"WithRecorder", "none">>}

MCPoolSizes == {-1, 0, 1, 2}

MCSecrets ==
  [kind : {"ip"}, id : 1 .. 5, spelling : {"lower"}]
  \cup [kind : {"guid"}, id : 1 .. 2, spelling : {"lower", "upper"}]
=============================================================================
