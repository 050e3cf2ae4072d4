----------------------------- MODULE MCSession ------------------------------
(***************************************************************************)
(* Session for TLC.  The configurations vary one or two settings of a      *)
(* launcher's and of a direct caller's; each is a case some step of the    *)
(* pipeline tells from the others.  The largest port is 3.                 *)
(***************************************************************************)
EXTENDS Session

MCFlags ==
  LET d == [DefaultFlags EXCEPT !.image = "img"]
  IN {DefaultFlags, d,
      [DefaultFlags EXCEPT !.boot = "EFI ", !.port = 2],
      [d EXCEPT !.boot = " Linux", !.network = "NAT", !.enableNetwork = TRUE],
      [d EXCEPT !.boot = "efi"], [d EXCEPT !.boot = "other"], [d EXCEPT !.network = "other"],
      [d EXCEPT !.tag = "two words"], [d EXCEPT !.tag = " "],
      [d EXCEPT !.mount = "two words"], [d EXCEPT !.mount = ""],
      [d EXCEPT !.stateMount = " "],
      [DefaultFlags EXCEPT !.spec = "spec"], [DefaultFlags EXCEPT !.port = 4]}

MCDirect ==
  {DirectConfig,
   [DirectConfig EXCEPT !.ProxyVsockPorts = {1, 2}, !.MountPoint = "m"],
   [DirectConfig EXCEPT !.ProxyVsockPorts = {4}], [DirectConfig EXCEPT !.ProxyVsockPorts = {0}],
   [DirectConfig EXCEPT !.BootMode = "efi", !.KernelPath = "", !.AgentVsockPort = 2,
                        !.ProxyVsockPorts = {1}],
   [DirectConfig EXCEPT !.KernelPath = ""], [DirectConfig EXCEPT !.RootImage = ""],
   [DirectConfig EXCEPT !.EnableNetwork = TRUE, !.CIDR = "c", !.IfName = "eth0",
                        !.Gateway = "g"],
   [DirectConfig EXCEPT !.EnableNetwork = TRUE, !.Gateway = "bad"]}

MCCallers ==
  {FromFlags([DefaultFlags EXCEPT !.image = "img"]),
   [DirectConfig EXCEPT !.EnableNetwork = TRUE, !.CIDR = "c", !.IfName = "eth0", !.Gateway = "g"],
   [DirectConfig EXCEPT !.ProxyVsockPorts = {1, 2}, !.MountPoint = "m"]}

MCRequests ==
  {[oci |-> "spec", image |-> "img", id |-> i, rootfsPath |-> "rootfs",
    containerStateDisk |-> "disk"] : i \in {"vmrunner-container", "bad id"}}

MCChunks == {<<"x", NL>>, <<"x", CR, NL>>, <<NL, "x">>}

MCNetArgs ==
  {[ifName |-> "eth0", cidr |-> "c1", gateway |-> "g1"],
   [ifName |-> "eth0", cidr |-> "c2", gateway |-> "g2"],
   [ifName |-> "missing", cidr |-> "c1", gateway |-> "g1"]}

MCBenchArgs ==
  {[port |-> 2, totalBytes |-> 5, chunkBytes |-> 2], [port |-> 1, totalBytes |-> 1, chunkBytes |-> 3],
   [port |-> 2, totalBytes |-> 4, chunkBytes |-> 0], [port |-> 0, totalBytes |-> 1, chunkBytes |-> 1],
   [port |-> 2, totalBytes |-> 0, chunkBytes |-> 1]}
=============================================================================
