---------------------------- MODULE DriverLife -----------------------------
(***************************************************************************)
(* The drivers: how each connects to its hypervisor (xen_init,             *)
(* xen_init_vmi, xen_init_events; kvm_init, kvm_init_vmi, init_kvmi;       *)
(* file_init, file_init_vmi), how it tests for a guest, and how it         *)
(* disconnects.  The libraries and hypercalls are external: a call in F    *)
(* fails.                                                                  *)
(***************************************************************************)
EXTENDS InstanceState

------------------------------- \* Xen

\* /sys/hypervisor says that this is Xen, and which.
xen_get_version(F) == "version" \notin F

\* A library is loaded, has every entry that this version must have, and its
\* connection opens; or it is unloaded again.
create_libxc_wrapper(F) == IF "libxc" \in F THEN {} ELSE {"libxc", "xc"}
create_libxs_wrapper(F) == IF "libxs" \in F THEN {} ELSE {"libxs", "xs"}

\* xen_init: the block is stored in the instance only when everything opened.
\* A libxenstore that cannot be opened closes the hypercall interface and
\* leaves libxenctrl loaded.
xen_init(s, F) ==
  LET xc == create_libxc_wrapper(F)
      xs == create_libxs_wrapper(F)
  IN  IF Has(s, "drv") THEN s
      ELSE IF ~xen_get_version(F) \/ xc = {} THEN Fail(s)
      ELSE IF xs = {} THEN Fail(Lost(s, xc \ {"xc"}))
      ELSE GotAll(s, xc \cup xs \cup {"drv"})

\* The xenstore is searched for the name or the uuid, or read at the id.
xen_get_domainid_from_name(F) == "name" \notin F
xen_get_domainid_from_uuid(F) == "uuid" \notin F
xen_get_name_from_domainid(F) == "idname" \notin F

xen_domainwatch_init_events(s, F) ==
  IF "evmem" \in F \/ ~Has(s, "drv") \/ "watch" \notin s.i.flags THEN Fail(s)
  ELSE Got(s, "evmem")

\* The err: label frees the events block and nothing it already held.
\* xen->events still names the block when the domain watch had stored it
\* there, or when the ABI turned out to be unknown after it was stored.
EventsErr(s, stored) ==
  LET freed == Freed(s, "evmem")
      held  == {"ring", "evtchn", "port"}
  IN  Fail(Forgot(freed, IF stored THEN held ELSE held \cup {"evmem"}))

xen_init_events(s, F) ==
  LET stored == Has(s, "evmem")
      block  == IF stored THEN s ELSE Got(s, "evmem")
      ring   == Got(block, "ring")
      chan   == IF s.i.extern THEN ring ELSE Got(ring, "evtchn")
      port   == Got(chan, "port")
  IN  CASE "minor" \in F -> Fail(s)
        [] "minor" \notin F /\ "evmem" \in F /\ ~stored -> Fail(s)
        \* EBUSY: a ring is enabled on the domain already.
        [] OTHER ->
             IF "monitor" \in F \/ s.own["ring"] > 0 THEN EventsErr(block, stored)
             ELSE IF "evtchn" \in F /\ ~s.i.extern THEN EventsErr(ring, stored)
             ELSE IF "bind" \in F THEN EventsErr(chan, stored)
             ELSE IF "abi" \in F THEN EventsErr(port, TRUE)
             ELSE port

\* Mutant: the ring page is unmapped but the monitor is left enabled.
xen_events_destroy_NoDisable(s) ==
  IF ~Has(s, "evmem") THEN s
  ELSE IF s.i.ptr["evmem"] = "freed" THEN Used(s, "evmem")
  ELSE Closed(Closed(Closed(Forgot(s, {"ring"}), "port"), "evtchn"), "evmem")

\* xen_events_destroy.  It pauses the domain unless it is paused already and
\* unpauses it at the end only if it paused it.  xc_monitor_disable is called
\* whether or not this instance enabled the ring.
xen_events_destroy(s) ==
  IF ~Has(s, "evmem") THEN s
  ELSE IF s.i.ptr["evmem"] = "freed" THEN Used(s, "evmem")
  ELSE LET ring == IF Has(s, "ring") \/ s.own["ring"] = 0 THEN Closed(s, "ring")
                   ELSE [s EXCEPT !.bad = @ \cup {"ring"}, !.own["ring"] = 0]
       IN  Closed(Closed(Closed(ring, "port"), "evtchn"), "evmem")

\* xen_destroy: the events only for an HVM guest of an instance with events.
\* The block goes, and everything it still points to is out of reach.
xen_destroy(s) ==
  IF ~Has(s, "drv") THEN s
  ELSE LET ev == IF s.i.vmtype = "hvm" /\ "events" \in s.i.flags
                 THEN xen_events_destroy(s) ELSE s
           ls == Closed(Closed(Closed(Closed(ev, "xc"), "libxc"), "xs"), "libxs")
       IN  Forgot(Closed(ls, "drv"), {"evmem", "ring", "evtchn", "port"})

\* A domain id that Xen does not confirm takes the whole driver down.
xen_check_domainid(s, F) ==
  IF "maxid" \in F THEN Fail(s)
  ELSE IF F \cap {"getinfo", "gone"} # {} THEN Fail(xen_destroy(s))
  ELSE s

\* xen_discover_pv_type: a domctl that fails is a success with no type.
xen_discover_pv_type(s, F, guest) ==
  IF "domctl" \in F THEN s
  ELSE IF "width" \in F THEN Fail(s) ELSE [s EXCEPT !.i.vmtype = guest]

xen_setup_live_mode(s) == Got(Closed(s, "pages"), "pages")

\* xc_domain_getinfo answers with the next domain when this one is gone.
xen_init_vmi(s, F, guest) ==
  LET info == [s EXCEPT !.i.info = IF "gone" \in F THEN "other" ELSE "own"]
      type == IF guest = "hvm" THEN [info EXCEPT !.i.vmtype = "hvm"]
              ELSE xen_discover_pv_type(info, F, guest)
      live == xen_setup_live_mode(type)
  IN  IF "getinfo" \in F THEN Fail(s)
      ELSE IF ~type.ok THEN type
      ELSE IF F \cap {"gpfn", "gone"} # {} THEN Fail(type)
      ELSE IF guest = "hvm" /\ "events" \in s.i.flags THEN xen_init_events(live, F)
      ELSE live

\* xen_get_memsize asks again, and fails only when no frame was ever reported.
xen_get_memsize(s, F) == IF "memsize" \in F THEN Fail(s) ELSE s

\* xen_test: a driver on an instance of its own, taken down whatever happens.
xen_test(s, F, by) ==
  LET opened == xen_init([s EXCEPT !.i = ZeroedInstance], F)
      named  == IF by = "name" /\ ~xen_get_domainid_from_name(F) THEN Fail(opened)
                ELSE xen_check_domainid(opened, F)
  IN  IF ~opened.ok THEN opened
      ELSE [xen_destroy(named) EXCEPT !.ok = named.ok]
------------------------------- \* KVM

\* What is loaded, and what stays loaded of a library that is refused.
create_libkvmi_wrapper(F) ==
  IF "libkvmi" \in F THEN {} ELSE {"libkvmi"}
create_libvirt_wrapper(F) ==
  IF "libvirt" \in F THEN {} ELSE {"libvirt"}

\* kvm_init: each failure frees the block only.  A libkvmi whose link map
\* cannot be had stays loaded.
kvm_init(s, F) ==
  LET kvmi == create_libkvmi_wrapper(F)
      virt == create_libvirt_wrapper(F)
  IN  IF "malloc" \in F \/ kvmi = {} THEN Fail(s)
      ELSE IF "dladdr" \in F \/ virt = {} THEN Fail(Lost(s, kvmi))
      ELSE IF "conn" \in F THEN Fail(Lost(s, kvmi \cup virt))
      ELSE GotAll(s, kvmi \cup virt \cup {"conn", "drv"})

\* libvirt is asked for the domain by name or by id.
kvm_get_id_from_name(F) == "name" \notin F
kvm_get_name_from_id(F) == F \cap {"idname", "getinfo"} = {}
kvm_check_id(s, F) == IF "getinfo" \in F THEN Fail(s) ELSE s

\* Switching the events off goes through the guest's handle.
kvm_events_destroy(s) == Used(s, "kvmidom")

\* kvm_close_vmi up to the guest's handle: the events are switched off first,
\* through the handle as it is.  The accepting thread still runs.
CloseGuest(s) ==
  Closed(IF "events" \in s.i.flags THEN kvm_events_destroy(s) ELSE s, "kvmidom")

\* The rest of it: stop the accepting thread, then leave libvirt.
CloseHost(s) == Closed(Closed(Closed(s, "kvmi"), "dom"), "conn")

kvm_close_vmi(s) == CloseHost(CloseGuest(s))

\* What kvm_destroy does after kvm_close_vmi.
FreeKvm(s) == Closed(Closed(Closed(s, "libkvmi"), "libvirt"), "drv")

kvm_destroy(s) == IF Has(s, "drv") THEN FreeKvm(kvm_close_vmi(s)) ELSE s

\* kvm_init_vmi up to the wait of init_kvmi, which starts listening with the
\* connect mutex held.
kvm_listen(s, F) ==
  LET dom == Got(s, "dom")
  IN  IF F \cap {"data", "dom"} # {} THEN Fail(s)
      ELSE IF "libver" \in F THEN Fail(kvm_close_vmi(dom))
      ELSE IF "kvmi" \in F THEN Fail(kvm_close_vmi([dom EXCEPT !.i.ptr["kvmidom"] = "null"]))
      ELSE Got(Forgot(dom, {"kvmidom"}), "kvmi")

\* init_kvmi after a wait that failed: the accepting thread is stopped, the
\* handle of a guest that came too late is closed, and its pointer stays.
GiveUp(s) == Fail(kvm_close_vmi(Freed(Closed(s, "kvmi"), "kvmidom")))

kvm_events_init(s, F) == IF "control" \in F THEN Fail(s) ELSE s

kvm_setup_live_mode(s) == Got(Closed(s, "pages"), "pages")

\* kvm_init_vmi after the wait.  A failed kvm_events_init returns at once.
kvm_connected(s, F) ==
  IF F \cap {"vcpus", "arrays"} # {} THEN Fail(kvm_close_vmi(s))
  ELSE IF "events" \in s.i.flags /\ ~kvm_events_init(s, F).ok THEN Fail(s)
  ELSE kvm_setup_live_mode(s)

kvm_get_memsize(s, F) == IF "memsize" \in F THEN Fail(s) ELSE s

\* new_guest_cb: a reconnection closes the handle of the connection before.
new_guest_cb(s) == [Freed(s, "kvmidom") EXCEPT !.i.ptr["kvmidom"] = "set"]

\* kvm_test: a driver on an instance of its own.
kvm_test(s, F, by) ==
  LET opened == kvm_init([s EXCEPT !.i = ZeroedInstance], F)
      found  == IF by = "name" THEN kvm_get_id_from_name(F) ELSE kvm_get_name_from_id(F)
  IN  IF ~opened.ok THEN opened ELSE [kvm_destroy(opened) EXCEPT !.ok = found]

------------------------------- \* A file

file_init(s) == Got(s, "drv")

\* file_destroy frees the block and leaves driver_data as it is.
file_destroy(s) ==
  IF s.i.ptr["drv"] = "freed" THEN Used(s, "drv")
  ELSE Freed(Closed(s, "file"), "drv")

file_init_vmi(s, F) ==
  IF "fopen" \in F THEN Fail(file_destroy(s)) ELSE Got(Got(s, "file"), "pages")

file_get_memsize(s, F) == IF "memsize" \in F THEN Fail(s) ELSE s

file_test(s, F) == IF F \cap {"fopen", "fstat"} # {} THEN Fail(s) ELSE s

------------------------------- \* driver_interface.c, driver_wrapper.h

driver_init(s, F) ==
  CASE s.i.mode = "xen"  -> xen_init(s, F)
    [] s.i.mode = "kvm"  -> kvm_init(s, F)
    [] s.i.mode = "file" -> file_init(s)

driver_domainwatch_init(s, F) ==
  IF s.i.mode = "xen" THEN xen_domainwatch_init_events(s, F) ELSE Fail(s)

\* The interface is zeroed afterwards, driver_data with it.
driver_destroy(s) ==
  Forgot(CASE s.i.mode = "xen"  -> xen_destroy(s)
           [] s.i.mode = "kvm"  -> kvm_destroy(s)
           [] s.i.mode = "file" -> file_destroy(s), {"drv"})

\* The file driver has none of these.
driver_get_id_from_name(s, F) ==
  CASE s.i.mode = "xen" -> xen_get_domainid_from_name(F)
    [] s.i.mode = "kvm" -> kvm_get_id_from_name(F) [] OTHER -> FALSE

driver_get_name_from_id(s, F) ==
  CASE s.i.mode = "xen" -> xen_get_name_from_domainid(F)
    [] s.i.mode = "kvm" -> kvm_get_name_from_id(F) [] OTHER -> FALSE

driver_get_id_from_uuid(s, F) == s.i.mode = "xen" /\ xen_get_domainid_from_uuid(F)

driver_check_id(s, F) ==
  CASE s.i.mode = "xen" -> xen_check_domainid(s, F)
    [] s.i.mode = "kvm" -> kvm_check_id(s, F)
    [] OTHER -> Fail(s)

driver_get_memsize(s, F) ==
  CASE s.i.mode = "xen"  -> xen_get_memsize(s, F)
    [] s.i.mode = "kvm"  -> kvm_get_memsize(s, F)
    [] s.i.mode = "file" -> file_get_memsize(s, F)

\* driver_init_mode: exactly one driver must find the guest.
driver_init_mode(s, F, by, present) ==
  LET file    == IF "file" \in present /\ by = "name" THEN file_test(s, F) ELSE Fail(s)
      Kvm(x)  == IF "kvm" \in present THEN kvm_test([s EXCEPT !.own = x.own], F, by) ELSE Fail(x)
      Of(x, k) ==
        LET found == {d \in {"xen", "kvm", "file"} :
                        CASE d = "xen" -> x.ok [] d = "kvm" -> k.ok [] d = "file" -> file.ok}
        IN  [s EXCEPT !.own = k.own, !.bad = @ \cup x.bad \cup k.bad,
                      !.ok = Cardinality(found) = 1,
                      !.i.mode = IF Cardinality(found) = 1 THEN CHOOSE d \in found : TRUE
                                 ELSE @]
      Both(x) == Of(x, Kvm(x))
  IN  Both(IF "xen" \in present THEN xen_test(s, F, by) ELSE Fail(s))
============================================================================
