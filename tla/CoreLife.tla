----------------------------- MODULE CoreLife ------------------------------
(***************************************************************************)
(* core.c: an instance from vmi_init to vmi_destroy.  vmi_init of a KVM    *)
(* guest is in three parts, since it waits for the guest to connect.       *)
(***************************************************************************)
EXTENDS DriverLife, OsLife

\* set_id_and_name: exactly one of name, id and uuid.  A uuid that does not
\* resolve to an id with a name goes on to the check of the id.
set_id_and_name(s, F) ==
  LET named  == Got(s, "image")
      byuuid == driver_get_id_from_uuid(s, F)
      \* an id that was not found is larger than any domain's
      byid   == driver_check_id(s, IF s.i.by = "uuid" /\ ~byuuid THEN F \cup {"maxid", "getinfo"} ELSE F)
  IN  CASE s.i.by \notin {"name", "id", "uuid"} -> Fail(s)
        [] s.i.mode = "file" -> IF s.i.by = "name" THEN Got(named, "path") ELSE Fail(s)
        [] s.i.mode # "file" /\ s.i.by = "name" ->
             IF driver_get_id_from_name(s, F) THEN named ELSE Fail(s)
        [] OTHER ->
             IF s.i.by = "uuid" /\ byuuid /\ driver_get_name_from_id(s, F) THEN named
             ELSE IF ~byid.ok THEN byid
             \* Xen makes do with a placeholder for the name.
             ELSE IF ~driver_get_name_from_id(s, F) /\ s.i.mode # "xen" THEN Fail(s)
             ELSE Got(byid, "image")

\* os_destroy, called only when an interface is installed.
os_destroy(s) == Closed(Closed(Teardown(s, s.i.kind), "osif"), "osdata")

\* vmi_destroy.  The events tables, caches and pages are freed if they exist.
FreeInstance(s) ==
  LET tabs == Closed(s, "tables")
      os   == Closed(IF Has(tabs, "osif") THEN os_destroy(tabs) ELSE tabs, "osdata")
      mem  == Closed(Closed(Closed(os, "json"), "caches"), "pages")
      vmi  == Closed(Closed(mem, "image"), "vmi")
  IN  [vmi EXCEPT !.i = ZeroedInstance, !.ok = TRUE]

vmi_destroy(s) == FreeInstance(driver_destroy(s))

\* The error_exit label of vmi_init.
InitFailed(s) == Fail(vmi_destroy(s))

WatchOnly(s) == s.i.flags = {"watch"}

\* vmi_init before driver_init_vmi.  An instance that only watches for
\* domains is complete after driver_domainwatch_init.
InitBegin(s, F, mode, flags, by) ==
  LET new      == [Got([s EXCEPT !.i = ZeroedInstance, !.ok = TRUE], "vmi")
                     EXCEPT !.i.live = TRUE, !.i.mode = mode, !.i.flags = flags,
                            !.i.by = by]
      Watch(t) == IF "watch" \in flags THEN driver_domainwatch_init(t, F) ELSE t
      Name(t)  == IF WatchOnly(t) THEN t ELSE set_id_and_name(t, F)
  IN  OrElse(AndThen(AndThen(driver_init(new, F), Watch), Name), InitFailed)

\* vmi_init after driver_init_vmi.
InitEnd(s, F) ==
  LET Size(t)  == driver_get_memsize(t, F)
      Cache(t) == IF "events" \notin t.i.flags THEN Got(t, "caches")
                  \* events_init: a file has no events.
                  ELSE IF t.i.mode = "file" THEN Fail(Got(t, "caches"))
                  ELSE Got(Got(t, "caches"), "tables")
  IN  OrElse(AndThen(AndThen(s, Size), Cache), InitFailed)

\* vmi_init of a Xen guest or a file, in one.
vmi_init(s, F, mode, flags, by, guest) ==
  LET Attach(t) == IF mode = "xen" THEN xen_init_vmi(t, F, guest) ELSE file_init_vmi(t, F)
      Rest(t)   == IF WatchOnly(t) THEN t ELSE InitEnd(Attach(t), F)
  IN  AndThen(InitBegin(s, F, mode, flags, by), Rest)

\* vmi_init_paging: a file has no vCPU to ask.
vmi_init_paging(s, F, pm) ==
  IF s.i.mode = "file" \/ "pagemode" \in F THEN Fail([s EXCEPT !.i.pm = "unknown"])
  ELSE [s EXCEPT !.i.pm = pm]

\* set_os_type_from_config: the old os_data goes (what it points to does not),
\* and a second profile is refused.
set_os_type_from_config(s, F, cfg) ==
  LET clean  == [Forgot(Freed(s, "osdata"), {"osdata", "sysmap"}) EXCEPT !.i.os = "unknown"]
      loaded == cfg.json /\ ~Has(clean, "json") /\ "profile" \notin F
      prof   == IF loaded THEN Got(clean, "json") ELSE clean
      known  == (loaded /\ "profiletype" \notin F) \/ "ostype" \in cfg.keys
  IN  IF known THEN [prof EXCEPT !.i.os = cfg.os] ELSE Fail(prof)

\* init_config.  In JSON mode a table is made for the one entry.
init_config(s, F, cfg) ==
  IF "config" \in F THEN Fail([s EXCEPT !.i.os = "unknown"])
  ELSE set_os_type_from_config(IF cfg.path THEN Got(Forgot(s, {"config"}), "config")
                               ELSE s, F, cfg)

vmi_init_profile(s, F, cfg) == init_config(s, F, cfg)

\* vmi_init_os after init_config, which left the state t.
InitTyped(s, t, F, cfg, guest) ==
  LET Page(u)    == IF s.i.mode = "file" \/ s.i.pm # "unknown" THEN u
                    ELSE vmi_init_paging(u, F, guest.pm)
      Unknown(u) == Fail([u EXCEPT !.i.os = "unknown"])
      \* g_hash_table_destroy(_config): NULL when the type was not found.
      Done(u)    == IF cfg.path /\ t.ok THEN Closed(u, "config") ELSE u
      Failed(u)  == IF cfg.path THEN Fail(Closed(u, "json")) ELSE u
  IN  OrElse(Done(OrElse(AndThen(AndThen(t, Page), LAMBDA u :
               CASE cfg.os = "linux"   -> linux_init(u, F, cfg, guest)
                 [] cfg.os = "windows" -> windows_init(u, F, cfg, guest)
                 [] cfg.os = "freebsd" -> freebsd_init(u, F, cfg, guest)), Unknown)), Failed)

vmi_init_os(s, F, cfg, guest) ==
  InitTyped(s, init_config([s EXCEPT !.i.os = "unknown", !.ok = TRUE], F, cfg), F, cfg, guest)

\* vmi_init_complete, from the driver that vmi_get_access_mode finds.  A
\* failure after vmi_init frees the instance and nothing it holds.
vmi_init_complete(s, F, flags, by, present, cfg, guest) ==
  LET Page(t) == IF t.i.mode = "file" THEN t ELSE vmi_init_paging(t, F, guest.pm)
      Gone(t) == Fail([Closed(t, "vmi") EXCEPT !.i = ZeroedInstance])
  IN  IF by \notin {"name", "id"} THEN Fail(s)
      ELSE AndThen(driver_init_mode(s, F, by, present), LAMBDA t :
             AndThen(vmi_init(t, F, t.i.mode, flags, by, guest.type), LAMBDA u :
               OrElse(AndThen(Page(u), LAMBDA w : vmi_init_os(w, F, cfg, guest)), Gone)))
============================================================================
