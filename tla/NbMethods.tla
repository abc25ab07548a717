----------------------------- MODULE NbMethods -----------------------------
(***************************************************************************)
(* The methods of OvnScenario and OvnClientMixin that write the northbound *)
(* database, each as the data its control flow is driven by:               *)
(*   mode   the argument of enable_batch_mode() at its start: "on", "off", *)
(*          or "asis" when the method does not call it;                    *)
(*   items  the items of its loop, each with the commands run() is called  *)
(*          with for it;                                                   *)
(*   rule   when the loop calls flush() after an item: "count" (flush_count *)
(*          runs from batch down to 0), "modulo" (index % batch == 0) or   *)
(*          "never";                                                       *)
(*   sync   ovn_nbctl.sync() is called after the loop;                     *)
(*   gives, drops   the objects whose handles the method returns, and those *)
(*          it is called with to delete them.                              *)
(* NbScenario runs them.                                                   *)
(***************************************************************************)
EXTENDS NbDatabase

Modes == {"on", "off", "asis"}

Rules == {"count", "modulo", "never"}

Methods == [mode : Modes, items : Seq(Seq(Commands)), batch : Nat,
            rule : Rules, sync : BOOLEAN, gives : SUBSET Objs, drops : SUBSET Objs]

Elements(s) == {s[k] : k \in DOMAIN s}

Each(s, F(_)) == [k \in DOMAIN s |-> F(s[k])]

\* A method that writes in batch mode and flushes by counting items.
Counted(items, batch, objs) ==
    [mode |-> "on", items |-> items, batch |-> batch, rule |-> "count",
     sync |-> FALSE, gives |-> Elements(objs), drops |-> {}]

\* A method that writes in batch mode and flushes once, at its end.
AtOnce(items, dropped) ==
    [mode |-> "on", items |-> items, batch |-> 1, rule |-> "never",
     sync |-> FALSE, gives |-> {}, drops |-> dropped]

\* A method that runs each command at once; flush() has nothing to do in it.
Direct(mode, cs, objs, dropped) ==
    [mode |-> mode, items |-> <<cs>>, batch |-> 1, rule |-> "never",
     sync |-> FALSE, gives |-> objs, drops |-> dropped]

-----------------------------------------------------------------------------
\* lswitch_add(): ls-add, and a set of other_config for each of the three
\* mcast settings.
LswitchAdd(o) == <<Add(o), SetColumn(o, 2), SetColumn(o, 3), SetColumn(o, 4)>>

CreateLswitches(sws, batch) == Counted(Each(sws, LswitchAdd), batch, sws)

CreateRouters(lrs, batch) == Counted(Each(lrs, LAMBDA o : <<Add(o)>>), batch, lrs)

\* lsp-add, lsp-set-addresses and, by default, lsp-set-port-security.
CreateSwitchLports(ports, batch, portSecurity) ==
    Counted(Each(ports, LAMBDA o :
                <<Add(o), SetColumn(o, 2)>>
                \o IF portSecurity THEN <<SetColumn(o, 3)>> ELSE <<>>),
            batch, ports)

\* The localnet port of each switch: lsp-add, addresses, type, options.
CreatePhynet(ports, batch) ==
    Counted(Each(ports, LAMBDA o :
                <<Add(o), SetColumn(o, 2), SetColumn(o, 3), SetColumn(o, 4)>>),
            batch, ports)

\* acls[k] : the ACLs of the k-th lport, flushed lport by lport.
CreateAcl(acls) ==
    [Counted(Each(acls, LAMBDA as : Each(as, Add)), 1, <<>>)
        EXCEPT !.gives = UNION {Elements(acls[k]) : k \in DOMAIN acls}]

DeleteLswitch(sws) == AtOnce(Each(sws, LAMBDA o : <<Del(o)>>), Elements(sws))

DeleteLport(ports) == AtOnce(Each(ports, LAMBDA o : <<Del(o)>>), Elements(ports))

DeleteAllAcls(sws) ==
    AtOnce(Each(sws, LAMBDA o : <<AclDel(o)>>),
           {a \in Acls : Parent[a] \in Elements(sws)})

-----------------------------------------------------------------------------
\* _list_lports, _list_acl: one query for each switch, in the mode left by
\* the method before.
ListEach(sws) == Direct("asis", Each(sws, Get), {}, {})

\* lrp-add, then lsp-add and a set on the new port; batch mode is turned off
\* first, so the two flush() calls find nothing.
ConnectNetworkToRouter(lrp, lsp) ==
    Direct("off", <<Add(lrp), Add(lsp), SetColumn(lsp, 2)>>, {lrp, lsp}, {})

PortGroupAdd(pg) == Direct("asis", <<Add(pg)>>, {pg}, {})

\* The port's _uuid is read, then added to the group's ports.
PortGroupAddPort(pg, port, n) == Direct("off", <<Get(port), SetColumn(pg, n)>>, {}, {})

CreateAddressSet(as) == Direct("asis", <<Add(as)>>, {as}, {})

AddressSetAddAddrs(as, n) == Direct("asis", <<SetColumn(as, n)>>, {}, {})

RemoveAddressSet(as) == Direct("asis", <<Del(as)>>, {}, {as})

-----------------------------------------------------------------------------
\* The gateway router of a network: the join switch, the gateway router and
\* the external switch with the ports between them and the cluster router.
\* g names them; batch (a boolean here) is the argument of enable_batch_mode().
ConnectGatewayRouter(g, batch) ==
    [(IF batch THEN AtOnce(<<>>, {}) ELSE Direct("off", <<>>, {}, {}))
        EXCEPT !.items =
            <<<<Add(g.joinSwitch), Add(g.rpj),
                Add(g.jrp), SetColumn(g.jrp, 2),
                Add(g.gwRouter), SetColumn(g.gwRouter, 2),
                Add(g.grpj), Add(g.jrpg), SetColumn(g.jrpg, 2),
                Add(g.extSwitch), Add(g.grpe),
                Add(g.erpg), SetColumn(g.erpg, 2)>>>>,
        !.gives = {g[f] : f \in DOMAIN g}]

\* Options, three routes and the SNAT rule of each gateway router, which are
\* columns of it and, for the third route, of the cluster router.
ConnectGwRoutersRoutes(gs, router, batch) ==
    [Counted(Each(gs, LAMBDA g :
                <<SetColumn(g.gwRouter, 3), SetColumn(g.gwRouter, 4),
                  SetColumn(g.gwRouter, 5), SetColumn(router, 2),
                  SetColumn(g.gwRouter, 6)>>),
             1, <<>>)
        EXCEPT !.mode = IF batch THEN "on" ELSE "off"]

\* wait-until for each port, flushed at the first port and every period ports
\* after it, then sync() unless wait_sync is 'none'.
WaitUpPort(ports, period, waitSync) ==
    [mode |-> "on", items |-> Each(ports, LAMBDA o : <<Get(o)>>), batch |-> period,
     rule |-> "modulo", sync |-> waitSync, gives |-> {}, drops |-> {}]
=============================================================================
