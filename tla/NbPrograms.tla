----------------------------- MODULE NbPrograms -----------------------------
(***************************************************************************)
(* The scenarios of ovn_nb.py and ovn_network.py that write the northbound *)
(* database, as the methods they call, in order.  Names are given by the   *)
(* caller: sws is a sequence of switches, portsOf[k] the ports of the k-th *)
(* one, aclsOf[k][j] the ACLs of its j-th port; b and pb are the "batch"   *)
(* of the switches and of the ports.                                       *)
(***************************************************************************)
EXTENDS NbMethods, SequencesExt

CreateLports(portsOf, pb, portSecurity) ==
    [k \in DOMAIN portsOf |-> CreateSwitchLports(portsOf[k], pb, portSecurity)]

CreateAcls(aclsOf) == [k \in DOMAIN aclsOf |-> CreateAcl(aclsOf[k])]

CreateAndListLswitches(sws, b) ==
    <<CreateLswitches(sws, b), Direct("asis", <<Show>>, {}, {})>>

CreateAndDeleteLswitches(sws, b) == <<CreateLswitches(sws, b), DeleteLswitch(sws)>>

CreateAndListLports(sws, portsOf, b, pb) ==
    <<CreateLswitches(sws, b)>> \o CreateLports(portsOf, pb, TRUE) \o <<ListEach(sws)>>

CreateAndDeleteLports(sws, portsOf, b, pb) ==
    <<CreateLswitches(sws, b)>> \o CreateLports(portsOf, pb, TRUE)
    \o <<DeleteLport(FlattenSeq(portsOf)), DeleteLswitch(sws)>>

CreateAndListAcls(sws, portsOf, aclsOf, b, pb) ==
    <<CreateLswitches(sws, b)>> \o CreateLports(portsOf, pb, TRUE)
    \o CreateAcls(aclsOf) \o <<ListEach(sws)>>

CreateAndDeleteAcls(sws, portsOf, aclsOf, b, pb) ==
    <<CreateLswitches(sws, b)>> \o CreateLports(portsOf, pb, TRUE)
    \o CreateAcls(aclsOf) \o <<DeleteAllAcls(sws)>>

CreateAndRemoveAddressSet(as) == <<CreateAddressSet(as), RemoveAddressSet(as)>>

\* _connect_networks_to_routers: lrps[k] and lsps[k] are the two ends of the
\* link of the k-th network.
ConnectNetworks(lrps, lsps) ==
    [k \in DOMAIN lrps |-> ConnectNetworkToRouter(lrps[k], lsps[k])]

\* OvnNetwork.create_routers, with a physical network when phys is not empty.
CreateRoutersScenario(lrs, sws, phys, lrps, lsps, b, pb) ==
    <<CreateRouters(lrs, b), CreateLswitches(sws, pb)>>
    \o (IF phys = <<>> THEN <<>> ELSE <<CreatePhynet(phys, pb)>>)
    \o ConnectNetworks(lrps, lsps)

\* _create_routed_network with a gateway router for each network, on a
\* router the datapath context created: g[k] names what belongs to network k.
CreateRoutedNetwork(router, sws, lrps, lsps, g, phys, ports, batch, pb) ==
    <<CreateLswitches(sws, pb)>> \o ConnectNetworks(lrps, lsps)
    \o [k \in DOMAIN g |-> ConnectGatewayRouter(g[k], batch)]
    \o <<CreatePhynet(phys, 1), ConnectGwRoutersRoutes(g, router, batch),
         CreateSwitchLports(ports, pb, TRUE), WaitUpPort(ports, 400, TRUE)>>
=============================================================================
