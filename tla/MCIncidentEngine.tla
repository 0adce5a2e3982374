-------------------------- MODULE MCIncidentEngine --------------------------
(***************************************************************************)
(* Instances of IncidentEngine for TLC: a gateway and a host behind it.    *)
(***************************************************************************)
EXTENDS IncidentEngine, TLC

CONSTANTS gw, host

Obs(health, condition, source, pressure, critical) ==
  [health |-> health, condition |-> condition, source |-> source,
   pressure |-> pressure, critical |-> critical]

Fine == Obs("healthy", NoCondition, "other", FALSE, FALSE)
Down == Obs("down", "asset_down", "other", FALSE, FALSE)
Degraded == Obs("degraded", NoCondition, "https", FALSE, FALSE)

TwoAssets == {gw, host}
HostBehindGateway == (gw :> {}) @@ (host :> {gw})
InOrder == (gw :> 0) @@ (host :> 1)

\* One provider reports a node and a guest in one batch, another the guest's site.
AssetOfCheck == ("node" :> gw) @@ ("guest" :> host) @@ ("web" :> host)
ProviderOfCheck == ("node" :> "proxmox") @@ ("guest" :> "proxmox") @@ ("web" :> "https")
CheckOrder == ("guest" :> 0) @@ ("node" :> 1) @@ ("web" :> 2)

\* One check per asset, each with a provider of its own.
OneCheckEach == ("node" :> gw) @@ ("web" :> host)
OwnProvider == ("node" :> "proxmox") @@ ("web" :> "https")

OwnOrder == ("node" :> 0) @@ ("web" :> 1)

\* In-flight batches are interchangeable.
InterchangeableHandlers == Permutations(Handlers)

FineOrDown == {Fine, Down}
FineOrTwoFaults == {Fine, Degraded, Down}
=============================================================================
