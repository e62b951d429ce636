------------------------- MODULE Deployment_proofs -------------------------
(***************************************************************************)
(* Proofs about the deployments and the readers of their files, for any    *)
(* number of deployments, wherever their broadcasts stop.  First what the  *)
(* two scripts are, transaction by transaction; then what a broadcast does *)
(* to the chain; then, for the last deployment of each kind, how much of   *)
(* it was sent and what its file says (DeploymentInv); then what the       *)
(* insurance contracts were built with, and what an operator that loaded   *)
(* the files can still find (BuiltsOK, TsOK); then the Rust operator.      *)
(***************************************************************************)
EXTENDS Deployment, SequenceTheorems, TLAPS

----------------------------------------------------------------------------
(* The scripts as sequences.                                               *)
IsSeq(s) == \E S : s \in Seq(S)

(* A function on 1 .. n is a sequence of length n.                         *)
LEMMA FunctionIsSeq ==
    ASSUME NEW n \in Nat, NEW f, f = [i \in 1 .. n |-> f[i]]
    PROVE  IsSeq(f) /\ Len(f) = n
<1>1. PICK S : S = {f[i] : i \in 1 .. n}
  OBVIOUS
<1>2. f \in [1 .. n -> S]
  BY <1>1
<1>3. f \in Seq(S)
  BY <1>2, SeqDef
<1>4. PICK k \in Nat : k = Len(f) /\ 1 .. k = 1 .. n
  BY <1>2, <1>3, LenProperties
<1>5. k = n
  BY <1>4
<1>6. QED
  BY <1>3, <1>4, <1>5 DEF IsSeq

(* The parts of a concatenation are its operands.                          *)
LEMMA ConcatParts ==
    ASSUME NEW s, NEW t, IsSeq(s), IsSeq(t)
    PROVE  /\ IsSeq(s \o t) /\ Len(s \o t) = Len(s) + Len(t)
           /\ \A i \in 1 .. Len(s) : (s \o t)[i] = s[i]
           /\ \A i \in Len(s) + 1 .. Len(s) + Len(t) : (s \o t)[i] = t[i - Len(s)]
<1>0. PICK S1, S2 : s \in Seq(S1) /\ t \in Seq(S2)
  BY DEF IsSeq
<1>1. PICK S : S = S1 \cup S2
  OBVIOUS
<1>2. s \in Seq(S) /\ t \in Seq(S)
  BY <1>0, <1>1, SeqMonotonic
<1>3. PICK u, m, n : u = s \o t /\ m = Len(s) /\ n = Len(t)
  OBVIOUS
<1>4. u \in Seq(S) /\ Len(u) = m + n /\ m \in Nat /\ n \in Nat
  BY <1>2, <1>3, ConcatProperties, LenProperties
<1>5. \A i \in 1 .. m + n : u[i] = IF i <= m THEN s[i] ELSE t[i - m]
  BY <1>2, <1>3, ConcatProperties
<1>6. \A i \in 1 .. m : u[i] = s[i]
  BY <1>4, <1>5
<1>7. \A i \in m + 1 .. m + n : u[i] = t[i - m]
  BY <1>4, <1>5
<1>8. QED BY <1>3, <1>4, <1>6, <1>7 DEF IsSeq

LEMMA CoreParts ==
    /\ IsSeq(News(CoreImplementations)) /\ Len(News(CoreImplementations)) = 11
    /\ IsSeq(setUpEmptyProxies(CoreProxies)) /\ Len(setUpEmptyProxies(CoreProxies)) = 16
    /\ IsSeq(CoreUpgrades) /\ Len(CoreUpgrades) = 7
    /\ IsSeq(<<New("proxyAdmin")>>) /\ Len(<<New("proxyAdmin")>>) = 1
<1>1. News(CoreImplementations) = [i \in 1 .. 11 |-> News(CoreImplementations)[i]]
  BY DEF CoreImplementations, News
<1>2. setUpEmptyProxies(CoreProxies) = [i \in 1 .. 16 |-> setUpEmptyProxies(CoreProxies)[i]]
  BY DEF CoreProxies, setUpEmptyProxies
<1>3. CoreUpgrades = [i \in 1 .. 7 |-> CoreUpgrades[i]]
  BY DEF CoreUpgrades
<1>4. <<New("proxyAdmin")>> = [i \in 1 .. 1 |-> <<New("proxyAdmin")>>[i]]
  OBVIOUS
<1>5. QED BY <1>1, <1>2, <1>3, <1>4, FunctionIsSeq

Glued(u, s, t) ==
    /\ IsSeq(u)
    /\ Len(u) = Len(s) + Len(t)
    /\ \A i \in 1 .. Len(s) : u[i] = s[i]
    /\ \A i \in Len(s) + 1 .. Len(s) + Len(t) : u[i] = t[i - Len(s)]

LEMMA ConcatGlued ==
    ASSUME NEW s, NEW t, IsSeq(s), IsSeq(t)
    PROVE  Glued(s \o t, s, t)
BY ConcatParts DEF Glued

LEMMA CoreSeq ==
    /\ IsSeq(CoreScript) /\ Len(CoreScript) = 35
    /\ CoreScript[1] = New("proxyAdmin")
    /\ \A i \in 2 .. 17 : CoreScript[i] = setUpEmptyProxies(CoreProxies)[i - 1]
    /\ \A i \in 18 .. 28 : CoreScript[i] = News(CoreImplementations)[i - 17]
    /\ \A i \in 29 .. 35 : CoreScript[i] = CoreUpgrades[i - 28]
<1>1. PICK a, b, c, d :
        /\ a = <<New("proxyAdmin")>> /\ b = setUpEmptyProxies(CoreProxies)
        /\ c = News(CoreImplementations) /\ d = CoreUpgrades
  OBVIOUS
<1>2. /\ IsSeq(a) /\ IsSeq(b) /\ IsSeq(c) /\ IsSeq(d) /\ a[1] = New("proxyAdmin")
      /\ Len(a) = 1 /\ Len(b) = 16 /\ Len(c) = 11 /\ Len(d) = 7
  BY <1>1, CoreParts
<1>3. PICK x, y, z : x = a \o b /\ y = x \o c /\ z = y \o d
  OBVIOUS
<1>4. Glued(x, a, b)
  BY <1>2, <1>3, ConcatGlued
<1>5. Glued(y, x, c)
  <2>1. IsSeq(x)
    BY <1>4 DEF Glued
  <2>2. QED
    BY <2>1, <1>2, <1>3, ConcatGlued
<1>6. Glued(z, y, d)
  <2>1. IsSeq(y)
    BY <1>5 DEF Glued
  <2>2. QED
    BY <2>1, <1>2, <1>3, ConcatGlued
<1>7. Len(x) = 17 /\ Len(y) = 28 /\ Len(z) = 35
  BY <1>2, <1>4, <1>5, <1>6 DEF Glued
<1>8. z = CoreScript
  BY <1>1, <1>3 DEF CoreScript
<1>9. IsSeq(z) /\ \A i \in 1 .. 28 : z[i] = y[i]
  BY <1>2, <1>6, <1>7 DEF Glued
<1>10. \A i \in 29 .. 35 : z[i] = d[i - 28]
  BY <1>2, <1>6, <1>7 DEF Glued
<1>11. \A i \in 1 .. 17 : y[i] = x[i]
  BY <1>2, <1>5, <1>7 DEF Glued
<1>12. \A i \in 18 .. 28 : y[i] = c[i - 17]
  BY <1>2, <1>5, <1>7 DEF Glued
<1>13. x[1] = a[1] /\ \A i \in 2 .. 17 : x[i] = b[i - 1]
  BY <1>2, <1>4, <1>7 DEF Glued
<1>14. QED
  BY <1>1, <1>2, <1>7, <1>8, <1>9, <1>10, <1>11, <1>12, <1>13

InsuranceImplementations == <<"stakeRegistryImpl", "insuranceServiceManagerImpl">>
InsuranceUpgrades ==
    <<upgradeAndCall("stakeRegistry", "stakeRegistryImpl"),
      upgradeAndCall("insuranceServiceManager", "insuranceServiceManagerImpl")>>

LEMMA InsuranceSeq ==
    /\ IsSeq(InsuranceScript) /\ Len(InsuranceScript) = 9
    /\ InsuranceScript[1] = New("proxyAdmin")
    /\ InsuranceScript[2] = New("EmptyContract")
    /\ InsuranceScript[3] = NewProxy("insuranceServiceManager")
    /\ InsuranceScript[4] = New("EmptyContract")
    /\ InsuranceScript[5] = NewProxy("stakeRegistry")
    /\ InsuranceScript[6] = New("stakeRegistryImpl")
    /\ InsuranceScript[7] = New("insuranceServiceManagerImpl")
    /\ InsuranceScript[8] = upgradeAndCall("stakeRegistry", "stakeRegistryImpl")
    /\ InsuranceScript[9] = upgradeAndCall("insuranceServiceManager", "insuranceServiceManagerImpl")
<1>1. PICK a, b, c, d, e :
        /\ a = <<New("proxyAdmin")>>
        /\ b = setUpEmptyProxy("insuranceServiceManager")
        /\ c = setUpEmptyProxy("stakeRegistry")
        /\ d = News(InsuranceImplementations)
        /\ e = InsuranceUpgrades
  OBVIOUS
<1>2. /\ IsSeq(a) /\ Len(a) = 1 /\ a[1] = New("proxyAdmin")
      /\ IsSeq(b) /\ Len(b) = 2 /\ b[1] = New("EmptyContract") /\ b[2] = NewProxy("insuranceServiceManager")
      /\ IsSeq(c) /\ Len(c) = 2 /\ c[1] = New("EmptyContract") /\ c[2] = NewProxy("stakeRegistry")
      /\ IsSeq(d) /\ Len(d) = 2 /\ d[1] = New("stakeRegistryImpl") /\ d[2] = New("insuranceServiceManagerImpl")
      /\ IsSeq(e) /\ Len(e) = 2 /\ e[1] = upgradeAndCall("stakeRegistry", "stakeRegistryImpl")
      /\ e[2] = upgradeAndCall("insuranceServiceManager", "insuranceServiceManagerImpl")
  <2>1. /\ a = [i \in 1 .. 1 |-> a[i]] /\ b = [i \in 1 .. 2 |-> b[i]]
        /\ c = [i \in 1 .. 2 |-> c[i]] /\ e = [i \in 1 .. 2 |-> e[i]]
    BY <1>1 DEF setUpEmptyProxy, InsuranceUpgrades
  <2>2. d = [i \in 1 .. 2 |-> d[i]] /\ d[1] = New("stakeRegistryImpl") /\ d[2] = New("insuranceServiceManagerImpl")
    BY <1>1 DEF News, InsuranceImplementations
  <2>3. /\ IsSeq(a) /\ Len(a) = 1 /\ IsSeq(b) /\ Len(b) = 2 /\ IsSeq(c) /\ Len(c) = 2
        /\ IsSeq(d) /\ Len(d) = 2 /\ IsSeq(e) /\ Len(e) = 2
    BY <2>1, <2>2, FunctionIsSeq
  <2>4. /\ a[1] = New("proxyAdmin")
        /\ b[1] = New("EmptyContract") /\ b[2] = NewProxy("insuranceServiceManager")
        /\ c[1] = New("EmptyContract") /\ c[2] = NewProxy("stakeRegistry")
        /\ e[1] = upgradeAndCall("stakeRegistry", "stakeRegistryImpl")
        /\ e[2] = upgradeAndCall("insuranceServiceManager", "insuranceServiceManagerImpl")
    BY <1>1 DEF setUpEmptyProxy, InsuranceUpgrades
  <2>5. QED
    BY <2>2, <2>3, <2>4
<1>3. PICK w, x, y, z : w = a \o b /\ x = w \o c /\ y = x \o d /\ z = y \o e
  OBVIOUS
<1>4. Glued(w, a, b)
  BY <1>2, <1>3, ConcatGlued
<1>5. Glued(x, w, c)
  <2>1. IsSeq(w)
    BY <1>4 DEF Glued
  <2>2. QED
    BY <2>1, <1>2, <1>3, ConcatGlued
<1>6. Glued(y, x, d)
  <2>1. IsSeq(x)
    BY <1>5 DEF Glued
  <2>2. QED
    BY <2>1, <1>2, <1>3, ConcatGlued
<1>7. Glued(z, y, e)
  <2>1. IsSeq(y)
    BY <1>6 DEF Glued
  <2>2. QED
    BY <2>1, <1>2, <1>3, ConcatGlued
<1>8. z = InsuranceScript
  BY <1>1, <1>3 DEF InsuranceScript, InsuranceImplementations, InsuranceUpgrades
<1>9. Len(w) = 3 /\ Len(x) = 5 /\ Len(y) = 7 /\ Len(z) = 9 /\ IsSeq(z)
  BY <1>2, <1>4, <1>5, <1>6, <1>7 DEF Glued
<1>10. w[1] = a[1] /\ w[2] = b[1] /\ w[3] = b[2]
  BY <1>2, <1>4, <1>9 DEF Glued
<1>11. x[1] = w[1] /\ x[2] = w[2] /\ x[3] = w[3] /\ x[4] = c[1] /\ x[5] = c[2]
  BY <1>2, <1>5, <1>9 DEF Glued
<1>12. /\ \A i \in 1 .. 5 : y[i] = x[i]
       /\ y[6] = d[1] /\ y[7] = d[2]
  BY <1>2, <1>6, <1>9 DEF Glued
<1>13. /\ \A i \in 1 .. 7 : z[i] = y[i]
       /\ z[8] = e[1] /\ z[9] = e[2]
  BY <1>2, <1>7, <1>9 DEF Glued
<1>14. QED
  BY <1>2, <1>8, <1>9, <1>10, <1>11, <1>12, <1>13

(* The script of the core, transaction by transaction: eight empty         *)
(* proxies, eleven implementations, seven upgrades.                        *)
LEMMA CoreTable ==
    /\ CoreScript[1] = New("proxyAdmin")
    /\ CoreScript[2] = New("EmptyContract") /\ CoreScript[3] = NewProxy("delegationManager")
    /\ CoreScript[4] = New("EmptyContract") /\ CoreScript[5] = NewProxy("avsDirectory")
    /\ CoreScript[6] = New("EmptyContract") /\ CoreScript[7] = NewProxy("strategyManager")
    /\ CoreScript[8] = New("EmptyContract") /\ CoreScript[9] = NewProxy("eigenPodManager")
    /\ CoreScript[10] = New("EmptyContract") /\ CoreScript[11] = NewProxy("rewardsCoordinator")
    /\ CoreScript[12] = New("EmptyContract") /\ CoreScript[13] = NewProxy("eigenPodBeacon")
    /\ CoreScript[14] = New("EmptyContract") /\ CoreScript[15] = NewProxy("pauserRegistry")
    /\ CoreScript[16] = New("EmptyContract") /\ CoreScript[17] = NewProxy("strategyFactory")
    /\ CoreScript[18] = New("delegationManagerImpl")
    /\ CoreScript[19] = New("avsDirectoryImpl")
    /\ CoreScript[20] = New("strategyManagerImpl")
    /\ CoreScript[21] = New("strategyFactoryImpl")
    /\ CoreScript[22] = New("eigenPodManagerImpl")
    /\ CoreScript[23] = New("rewardsCoordinatorImpl")
    /\ CoreScript[24] = New("eigenPodImpl")
    /\ CoreScript[25] = New("eigenPodBeaconImpl")
    /\ CoreScript[26] = New("baseStrategyImpl")
    /\ CoreScript[27] = New("pauserRegistryImpl")
    /\ CoreScript[28] = New("strategyBeacon")
    /\ CoreScript[29] = upgradeAndCall("delegationManager", "delegationManagerImpl")
    /\ CoreScript[30] = upgradeAndCall("strategyManager", "strategyManagerImpl")
    /\ CoreScript[31] = upgradeAndCall("strategyFactory", "strategyFactoryImpl")
    /\ CoreScript[32] = upgradeAndCall("eigenPodManager", "eigenPodManagerImpl")
    /\ CoreScript[33] = upgradeAndCall("avsDirectory", "avsDirectoryImpl")
    /\ CoreScript[34] = upgradeAndCall("rewardsCoordinator", "rewardsCoordinatorImpl")
    /\ CoreScript[35] = upgradeAndCall("eigenPodBeacon", "eigenPodImpl")
  BY CoreSeq DEF CoreImplementations, News, CoreProxies, setUpEmptyProxies, setUpEmptyProxy, CoreUpgrades

(* Transaction i of the script makes the contract x, and no other does.    *)
Makes(s, i, x) ==
    /\ i \in DOMAIN s /\ s[i].op = "create" /\ s[i].name = x
    /\ \A k \in DOMAIN s : s[k].op = "create" /\ s[k].name = x => k = i

(* A contract that one transaction alone creates is found there.           *)
LEMMA PlaceIs ==
    ASSUME NEW s, NEW i, NEW x, Makes(s, i, x)
    PROVE  Place(s, x) = i
BY DEF Makes, Place

LEMMA DomainOfSeq ==
    ASSUME NEW s, IsSeq(s)
    PROVE  DOMAIN s = 1 .. Len(s)
BY LenProperties DEF IsSeq

LEMMA CoreNames ==
    /\ DOMAIN CoreScript = 1 .. 35
    /\ \A i \in 1 .. 28 : CoreScript[i].op = "create"
    /\ \A i \in 29 .. 35 : CoreScript[i].op = "upgrade"
    /\ CoreScript[1].name = "proxyAdmin"
    /\ CoreScript[3].name = "delegationManager"
    /\ CoreScript[5].name = "avsDirectory"
    /\ CoreScript[7].name = "strategyManager"
    /\ CoreScript[9].name = "eigenPodManager"
    /\ CoreScript[11].name = "rewardsCoordinator"
    /\ CoreScript[13].name = "eigenPodBeacon"
    /\ CoreScript[15].name = "pauserRegistry"
    /\ CoreScript[17].name = "strategyFactory"
    /\ CoreScript[18].name = "delegationManagerImpl"
    /\ CoreScript[19].name = "avsDirectoryImpl"
    /\ CoreScript[20].name = "strategyManagerImpl"
    /\ CoreScript[21].name = "strategyFactoryImpl"
    /\ CoreScript[22].name = "eigenPodManagerImpl"
    /\ CoreScript[23].name = "rewardsCoordinatorImpl"
    /\ CoreScript[24].name = "eigenPodImpl"
    /\ CoreScript[25].name = "eigenPodBeaconImpl"
    /\ CoreScript[26].name = "baseStrategyImpl"
    /\ CoreScript[27].name = "pauserRegistryImpl"
    /\ CoreScript[28].name = "strategyBeacon"
    /\ \A i \in {2, 4, 6, 8, 10, 12, 14, 16} : CoreScript[i].name = "EmptyContract"
<1>1. DOMAIN CoreScript = 1 .. 35
  BY CoreSeq, DomainOfSeq
<1>2. \A i \in 1 .. 28 : CoreScript[i].op = "create"
  BY CoreTable DEF New, NewProxy
<1>3. \A i \in 29 .. 35 : CoreScript[i].op = "upgrade"
  BY CoreTable DEF upgradeAndCall
<1>4. QED
  BY <1>1, <1>2, <1>3, CoreTable DEF New, NewProxy

(* Where the contracts of the core are found.                              *)
LEMMA CorePlaces ==
    /\ Place(CoreScript, "proxyAdmin") = 1
    /\ Place(CoreScript, "delegationManager") = 3
    /\ Place(CoreScript, "avsDirectory") = 5
    /\ Place(CoreScript, "strategyManager") = 7
    /\ Place(CoreScript, "eigenPodManager") = 9
    /\ Place(CoreScript, "rewardsCoordinator") = 11
    /\ Place(CoreScript, "eigenPodBeacon") = 13
    /\ Place(CoreScript, "pauserRegistry") = 15
    /\ Place(CoreScript, "strategyFactory") = 17
    /\ Place(CoreScript, "delegationManagerImpl") = 18
    /\ Place(CoreScript, "avsDirectoryImpl") = 19
    /\ Place(CoreScript, "strategyManagerImpl") = 20
    /\ Place(CoreScript, "strategyFactoryImpl") = 21
    /\ Place(CoreScript, "eigenPodManagerImpl") = 22
    /\ Place(CoreScript, "strategyBeacon") = 28
<1>1. Makes(CoreScript, 1, "proxyAdmin")
  BY CoreNames DEF Makes
<1>2. Makes(CoreScript, 3, "delegationManager")
  BY CoreNames DEF Makes
<1>3. Makes(CoreScript, 5, "avsDirectory")
  BY CoreNames DEF Makes
<1>4. Makes(CoreScript, 7, "strategyManager")
  BY CoreNames DEF Makes
<1>5. Makes(CoreScript, 9, "eigenPodManager")
  BY CoreNames DEF Makes
<1>6. Makes(CoreScript, 11, "rewardsCoordinator")
  BY CoreNames DEF Makes
<1>7. Makes(CoreScript, 13, "eigenPodBeacon")
  BY CoreNames DEF Makes
<1>8. Makes(CoreScript, 15, "pauserRegistry")
  BY CoreNames DEF Makes
<1>9. Makes(CoreScript, 17, "strategyFactory")
  BY CoreNames DEF Makes
<1>10. Makes(CoreScript, 18, "delegationManagerImpl")
  BY CoreNames DEF Makes
<1>11. Makes(CoreScript, 19, "avsDirectoryImpl")
  BY CoreNames DEF Makes
<1>12. Makes(CoreScript, 20, "strategyManagerImpl")
  BY CoreNames DEF Makes
<1>13. Makes(CoreScript, 21, "strategyFactoryImpl")
  BY CoreNames DEF Makes
<1>14. Makes(CoreScript, 22, "eigenPodManagerImpl")
  BY CoreNames DEF Makes
<1>15. Makes(CoreScript, 28, "strategyBeacon")
  BY CoreNames DEF Makes
<1>16. QED
  BY <1>1, <1>2, <1>3, <1>4, <1>5, <1>6, <1>7, <1>8, <1>9, <1>10, <1>11, <1>12, <1>13, <1>14, <1>15, PlaceIs

LEMMA InsuranceNames ==
    /\ DOMAIN InsuranceScript = 1 .. 9
    /\ \A i \in 1 .. 7 : InsuranceScript[i].op = "create"
    /\ \A i \in 8 .. 9 : InsuranceScript[i].op = "upgrade"
    /\ InsuranceScript[1].name = "proxyAdmin"
    /\ InsuranceScript[2].name = "EmptyContract"
    /\ InsuranceScript[3].name = "insuranceServiceManager"
    /\ InsuranceScript[4].name = "EmptyContract"
    /\ InsuranceScript[5].name = "stakeRegistry"
    /\ InsuranceScript[6].name = "stakeRegistryImpl"
    /\ InsuranceScript[7].name = "insuranceServiceManagerImpl"
<1>1. DOMAIN InsuranceScript = 1 .. 9
  BY InsuranceSeq, DomainOfSeq
<1>2. \A i \in 1 .. 7 : InsuranceScript[i].op = "create"
  BY InsuranceSeq DEF New, NewProxy
<1>3. \A i \in 8 .. 9 : InsuranceScript[i].op = "upgrade"
  BY InsuranceSeq DEF upgradeAndCall
<1>4. QED
  BY <1>1, <1>2, <1>3, InsuranceSeq DEF New, NewProxy

LEMMA InsurancePlaces ==
    /\ Place(InsuranceScript, "proxyAdmin") = 1
    /\ Place(InsuranceScript, "insuranceServiceManager") = 3
    /\ Place(InsuranceScript, "stakeRegistry") = 5
    /\ Place(InsuranceScript, "stakeRegistryImpl") = 6
    /\ Place(InsuranceScript, "insuranceServiceManagerImpl") = 7
<1>1. Makes(InsuranceScript, 1, "proxyAdmin")
  BY InsuranceNames DEF Makes
<1>2. Makes(InsuranceScript, 3, "insuranceServiceManager")
  BY InsuranceNames DEF Makes
<1>3. Makes(InsuranceScript, 5, "stakeRegistry")
  BY InsuranceNames DEF Makes
<1>4. Makes(InsuranceScript, 6, "stakeRegistryImpl")
  BY InsuranceNames DEF Makes
<1>5. Makes(InsuranceScript, 7, "insuranceServiceManagerImpl")
  BY InsuranceNames DEF Makes
<1>6. QED
  BY <1>1, <1>2, <1>3, <1>4, <1>5, PlaceIs

(* The creation whose contract transaction j upgrades.                     *)
Target(s, j) == Place(s, s[j].name)

(* Every upgrade comes after the creation of its contract, which is an     *)
(* empty one, and no two upgrades are of one contract.                     *)
ScriptOK(s) ==
    /\ Len(s) \in Nat \ {0}
    /\ \A i \in 1 .. Len(s) : s[i].op \in {"create", "upgrade"}
    /\ \A j \in 1 .. Len(s) : s[j].op = "upgrade" =>
          /\ Target(s, j) \in 1 .. j - 1
          /\ s[Target(s, j)].op = "create"
          /\ s[Target(s, j)].code = "EmptyContract"
    /\ \A j, k \in 1 .. Len(s) :
          s[j].op = "upgrade" /\ s[k].op = "upgrade" /\ j # k => Target(s, j) # Target(s, k)

(* What the upgrades of the core are of, and to what; the proxies begin    *)
(* with an empty contract.                                                 *)
LEMMA CoreTargets ==
    /\ Target(CoreScript, 29) = 3 /\ CoreScript[29].code = "delegationManagerImpl"
    /\ Target(CoreScript, 30) = 7 /\ CoreScript[30].code = "strategyManagerImpl"
    /\ Target(CoreScript, 31) = 17 /\ CoreScript[31].code = "strategyFactoryImpl"
    /\ Target(CoreScript, 32) = 9 /\ CoreScript[32].code = "eigenPodManagerImpl"
    /\ Target(CoreScript, 33) = 5 /\ CoreScript[33].code = "avsDirectoryImpl"
    /\ Target(CoreScript, 34) = 11 /\ CoreScript[34].code = "rewardsCoordinatorImpl"
    /\ Target(CoreScript, 35) = 13 /\ CoreScript[35].code = "eigenPodImpl"
    /\ \A i \in {3, 5, 7, 9, 11, 13, 15, 17} : CoreScript[i].code = "EmptyContract"
<1>1. \A i \in {3, 5, 7, 9, 11, 13, 15, 17} : CoreScript[i].code = "EmptyContract"
  BY CoreTable DEF NewProxy
<1>2. /\ CoreScript[29].code = "delegationManagerImpl"
      /\ CoreScript[30].code = "strategyManagerImpl"
      /\ CoreScript[31].code = "strategyFactoryImpl"
      /\ CoreScript[32].code = "eigenPodManagerImpl"
      /\ CoreScript[33].code = "avsDirectoryImpl"
      /\ CoreScript[34].code = "rewardsCoordinatorImpl"
      /\ CoreScript[35].code = "eigenPodImpl"
  BY CoreTable DEF upgradeAndCall
<1>3. /\ CoreScript[29].name = "delegationManager"
      /\ CoreScript[30].name = "strategyManager"
      /\ CoreScript[31].name = "strategyFactory"
      /\ CoreScript[32].name = "eigenPodManager"
      /\ CoreScript[33].name = "avsDirectory"
      /\ CoreScript[34].name = "rewardsCoordinator"
      /\ CoreScript[35].name = "eigenPodBeacon"
  BY CoreTable DEF upgradeAndCall
<1>4. QED
  BY <1>1, <1>2, <1>3, CorePlaces DEF Target

LEMMA CoreScriptOK == ScriptOK(CoreScript) /\ Len(CoreScript) = 35
<1>1. Len(CoreScript) = 35
  BY CoreSeq
<1>2. \A i \in 1 .. 35 : CoreScript[i].op \in {"create", "upgrade"}
  BY CoreNames
<1>3. \A j \in 1 .. 35 : CoreScript[j].op = "upgrade" =>
          /\ j >= 29
          /\ Target(CoreScript, j) \in {3, 5, 7, 9, 11, 13, 17}
  BY CoreNames, CoreTargets
<1>4. \A i \in {3, 5, 7, 9, 11, 13, 17} :
          CoreScript[i].op = "create" /\ CoreScript[i].code = "EmptyContract"
  BY CoreNames, CoreTargets
<1>5. \A j, k \in 29 .. 35 : j # k => Target(CoreScript, j) # Target(CoreScript, k)
  BY CoreTargets
<1>6. ASSUME NEW j \in 1 .. 35, CoreScript[j].op = "upgrade"
      PROVE  /\ Target(CoreScript, j) \in 1 .. j - 1
             /\ CoreScript[Target(CoreScript, j)].op = "create"
             /\ CoreScript[Target(CoreScript, j)].code = "EmptyContract"
  <2>1. j >= 29 /\ Target(CoreScript, j) \in {3, 5, 7, 9, 11, 13, 17}
    BY <1>3, <1>6
  <2>2. QED
    BY <2>1, <1>4
<1>7. ASSUME NEW j \in 1 .. 35, NEW k \in 1 .. 35, j # k,
             CoreScript[j].op = "upgrade", CoreScript[k].op = "upgrade"
      PROVE  Target(CoreScript, j) # Target(CoreScript, k)
  <2>1. j \in 29 .. 35 /\ k \in 29 .. 35
    BY <1>3, <1>7
  <2>2. QED
    BY <2>1, <1>5, <1>7
<1>8. PICK s : s = CoreScript
  OBVIOUS
<1>9. /\ \A i \in 1 .. Len(s) : s[i].op \in {"create", "upgrade"}
      /\ \A j \in 1 .. Len(s) : s[j].op = "upgrade" =>
             /\ Target(s, j) \in 1 .. j - 1
             /\ s[Target(s, j)].op = "create"
             /\ s[Target(s, j)].code = "EmptyContract"
  BY <1>1, <1>2, <1>6, <1>8
<1>10. \A j, k \in 1 .. Len(s) :
          s[j].op = "upgrade" /\ s[k].op = "upgrade" /\ j # k => Target(s, j) # Target(s, k)
  BY <1>1, <1>7, <1>8
<1>11. Len(s) \in Nat \ {0}
  BY <1>1, <1>8
<1>12. ScriptOK(s)
  BY <1>9, <1>10, <1>11, Zenon DEF ScriptOK
<1>13. QED
  BY <1>1, <1>8, <1>12

LEMMA InsuranceScriptOK == ScriptOK(InsuranceScript) /\ Len(InsuranceScript) = 9
<1>1. Len(InsuranceScript) = 9
  BY InsuranceSeq
<1>2. \A i \in 1 .. 9 : InsuranceScript[i].op \in {"create", "upgrade"}
  BY InsuranceNames
<1>3. Target(InsuranceScript, 8) = 5 /\ Target(InsuranceScript, 9) = 3
  BY InsuranceSeq, InsurancePlaces DEF Target, upgradeAndCall
<1>4. \A i \in {3, 5} : InsuranceScript[i].op = "create" /\ InsuranceScript[i].code = "EmptyContract"
  BY InsuranceSeq DEF NewProxy
<1>5. QED
  BY <1>1, <1>2, <1>3, <1>4, InsuranceNames DEF ScriptOK

----------------------------------------------------------------------------
ChainOK ==
    /\ nonce \in Nat \ {0}
    /\ contracts = [a \in DOMAIN contracts |-> contracts[a]]
    /\ DOMAIN contracts \subseteq 1 .. nonce - 1
    /\ \A a \in DOMAIN contracts :
          contracts[a] = [name |-> contracts[a].name, code |-> contracts[a].code,
                          built |-> contracts[a].built]

(* The first p transactions of the script were sent from nonce n on.       *)
Deployed(s, n, p) ==
    /\ \A i \in 1 .. p : s[i].op = "create" =>
          /\ n - 1 + i \in DOMAIN contracts
          /\ contracts[n - 1 + i].name = s[i].name
          /\ (\A j \in 1 .. p : s[j].op = "upgrade" => Target(s, j) # i)
                => contracts[n - 1 + i].code = s[i].code
    /\ \A j \in 1 .. p : s[j].op = "upgrade" => contracts[n - 1 + Target(s, j)].code = s[j].code

LEMMA CreatedAt ==
    ASSUME NEW s, NEW n, NEW p, Deployed(s, n, p), NEW i \in 1 .. p, s[i].op = "create"
    PROVE  /\ n - 1 + i \in DOMAIN contracts
           /\ contracts[n - 1 + i].name = s[i].name
           /\ (\A j \in 1 .. p : s[j].op = "upgrade" => Target(s, j) # i)
                 => contracts[n - 1 + i].code = s[i].code
BY DEF Deployed

LEMMA UpgradedAt ==
    ASSUME NEW s, NEW n, NEW p, Deployed(s, n, p), NEW j \in 1 .. p, s[j].op = "upgrade"
    PROVE  contracts[n - 1 + Target(s, j)].code = s[j].code
BY DEF Deployed

BuiltFor(b, kind) == IF kind = "core" THEN b = NoFile ELSE b # NoFile
ScriptOf(kind) == IF kind = "core" THEN CoreScript ELSE InsuranceScript

(* A broadcast sends the script of the last deployment.                    *)
BroadcastOK ==
    /\ broadcast = [script |-> broadcast.script, start |-> broadcast.start,
                    built |-> broadcast.built]
    /\ broadcast # Idle =>
          /\ Len(runs) # 0
          /\ broadcast.script = ScriptOf(runs[Len(runs)])
          /\ BuiltFor(broadcast.built, runs[Len(runs)])
          /\ broadcast.start \in Nat \ {0}
          /\ nonce - broadcast.start \in 0 .. Len(broadcast.script) - 1
          /\ Deployed(broadcast.script, broadcast.start, nonce - broadcast.start)

RunsOK == runs \in Seq({"core", "insurance"}) /\ lost \subseteq 1 .. Len(runs)

LEMMA ScriptOfOK ==
    ASSUME NEW kind \in {"core", "insurance"}
    PROVE  ScriptOK(ScriptOf(kind)) /\ Len(ScriptOf(kind)) = IF kind = "core" THEN 35 ELSE 9
BY CoreScriptOK, InsuranceScriptOK DEF ScriptOf

LEMMA LastRun ==
    ASSUME RunsOK, Len(runs) # 0
    PROVE  Len(runs) \in Nat \ {0} /\ runs[Len(runs)] \in {"core", "insurance"}
BY LenProperties DEF RunsOK

(* What the next transaction does to the chain.                            *)
Sent ==
    /\ nonce' = nonce + 1
    /\ DOMAIN contracts \subseteq DOMAIN contracts'
    /\ DOMAIN contracts' \subseteq DOMAIN contracts \cup {nonce}
    /\ \A a \in DOMAIN contracts : contracts'[a].name = contracts[a].name
                                 /\ contracts'[a].built = contracts[a].built
    /\ \A a \in DOMAIN contracts : contracts'[a].code # contracts[a].code
                                 => a >= broadcast.start /\ contracts[a].code = "EmptyContract"

Creates(tx) ==
    /\ nonce \in DOMAIN contracts'
    /\ contracts'[nonce].name = tx.name
    /\ contracts'[nonce].code = tx.code
    /\ contracts'[nonce].built = broadcast.built
    /\ \A a \in DOMAIN contracts : contracts'[a].code = contracts[a].code

Upgrades(tx, proxy) ==
    /\ proxy \in DOMAIN contracts
    /\ DOMAIN contracts' = DOMAIN contracts
    /\ contracts'[proxy].code = tx.code
    /\ \A a \in DOMAIN contracts : a # proxy => contracts'[a].code = contracts[a].code

(* A creation adds a contract and leaves the others alone.                 *)
LEMMA CreateSent ==
    ASSUME ChainOK, BroadcastOK, NEW tx, nonce' = nonce + 1,
           contracts' = [a \in DOMAIN contracts \cup {nonce} |->
                           IF a = nonce THEN [name |-> tx.name, code |-> tx.code, built |-> broadcast.built]
                           ELSE contracts[a]]
    PROVE  ChainOK' /\ Sent /\ Creates(tx)
<1>1. PICK made : made = [name |-> tx.name, code |-> tx.code, built |-> broadcast.built]
  OBVIOUS
<1>2. nonce \notin DOMAIN contracts /\ nonce \in Nat
  BY DEF ChainOK
<1>3. /\ DOMAIN contracts' = DOMAIN contracts \cup {nonce}
      /\ contracts'[nonce] = made
      /\ \A a \in DOMAIN contracts : contracts'[a] = contracts[a]
  BY <1>1, <1>2
<1>4. made = [name |-> made.name, code |-> made.code, built |-> made.built]
  BY <1>1
<1>5. ChainOK'
  <2>1. nonce' \in Nat \ {0} /\ DOMAIN contracts' \subseteq 1 .. nonce' - 1
    BY <1>3 DEF ChainOK
  <2>2. contracts' = [a \in DOMAIN contracts' |-> contracts'[a]]
    BY <1>3
  <2>3. \A a \in DOMAIN contracts' :
          contracts'[a] = [name |-> contracts'[a].name, code |-> contracts'[a].code,
                          built |-> contracts'[a].built]
    BY <1>3, <1>4 DEF ChainOK
  <2>4. QED
    BY <2>1, <2>2, <2>3 DEF ChainOK
<1>6. Creates(tx)
  BY <1>1, <1>3 DEF Creates
<1>7. Sent
  BY <1>3 DEF Sent
<1>8. QED
  BY <1>5, <1>6, <1>7

(* An upgrade exchanges the code of one contract.                          *)
LEMMA UpgradeSent ==
    ASSUME ChainOK, NEW tx, nonce' = nonce + 1, NEW proxy \in DOMAIN contracts,
           proxy >= broadcast.start, contracts[proxy].code = "EmptyContract",
           contracts' = [contracts EXCEPT ![proxy].code = tx.code]
    PROVE  ChainOK' /\ Sent /\ Upgrades(tx, proxy)
<1>1. PICK old, code : old = contracts[proxy] /\ code = tx.code
  OBVIOUS
<1>2. PICK new : new = [old EXCEPT !.code = code]
  OBVIOUS
<1>3. old = [name |-> old.name, code |-> old.code, built |-> old.built]
  BY <1>1 DEF ChainOK
<1>4. new = [name |-> old.name, code |-> code, built |-> old.built]
  BY <1>2, <1>3
<1>5. /\ DOMAIN contracts' = DOMAIN contracts
      /\ contracts' = [a \in DOMAIN contracts' |-> contracts'[a]]
      /\ contracts'[proxy] = new
      /\ \A a \in DOMAIN contracts : a # proxy => contracts'[a] = contracts[a]
  BY <1>1, <1>2, Zenon DEF ChainOK
<1>6. /\ new.name = old.name /\ new.built = old.built /\ new.code = code
      /\ new = [name |-> new.name, code |-> new.code, built |-> new.built]
  BY <1>4
<1>7. ChainOK'
  <2>1. nonce' \in Nat \ {0} /\ DOMAIN contracts' \subseteq 1 .. nonce' - 1
    BY <1>5 DEF ChainOK
  <2>2. \A a \in DOMAIN contracts' :
          contracts'[a] = [name |-> contracts'[a].name, code |-> contracts'[a].code,
                          built |-> contracts'[a].built]
    BY <1>5, <1>6 DEF ChainOK
  <2>3. QED
    BY <2>1, <1>5, <2>2 DEF ChainOK
<1>8. Upgrades(tx, proxy)
  BY <1>1, <1>5, <1>6 DEF Upgrades
<1>9. Sent
  BY <1>1, <1>5, <1>6 DEF Sent
<1>10. QED
  BY <1>7, <1>8, <1>9

Step(tx, proxy) == IF tx.op = "create" THEN Creates(tx) ELSE Upgrades(tx, proxy)

(* The next transaction of a script whose first p transactions were sent   *)
(* finds an empty contract to upgrade.                                     *)
LEMMA TargetIsEmpty ==
    ASSUME NEW s, ScriptOK(s), NEW n \in Nat \ {0}, NEW p \in 0 .. Len(s) - 1,
           Deployed(s, n, p), s[p + 1].op # "create"
    PROVE  /\ Target(s, p + 1) \in 1 .. p
           /\ n - 1 + Target(s, p + 1) \in DOMAIN contracts
           /\ contracts[n - 1 + Target(s, p + 1)].code = "EmptyContract"
<1>1. p \in Nat /\ p + 1 \in 1 .. Len(s) /\ \A j \in 1 .. p : j \in 1 .. Len(s) /\ j # p + 1
  BY DEF ScriptOK
<1>2. PICK t : t = Target(s, p + 1)
  OBVIOUS
<1>3. s[p + 1].op = "upgrade"
  BY <1>1 DEF ScriptOK
<1>4. t \in 1 .. p /\ s[t].op = "create" /\ s[t].code = "EmptyContract"
  BY <1>1, <1>2, <1>3 DEF ScriptOK
<1>5. \A j \in 1 .. p : s[j].op = "upgrade" => Target(s, j) # t
  BY <1>1, <1>2, <1>3 DEF ScriptOK
<1>6. QED
  BY <1>2, <1>4, <1>5 DEF Deployed

(* The next transaction of a script extends what was deployed of it.       *)
LEMMA DeployedExtends ==
    ASSUME NEW s, ScriptOK(s), NEW n \in Nat \ {0}, NEW p \in 0 .. Len(s) - 1,
           ChainOK, nonce = n + p, Deployed(s, n, p), Sent,
           Step(s[p + 1], n - 1 + Target(s, p + 1))
    PROVE  Deployed(s, n, p + 1)'
<1>1. p \in Nat /\ p + 1 \in 1 .. Len(s) /\ n - 1 + (p + 1) = nonce
  BY DEF ScriptOK
<1>2. \A i \in 1 .. p + 1 : i \in 1 .. p \/ i = p + 1
  BY <1>1
<1>3. \A i \in 1 .. p : n - 1 + i # nonce
  BY <1>1
<1>4. ASSUME NEW i \in 1 .. p + 1, s[i].op = "create"
      PROVE  /\ n - 1 + i \in DOMAIN contracts'
             /\ contracts'[n - 1 + i].name = s[i].name
  <2>1. CASE i = p + 1
    BY <1>1, <1>4, <2>1 DEF Step, Creates
  <2>2. CASE i \in 1 .. p
    BY <1>4, <2>2 DEF Deployed, Sent
  <2>3. QED
    BY <1>2, <2>1, <2>2
<1>5. CASE s[p + 1].op = "create"
  <2>1. ASSUME NEW a \in DOMAIN contracts PROVE contracts'[a].code = contracts[a].code
    BY <1>5 DEF Step, Creates
  <2>2. ASSUME NEW i \in 1 .. p + 1, s[i].op = "create",
               \A j \in 1 .. p + 1 : s[j].op = "upgrade" => Target(s, j) # i
        PROVE  contracts'[n - 1 + i].code = s[i].code
    <3>1. CASE i = p + 1
      BY <1>1, <1>5, <3>1 DEF Step, Creates
    <3>2. CASE i \in 1 .. p
      <4>1. \A j \in 1 .. p : s[j].op = "upgrade" => Target(s, j) # i
        BY <1>1, <2>2
      <4>2. n - 1 + i \in DOMAIN contracts /\ contracts[n - 1 + i].code = s[i].code
        BY <2>2, <3>2, <4>1 DEF Deployed
      <4>3. QED
        BY <2>1, <4>2
    <3>3. QED
      BY <1>2, <3>1, <3>2
  <2>3. ASSUME NEW j \in 1 .. p + 1, s[j].op = "upgrade"
        PROVE  contracts'[n - 1 + Target(s, j)].code = s[j].code
    <3>1. j \in 1 .. p /\ j \in 1 .. Len(s)
      BY <1>1, <1>2, <1>5, <2>3
    <3>2. PICK t : t = Target(s, j)
      OBVIOUS
    <3>3. t \in 1 .. p /\ s[t].op = "create"
      BY <1>1, <2>3, <3>1, <3>2 DEF ScriptOK
    <3>4. n - 1 + t \in DOMAIN contracts
      BY <3>3 DEF Deployed
    <3>5. contracts[n - 1 + t].code = s[j].code
      BY <2>3, <3>1, <3>2 DEF Deployed
    <3>6. QED
      BY <2>1, <3>2, <3>4, <3>5
  <2>4. QED
    BY <1>4, <2>2, <2>3 DEF Deployed
<1>6. CASE s[p + 1].op # "create"
  <2>0. s[p + 1].op = "upgrade"
    BY <1>1, <1>6 DEF ScriptOK
  <2>1. PICK t : t = Target(s, p + 1)
    OBVIOUS
  <2>2. t \in 1 .. p
    BY <1>6, <2>1, TargetIsEmpty
  <2>3. /\ contracts'[n - 1 + t].code = s[p + 1].code
        /\ \A a \in DOMAIN contracts : a # n - 1 + t => contracts'[a].code = contracts[a].code
    BY <1>6, <2>1 DEF Step, Upgrades
  <2>4. ASSUME NEW i \in 1 .. p + 1, s[i].op = "create",
               \A j \in 1 .. p + 1 : s[j].op = "upgrade" => Target(s, j) # i
        PROVE  contracts'[n - 1 + i].code = s[i].code
    <3>1. i \in 1 .. p
      BY <1>2, <1>6, <2>4
    <3>2. i # t /\ \A j \in 1 .. p : s[j].op = "upgrade" => Target(s, j) # i
      BY <1>1, <2>0, <2>1, <2>4
    <3>3. n - 1 + i \in DOMAIN contracts /\ contracts[n - 1 + i].code = s[i].code
      BY <2>4, <3>1, <3>2 DEF Deployed
    <3>4. n - 1 + i # n - 1 + t
      BY <2>2, <3>1, <3>2
    <3>5. QED
      BY <2>3, <3>3, <3>4
  <2>5. ASSUME NEW j \in 1 .. p + 1, s[j].op = "upgrade"
        PROVE  contracts'[n - 1 + Target(s, j)].code = s[j].code
    <3>1. CASE j = p + 1
      BY <2>1, <2>3, <3>1
    <3>2. CASE j \in 1 .. p
      <4>1. PICK u : u = Target(s, j)
        OBVIOUS
      <4>2. j \in 1 .. Len(s) /\ j # p + 1
        BY <1>1, <3>2
      <4>3. u \in 1 .. p /\ s[u].op = "create"
        BY <1>1, <2>5, <3>2, <4>1, <4>2 DEF ScriptOK
      <4>4. u # t
        BY <1>1, <2>0, <2>1, <2>5, <4>1, <4>2 DEF ScriptOK
      <4>5. n - 1 + u \in DOMAIN contracts /\ n - 1 + u # n - 1 + t
        BY <2>2, <4>3, <4>4 DEF Deployed
      <4>6. contracts[n - 1 + u].code = s[j].code
        BY <2>5, <3>2, <4>1 DEF Deployed
      <4>7. QED
        BY <2>3, <4>1, <4>5, <4>6
    <3>3. QED
      BY <1>2, <3>1, <3>2
  <2>6. QED
    BY <1>4, <2>4, <2>5 DEF Deployed
<1>7. QED
  BY <1>5, <1>6

(* What was deployed below the broadcast stays as it is.                   *)
LEMMA DeployedKept ==
    ASSUME NEW s, ScriptOK(s), NEW n \in Nat \ {0}, NEW p \in 0 .. Len(s),
           Deployed(s, n, p), broadcast.start \in Nat, n + p <= broadcast.start, Sent
    PROVE  Deployed(s, n, p)'
<1>1. p \in Nat
  BY DEF ScriptOK
<1>2. ASSUME NEW i \in 1 .. p, n - 1 + i \in DOMAIN contracts
      PROVE  /\ n - 1 + i \in DOMAIN contracts'
             /\ contracts'[n - 1 + i].name = contracts[n - 1 + i].name
             /\ contracts'[n - 1 + i].code = contracts[n - 1 + i].code
  <2>1. PICK a : a = n - 1 + i
    OBVIOUS
  <2>2. ~(a >= broadcast.start)
    BY <1>1, <2>1
  <2>3. QED
    BY <1>2, <2>1, <2>2 DEF Sent
<1>3. ASSUME NEW i \in 1 .. p, s[i].op = "create"
      PROVE  /\ n - 1 + i \in DOMAIN contracts'
             /\ contracts'[n - 1 + i].name = s[i].name
             /\ (\A j \in 1 .. p : s[j].op = "upgrade" => Target(s, j) # i)
                   => contracts'[n - 1 + i].code = s[i].code
  BY <1>2, <1>3 DEF Deployed
<1>4. ASSUME NEW j \in 1 .. p, s[j].op = "upgrade"
      PROVE  contracts'[n - 1 + Target(s, j)].code = s[j].code
  <2>1. PICK t : t = Target(s, j)
    OBVIOUS
  <2>2. j \in 1 .. Len(s)
    BY <1>1 DEF ScriptOK
  <2>3. t \in 1 .. p /\ s[t].op = "create"
    BY <1>1, <1>4, <2>1, <2>2 DEF ScriptOK
  <2>4. n - 1 + t \in DOMAIN contracts /\ contracts[n - 1 + t].code = s[j].code
    BY <1>4, <2>1, <2>3 DEF Deployed
  <2>5. QED
    BY <1>2, <2>1, <2>3, <2>4
<1>5. QED
  BY <1>3, <1>4 DEF Deployed

(* The broadcast sends the next transaction of a script that is in order.  *)
LEMMA BroadcastSends ==
    ASSUME ChainOK, BroadcastOK, RunsOK, Broadcast,
           NEW s, s = broadcast.script, NEW n, n = broadcast.start, NEW p, p = nonce - n
    PROVE  /\ ChainOK' /\ Sent
           /\ ScriptOK(s) /\ n \in Nat \ {0} /\ p \in 0 .. Len(s) - 1
           /\ Step(s[p + 1], n - 1 + Target(s, p + 1))
           /\ Deployed(s, n, p + 1)'
<1>1. broadcast # Idle
  BY DEF Broadcast
<1>2. n \in Nat \ {0} /\ p \in 0 .. Len(s) - 1 /\ Deployed(s, n, p)
  BY <1>1 DEF BroadcastOK
<1>3. ScriptOK(s)
  <2>1. Len(runs) # 0 /\ s = ScriptOf(runs[Len(runs)])
    BY <1>1 DEF BroadcastOK
  <2>2. QED
    BY <2>1, LastRun, ScriptOfOK
<1>4. nonce = n + p /\ nonce \in Nat
  BY <1>2 DEF ChainOK
<1>5. PICK tx, proxy : tx = s[p + 1] /\ proxy = AddressOf(s, tx.name, n)
  OBVIOUS
<1>6. proxy = n - 1 + Target(s, p + 1)
  BY <1>5 DEF AddressOf, Target
<1>7. /\ nonce' = nonce + 1
      /\ contracts' =
              IF tx.op = "create"
              THEN [a \in DOMAIN contracts \cup {nonce} |->
                       IF a = nonce THEN [name |-> tx.name, code |-> tx.code, built |-> broadcast.built]
                       ELSE contracts[a]]
              ELSE [contracts EXCEPT ![proxy].code = tx.code]
  BY <1>5 DEF Broadcast
<1>8. ChainOK' /\ Sent /\ Step(tx, proxy)
  <2>1. CASE tx.op = "create"
    <3>1. contracts' = [a \in DOMAIN contracts \cup {nonce} |->
                       IF a = nonce THEN [name |-> tx.name, code |-> tx.code, built |-> broadcast.built]
                       ELSE contracts[a]]
      BY <1>7, <2>1
    <3>2. ChainOK' /\ Sent /\ Creates(tx)
      BY <1>7, <3>1, CreateSent
    <3>3. QED
      BY <2>1, <3>2 DEF Step
  <2>2. CASE tx.op # "create"
    <3>1. contracts' = [contracts EXCEPT ![proxy].code = tx.code]
      BY <1>7, <2>2
    <3>2. /\ Target(s, p + 1) \in 1 .. p /\ proxy \in DOMAIN contracts
          /\ contracts[proxy].code = "EmptyContract"
      BY <1>2, <1>3, <1>5, <1>6, <2>2, TargetIsEmpty
    <3>3. proxy >= broadcast.start
      BY <1>2, <1>6, <3>2
    <3>4. ChainOK' /\ Sent /\ Upgrades(tx, proxy)
      BY <1>7, <3>1, <3>2, <3>3, UpgradeSent
    <3>5. QED
      BY <2>2, <3>4 DEF Step
  <2>3. QED
    BY <2>1, <2>2
<1>9. Step(s[p + 1], n - 1 + Target(s, p + 1))
  BY <1>5, <1>6, <1>8
<1>10. Deployed(s, n, p + 1)'
  BY <1>2, <1>3, <1>4, <1>8, <1>9, DeployedExtends
<1>11. QED
  BY <1>2, <1>3, <1>8, <1>9, <1>10

----------------------------------------------------------------------------
IsLatest(j, kind) ==
    /\ j # 0 => runs[j] = kind
    /\ \A i \in j + 1 .. Len(runs) : runs[i] # kind

(* The last deployment of a kind is number j: it began at nonce n, and p   *)
(* of its transactions were sent.                                          *)
DeploymentOf(kind, j, n, p) ==
    /\ j \in 1 .. Len(runs) /\ IsLatest(j, kind)
    /\ n \in Nat \ {0} /\ p \in 0 .. Len(ScriptOf(kind)) /\ n + p <= nonce
    /\ Deployed(ScriptOf(kind), n, p)
    /\ p < Len(ScriptOf(kind)) => j \in lost \/ (broadcast # Idle /\ j = Len(runs))
    /\ p < Len(ScriptOf(kind)) /\ j = Len(runs) => nonce = n + p
    /\ broadcast # Idle => IF j = Len(runs) THEN broadcast.start = n /\ nonce = n + p
                                            ELSE n + p <= broadcast.start

(* The last run of a kind is the one that LatestRun chooses.               *)
LEMMA LatestIs ==
    ASSUME RunsOK, NEW kind, NEW j \in 0 .. Len(runs), IsLatest(j, kind)
    PROVE  LatestRun(kind) = j
<1>1. Len(runs) \in Nat
  BY LenProperties DEF RunsOK
<1>2. \A k \in 0 .. Len(runs) : IsLatest(k, kind) => k = j
  BY <1>1 DEF IsLatest
<1>3. QED
  BY <1>2, Zenon DEF IsLatest, LatestRun

LEMMA RunAppended ==
    ASSUME RunsOK, NEW kind \in {"core", "insurance"}, runs' = Append(runs, kind), lost' = lost
    PROVE  /\ RunsOK' /\ Len(runs) \in Nat /\ Len(runs') = Len(runs) + 1
           /\ \A i \in 1 .. Len(runs) : runs'[i] = runs[i]
           /\ runs'[Len(runs) + 1] = kind
BY AppendProperties, LenProperties DEF RunsOK

LEMMA StoppedRuns ==
    ASSUME RunsOK, BroadcastOK, BroadcastStops
    PROVE  RunsOK'
BY LastRun DEF RunsOK, BroadcastOK, BroadcastStops

LEMMA LastTransaction ==
    ASSUME NEW start \in Nat, NEW sent \in Nat, NEW s,
           broadcast.start = start, broadcast.script = s, nonce = start + sent
    PROVE  Finished(nonce + 1) <=> sent + 1 = Len(s)
<1>1. nonce + 1 - start = sent + 1
  OBVIOUS
<1>2. Finished(nonce + 1) <=> nonce + 1 - start = Len(s)
  BY DEF Finished
<1>3. QED
  BY <1>1, <1>2, Zenon

(* A transaction belongs to the last deployment or leaves it alone.        *)
LEMMA DeploymentBroadcast ==
    ASSUME ChainOK, BroadcastOK, RunsOK, Broadcast, NEW kind \in {"core", "insurance"},
           NEW j, NEW n, NEW p, DeploymentOf(kind, j, n, p)
    PROVE  \E q : DeploymentOf(kind, j, n, q)' /\ q >= p
<1>1. PICK s, start, sent : s = broadcast.script /\ start = broadcast.start /\ sent = nonce - start
  OBVIOUS
<1>2. /\ ChainOK' /\ Sent
      /\ ScriptOK(s) /\ start \in Nat \ {0} /\ sent \in 0 .. Len(s) - 1
      /\ Step(s[sent + 1], start - 1 + Target(s, sent + 1))
      /\ Deployed(s, start, sent + 1)'
  BY <1>1, BroadcastSends
<1>3. /\ broadcast # Idle /\ nonce' = nonce + 1 /\ UNCHANGED <<runs, lost>>
      /\ broadcast' = IF Finished(nonce + 1) THEN Idle ELSE broadcast
  BY DEF Broadcast, histories
<1>4. nonce \in Nat /\ nonce = start + sent
  BY <1>1, <1>2 DEF ChainOK
<1>5. IsLatest(j, kind)'
  BY <1>3 DEF DeploymentOf, IsLatest
<1>6. PICK t : t = ScriptOf(kind)
  OBVIOUS
<1>7. ScriptOK(t) /\ Len(t) \in Nat /\ Len(s) \in Nat
  <2>1. ScriptOK(t)
    BY <1>6, ScriptOfOK
  <2>2. QED
    BY <1>2, <2>1 DEF ScriptOK
<1>8. /\ j \in 1 .. Len(runs)
      /\ n \in Nat \ {0} /\ p \in 0 .. Len(t) /\ n + p <= nonce
      /\ Deployed(t, n, p)
      /\ p < Len(t) => j \in lost \/ j = Len(runs)
      /\ IF j = Len(runs) THEN start = n /\ nonce = n + p ELSE n + p <= start
  BY <1>1, <1>3, <1>6 DEF DeploymentOf
<1>9. Finished(nonce + 1) <=> sent + 1 = Len(s)
  <2>1. start \in Nat /\ sent \in Nat
    BY <1>2
  <2>2. QED
    BY <1>1, <1>4, <2>1, LastTransaction, Zenon
<1>10. CASE j = Len(runs)
  <2>1. s = t
    <3>1. s = ScriptOf(runs[Len(runs)])
      BY <1>1, <1>3 DEF BroadcastOK
    <3>2. runs[Len(runs)] = kind
      BY <1>8, <1>10 DEF DeploymentOf, IsLatest
    <3>3. QED
      BY <1>6, <3>1, <3>2
  <2>2. start = n /\ sent = p
    BY <1>2, <1>4, <1>8, <1>10
  <2>3. Deployed(t, n, p + 1)'
    BY <1>2, <2>1, <2>2
  <2>4. p + 1 \in 0 .. Len(t) /\ n + (p + 1) <= nonce' /\ nonce' = n + (p + 1)
    BY <1>2, <1>3, <1>7, <1>8, <1>10, <2>1, <2>2
  <2>5. p + 1 < Len(t) => broadcast' # Idle
    BY <1>3, <1>9, <2>1, <2>2, <2>4
  <2>6. broadcast' # Idle => broadcast'.start = n
    BY <1>1, <1>3, <2>2
  <2>7. DeploymentOf(kind, j, n, p + 1)'
    BY <1>3, <1>5, <1>6, <1>8, <1>10, <2>3, <2>4, <2>5, <2>6 DEF DeploymentOf
  <2>8. QED
    BY <2>7, <1>8
<1>11. CASE j # Len(runs)
  <2>1. Deployed(t, n, p)'
    BY <1>1, <1>2, <1>7, <1>8, <1>11, DeployedKept
  <2>2. n + p <= nonce'
    BY <1>3, <1>4, <1>8
  <2>3. broadcast' # Idle => n + p <= broadcast'.start
    BY <1>1, <1>3, <1>8, <1>11
  <2>4. DeploymentOf(kind, j, n, p)'
    BY <1>3, <1>5, <1>6, <1>8, <1>11, <2>1, <2>2, <2>3 DEF DeploymentOf
  <2>5. QED
    BY <1>8, <2>4
<1>12. QED
  BY <1>10, <1>11

LEMMA DeployedSame ==
    ASSUME NEW s, NEW n, NEW p, Deployed(s, n, p), UNCHANGED contracts
    PROVE  Deployed(s, n, p)'
BY DEF Deployed

(* A broadcast that stops leaves its deployment among the lost ones.       *)
LEMMA DeploymentStops ==
    ASSUME ChainOK, BroadcastOK, RunsOK, BroadcastStops, NEW kind \in {"core", "insurance"},
           NEW j, NEW n, NEW p, DeploymentOf(kind, j, n, p)
    PROVE  DeploymentOf(kind, j, n, p)'
<1>1. /\ broadcast' = Idle /\ UNCHANGED <<contracts, nonce, runs>>
      /\ lost' = lost \cup {Len(runs)}
  BY DEF BroadcastStops, chainVars
<1>2. Deployed(ScriptOf(kind), n, p)'
  BY <1>1, DeployedSame DEF DeploymentOf
<1>3. IsLatest(j, kind)'
  BY <1>1 DEF DeploymentOf, IsLatest
<1>4. QED
  BY <1>1, <1>2, <1>3 DEF DeploymentOf

LEMMA DeploymentSame ==
    ASSUME UNCHANGED <<contracts, nonce, broadcast, runs, lost>>,
           NEW kind, NEW j, NEW n, NEW p, DeploymentOf(kind, j, n, p)
    PROVE  DeploymentOf(kind, j, n, p)'
<1>1. Deployed(ScriptOf(kind), n, p)'
  BY DeployedSame DEF DeploymentOf
<1>2. IsLatest(j, kind)'
  BY DEF DeploymentOf, IsLatest
<1>3. QED
  BY <1>1, <1>2 DEF DeploymentOf

(* A deployment of the other kind begins.                                  *)
LEMMA DeploymentOther ==
    ASSUME ChainOK, RunsOK, NEW kind \in {"core", "insurance"},
           NEW other \in {"core", "insurance"}, other # kind,
           broadcast = Idle, broadcast'.start = nonce,
           runs' = Append(runs, other), UNCHANGED <<contracts, nonce, lost>>,
           NEW j, NEW n, NEW p, DeploymentOf(kind, j, n, p)
    PROVE  DeploymentOf(kind, j, n, p)'
<1>1. /\ Len(runs) \in Nat /\ Len(runs') = Len(runs) + 1
      /\ \A i \in 1 .. Len(runs) : runs'[i] = runs[i]
      /\ runs'[Len(runs) + 1] = other
  BY RunAppended
<1>2. Deployed(ScriptOf(kind), n, p)'
  BY DeployedSame DEF DeploymentOf
<1>3. IsLatest(j, kind)'
  BY <1>1 DEF DeploymentOf, IsLatest
<1>4. j \in 1 .. Len(runs') /\ j # Len(runs')
  BY <1>1 DEF DeploymentOf
<1>5. p < Len(ScriptOf(kind)) => j \in lost'
  BY DEF DeploymentOf
<1>6. QED
  BY <1>2, <1>3, <1>4, <1>5 DEF DeploymentOf

(* A deployment begins with nothing sent.                                  *)
LEMMA DeploymentBegins ==
    ASSUME ChainOK, RunsOK, NEW kind \in {"core", "insurance"},
           broadcast' # Idle, broadcast'.start = nonce,
           runs' = Append(runs, kind), UNCHANGED <<contracts, nonce, lost>>,
           NEW j, j = Len(runs) + 1, NEW n, n = nonce
    PROVE  DeploymentOf(kind, j, n, 0)'
<1>1. /\ Len(runs) \in Nat /\ Len(runs') = j
      /\ runs'[j] = kind
  BY RunAppended
<1>2. Deployed(ScriptOf(kind), n, 0)'
  BY DEF Deployed
<1>3. IsLatest(j, kind)'
  BY <1>1 DEF IsLatest
<1>4. Len(ScriptOf(kind)) \in Nat
  BY ScriptOfOK DEF ScriptOK
<1>5. n \in Nat \ {0}
  BY DEF ChainOK
<1>6. QED
  BY <1>1, <1>2, <1>3, <1>4, <1>5 DEF DeploymentOf

----------------------------------------------------------------------------
NoRun(kind) == \A i \in 1 .. Len(runs) : runs[i] # kind

CoreOK ==
    \/ coreFile = NoFile /\ NoRun("core")
    \/ \E j, n, p : /\ DeploymentOf("core", j, n, p)
                    /\ coreFile = writeCoreJson(n)
                    /\ p < 31 => j = Len(runs)

InsuranceOK ==
    \/ insuranceFile = NoFile /\ NoRun("insurance")
    \/ \E j, n, p, f : /\ DeploymentOf("insurance", j, n, p)
                       /\ insuranceFile = writeInsuranceJson(n, NewStrategy(f))
                       /\ f \in 1 .. nonce + 16

DeploymentInv == ChainOK /\ RunsOK /\ BroadcastOK /\ CoreOK /\ InsuranceOK

(* The addresses in the file of the core, counted from its first nonce.    *)
LEMMA CoreFileFields ==
    ASSUME NEW n, n \in Nat
    PROVE  /\ writeCoreJson(n) # NoFile
           /\ DOMAIN writeCoreJson(n) = CoreKeys
           /\ writeCoreJson(n).proxyAdmin = n
           /\ writeCoreJson(n).delegation = n + 2
           /\ writeCoreJson(n).avsDirectory = n + 4
           /\ writeCoreJson(n).strategyManager = n + 6
           /\ writeCoreJson(n).strategyFactory = n + 16
<1>1. DOMAIN writeCoreJson(n) = CoreKeys
  BY DEF writeCoreJson
<1>2. writeCoreJson(n) # NoFile
  <2>1. "proxyAdmin" \in DOMAIN writeCoreJson(n)
    BY <1>1 DEF CoreKeys
  <2>2. QED
    BY <2>1 DEF NoFile
<1>3. \A k \in CoreKeys : writeCoreJson(n)[k] = n - 1 + Place(CoreScript, NameOfKey(k))
  BY DEF writeCoreJson, AddressOf
<1>4. /\ "proxyAdmin" \in CoreKeys /\ NameOfKey("proxyAdmin") = "proxyAdmin"
      /\ "delegation" \in CoreKeys /\ NameOfKey("delegation") = "delegationManager"
      /\ "avsDirectory" \in CoreKeys /\ NameOfKey("avsDirectory") = "avsDirectory"
      /\ "strategyManager" \in CoreKeys /\ NameOfKey("strategyManager") = "strategyManager"
      /\ "strategyFactory" \in CoreKeys /\ NameOfKey("strategyFactory") = "strategyFactory"
  BY DEF CoreKeys, NameOfKey
<1>5. QED
  BY <1>1, <1>2, <1>3, <1>4, CorePlaces

(* The addresses in the file of the insurance contracts.                   *)
LEMMA InsuranceFileFields ==
    ASSUME NEW n, n \in Nat, NEW strategy
    PROVE  /\ writeInsuranceJson(n, strategy) # NoFile
           /\ DOMAIN writeInsuranceJson(n, strategy) = InsuranceKeys
           /\ writeInsuranceJson(n, strategy).proxyAdmin = n
           /\ writeInsuranceJson(n, strategy).insuranceServiceManager = n + 2
           /\ writeInsuranceJson(n, strategy).stakeRegistry = n + 4
           /\ writeInsuranceJson(n, strategy).stakeRegistryImpl = n + 5
           /\ writeInsuranceJson(n, strategy).insuranceServiceManagerImpl = n + 6
           /\ writeInsuranceJson(n, strategy).strategy = strategy
           /\ writeInsuranceJson(n, strategy).token = Token
<1>1. DOMAIN writeInsuranceJson(n, strategy) = InsuranceKeys
  BY DEF writeInsuranceJson
<1>2. writeInsuranceJson(n, strategy) # NoFile
  <2>1. "proxyAdmin" \in DOMAIN writeInsuranceJson(n, strategy)
    BY <1>1 DEF InsuranceKeys
  <2>2. QED
    BY <2>1 DEF NoFile
<1>3. /\ \A k \in InsuranceKeys : k \notin {"strategy", "token"} =>
             writeInsuranceJson(n, strategy)[k] = n - 1 + Place(InsuranceScript, k)
      /\ writeInsuranceJson(n, strategy).strategy = strategy
      /\ writeInsuranceJson(n, strategy).token = Token
  BY DEF writeInsuranceJson, AddressOf, InsuranceKeys
<1>4. {"proxyAdmin", "insuranceServiceManager", "stakeRegistry", "stakeRegistryImpl",
       "insuranceServiceManagerImpl"} \subseteq InsuranceKeys
  BY DEF InsuranceKeys
<1>5. QED
  BY <1>1, <1>2, <1>3, <1>4, InsurancePlaces

LEMMA InitDeployment == Init => DeploymentInv
<1> SUFFICES ASSUME Init PROVE DeploymentInv
  OBVIOUS
<1>1. /\ runs = <<>> /\ lost = {} /\ contracts = <<>> /\ nonce = 1 /\ broadcast = Idle
      /\ coreFile = NoFile /\ insuranceFile = NoFile
  BY DEF Init
<1>2. runs \in Seq({"core", "insurance"}) /\ Len(runs) = 0
  BY <1>1, EmptySeq
<1>3. DOMAIN contracts = {} /\ contracts = [a \in DOMAIN contracts |-> contracts[a]]
  BY <1>1
<1>4. ChainOK
  BY <1>1, <1>3 DEF ChainOK
<1>5. BroadcastOK
  BY <1>1 DEF BroadcastOK, Idle
<1>6. QED
  BY <1>1, <1>2, <1>4, <1>5 DEF DeploymentInv, RunsOK, CoreOK, InsuranceOK, NoRun

LEMMA BroadcastDeployment == DeploymentInv /\ Broadcast => DeploymentInv'
<1> SUFFICES ASSUME DeploymentInv, Broadcast PROVE DeploymentInv'
  OBVIOUS
<1>1. ChainOK /\ RunsOK /\ BroadcastOK
  BY DEF DeploymentInv
<1>2. PICK s, n, p : s = broadcast.script /\ n = broadcast.start /\ p = nonce - n
  OBVIOUS
<1>3. /\ ChainOK' /\ Sent
      /\ ScriptOK(s) /\ n \in Nat \ {0} /\ p \in 0 .. Len(s) - 1
      /\ Deployed(s, n, p + 1)'
  BY <1>1, <1>2, BroadcastSends
<1>4. /\ broadcast # Idle /\ nonce' = nonce + 1 /\ UNCHANGED <<runs, lost, coreFile, insuranceFile>>
      /\ broadcast' = IF Finished(nonce + 1) THEN Idle ELSE broadcast
  BY DEF Broadcast, histories, files
<1>5. nonce \in Nat
  BY <1>1 DEF ChainOK
<1>6. Finished(nonce + 1) <=> p + 1 = Len(s)
  BY <1>2, <1>3, <1>5 DEF Finished
<1>7. BroadcastOK'
  <2>1. CASE broadcast' = Idle
    BY <2>1 DEF BroadcastOK, Idle
  <2>2. CASE broadcast' = broadcast /\ p + 1 # Len(s)
    <3>1. nonce' - n = p + 1 /\ p + 1 \in 0 .. Len(s) - 1
      BY <1>2, <1>3, <1>4, <1>5, <2>2 DEF ScriptOK
    <3>2. /\ Len(runs) # 0 /\ s = ScriptOf(runs[Len(runs)])
          /\ BuiltFor(broadcast.built, runs[Len(runs)])
          /\ broadcast = [script |-> broadcast.script, start |-> broadcast.start,
                          built |-> broadcast.built]
      BY <1>1, <1>2, <1>4 DEF BroadcastOK
    <3>3. QED
      BY <1>2, <1>3, <1>4, <2>2, <3>1, <3>2 DEF BroadcastOK, BuiltFor
  <2>3. QED
    BY <1>4, <1>6, <2>1, <2>2
<1>8. CoreOK'
  <2>1. CASE coreFile = NoFile /\ NoRun("core")
    BY <1>4, <2>1 DEF CoreOK, NoRun
  <2>2. CASE \E j, m, q : /\ DeploymentOf("core", j, m, q)
                          /\ coreFile = writeCoreJson(m)
                          /\ q < 31 => j = Len(runs)
    <3>1. PICK j, m, q : /\ DeploymentOf("core", j, m, q)
                         /\ coreFile = writeCoreJson(m)
                         /\ q < 31 => j = Len(runs)
      BY <2>2
    <3>2. PICK r : DeploymentOf("core", j, m, r)' /\ r >= q
      BY <1>1, <3>1, DeploymentBroadcast
    <3>3. r < 31 => q < 31
      BY <3>1, <3>2, ScriptOfOK DEF DeploymentOf
    <3>4. coreFile' = writeCoreJson(m) /\ (r < 31 => j = Len(runs'))
      BY <1>4, <3>1, <3>3
    <3>5. QED
      BY <3>2, <3>4 DEF CoreOK
  <2>3. QED
    BY <2>1, <2>2 DEF DeploymentInv, CoreOK
<1>9. InsuranceOK'
  <2>1. CASE insuranceFile = NoFile /\ NoRun("insurance")
    BY <1>4, <2>1 DEF InsuranceOK, NoRun
  <2>2. CASE \E j, m, q, f : /\ DeploymentOf("insurance", j, m, q)
                             /\ insuranceFile = writeInsuranceJson(m, NewStrategy(f))
                             /\ f \in 1 .. nonce + 16
    <3>1. PICK j, m, q, f : /\ DeploymentOf("insurance", j, m, q)
                            /\ insuranceFile = writeInsuranceJson(m, NewStrategy(f))
                            /\ f \in 1 .. nonce + 16
      BY <2>2
    <3>2. PICK r : DeploymentOf("insurance", j, m, r)'
      BY <1>1, <3>1, DeploymentBroadcast
    <3>3. insuranceFile' = writeInsuranceJson(m, NewStrategy(f)) /\ f \in 1 .. nonce' + 16
      BY <1>4, <1>5, <3>1
    <3>4. QED
      BY <3>2, <3>3 DEF InsuranceOK
  <2>3. QED
    BY <2>1, <2>2 DEF DeploymentInv, InsuranceOK
<1>10. RunsOK'
  BY <1>1, <1>4 DEF RunsOK
<1>11. QED
  BY <1>3, <1>7, <1>8, <1>9, <1>10 DEF DeploymentInv

LEMMA BroadcastStopsDeployment == DeploymentInv /\ BroadcastStops => DeploymentInv'
<1> SUFFICES ASSUME DeploymentInv, BroadcastStops PROVE DeploymentInv'
  OBVIOUS
<1>1. ChainOK /\ RunsOK /\ BroadcastOK
  BY DEF DeploymentInv
<1>2. /\ broadcast' = Idle /\ UNCHANGED <<contracts, nonce, runs, coreFile, insuranceFile>>
  BY DEF BroadcastStops, chainVars, files
<1>3. ChainOK' /\ BroadcastOK'
  BY <1>1, <1>2 DEF ChainOK, BroadcastOK, Idle
<1>4. RunsOK'
  BY <1>1, StoppedRuns
<1>5. CoreOK'
  <2>1. CASE coreFile = NoFile /\ NoRun("core")
    BY <1>2, <2>1 DEF CoreOK, NoRun
  <2>2. CASE ~(coreFile = NoFile /\ NoRun("core"))
    <3>1. PICK j, m, q : /\ DeploymentOf("core", j, m, q)
                         /\ coreFile = writeCoreJson(m)
                         /\ q < 31 => j = Len(runs)
      BY <2>2 DEF DeploymentInv, CoreOK
    <3>2. DeploymentOf("core", j, m, q)'
      BY <1>1, <3>1, DeploymentStops
    <3>3. QED
      BY <1>2, <3>1, <3>2 DEF CoreOK
  <2>3. QED
    BY <2>1, <2>2
<1>6. InsuranceOK'
  <2>1. CASE insuranceFile = NoFile /\ NoRun("insurance")
    BY <1>2, <2>1 DEF InsuranceOK, NoRun
  <2>2. CASE ~(insuranceFile = NoFile /\ NoRun("insurance"))
    <3>1. PICK j, m, q, f : /\ DeploymentOf("insurance", j, m, q)
                            /\ insuranceFile = writeInsuranceJson(m, NewStrategy(f))
                            /\ f \in 1 .. nonce + 16
      BY <2>2 DEF DeploymentInv, InsuranceOK
    <3>2. DeploymentOf("insurance", j, m, q)'
      BY <1>1, <3>1, DeploymentStops
    <3>3. QED
      BY <1>2, <3>1, <3>2 DEF InsuranceOK
  <2>3. QED
    BY <2>1, <2>2
<1>7. QED
  BY <1>3, <1>4, <1>5, <1>6 DEF DeploymentInv

(* The calls of setUp go through only when the first three upgrades of the *)
(* core were sent.                                                         *)
LEMMA FactoryIsUpgraded ==
    ASSUME ChainOK, NEW j, NEW n, NEW p, DeploymentOf("core", j, n, p), p < 31 => j = Len(runs),
           Code(n + 16) = "strategyFactoryImpl"
    PROVE  p >= 31
<1>1. /\ n \in Nat \ {0} /\ p \in 0 .. 35 /\ Deployed(CoreScript, n, p)
      /\ p < 35 /\ j = Len(runs) => nonce = n + p
  BY ScriptOfOK DEF DeploymentOf, ScriptOf
<1>2. SUFFICES ASSUME p < 31 PROVE FALSE
  BY <1>1
<1>3. nonce = n + p
  BY <1>1, <1>2
<1>4. n + 16 \in DOMAIN contracts /\ contracts[n + 16].code = "strategyFactoryImpl"
  BY DEF Code, Exists
<1>5. 17 \in 1 .. p /\ n - 1 + 17 = n + 16
  <2>1. n + 16 \in 1 .. nonce - 1
    BY <1>4 DEF ChainOK
  <2>2. n \in Nat /\ p \in Nat
    BY <1>1
  <2>3. QED
    BY <1>3, <2>1, <2>2
<1>6. \A i \in 1 .. p : CoreScript[i].op = "upgrade" => Target(CoreScript, i) # 17
  <2> SUFFICES ASSUME NEW i \in 1 .. p, CoreScript[i].op = "upgrade"
               PROVE  Target(CoreScript, i) # 17
    OBVIOUS
  <2>1. i \in 1 .. 28 \/ i = 29 \/ i = 30
    BY <1>1, <1>2
  <2>2. i = 29 \/ i = 30
    BY <2>1, CoreNames
  <2>3. QED
    BY <2>2, CoreTargets
<1>7. CoreScript[17].op = "create" /\ CoreScript[17].code = "EmptyContract"
  BY CoreNames, CoreTargets
<1>8. contracts[n - 1 + 17].code = "EmptyContract"
  BY <1>1, <1>5, <1>6, <1>7 DEF Deployed
<1>9. QED
  BY <1>4, <1>5, <1>8

Live(core) ==
    /\ Code(core.delegationManager) = "delegationManagerImpl"
    /\ Code(core.strategyManager) = "strategyManagerImpl"
    /\ Code(core.strategyFactory) = "strategyFactoryImpl"

(* An upgrade that was sent gave its contract the new code.                *)
LEMMA UpgradedCode ==
    ASSUME NEW n \in Nat \ {0}, NEW p \in 0 .. 35, Deployed(CoreScript, n, p),
           NEW i \in 29 .. 35, i <= p
    PROVE  Code(n - 1 + Target(CoreScript, i)) = CoreScript[i].code
<1>1. i \in 1 .. p /\ CoreScript[i].op = "upgrade"
  BY CoreNames
<1>2. PICK t : t = Target(CoreScript, i)
  OBVIOUS
<1>3. t \in 1 .. i - 1 /\ CoreScript[t].op = "create"
  <2>1. t \in {3, 5, 7, 9, 11, 13, 17}
    BY <1>2, CoreTargets
  <2>2. QED
    BY <2>1, CoreNames
<1>4. n - 1 + t \in DOMAIN contracts
  <2>1. t \in 1 .. p
    BY <1>1, <1>3
  <2>2. QED
    BY <1>3, <2>1, CreatedAt
<1>5. contracts[n - 1 + t].code = CoreScript[i].code
  BY <1>1, <1>2, UpgradedAt
<1>6. QED
  BY <1>2, <1>4, <1>5 DEF Code, Exists

(* After its first three upgrades the core is live.                        *)
LEMMA CoreIsLive ==
    ASSUME NEW n \in Nat \ {0}, NEW p \in 0 .. 35, Deployed(CoreScript, n, p), p >= 31,
           coreFile = writeCoreJson(n)
    PROVE  Live(readCoreJson)
<1>1. Code(n - 1 + 3) = "delegationManagerImpl"
  BY UpgradedCode, CoreTargets
<1>2. Code(n - 1 + 7) = "strategyManagerImpl"
  BY UpgradedCode, CoreTargets
<1>3. Code(n - 1 + 17) = "strategyFactoryImpl"
  BY UpgradedCode, CoreTargets
<1>4. n - 1 + 3 = n + 2 /\ n - 1 + 7 = n + 6 /\ n - 1 + 17 = n + 16
  OBVIOUS
<1>5. /\ readCoreJson.delegationManager = n + 2 /\ readCoreJson.strategyManager = n + 6
      /\ readCoreJson.strategyFactory = n + 16
  BY CoreFileFields DEF readCoreJson
<1>6. QED
  BY <1>1, <1>2, <1>3, <1>4, <1>5 DEF Live

(* What the file of a core deployment tells InsuranceDeployer, when its    *)
(* setUp passes.                                                           *)
LEMMA SetUpFacts ==
    ASSUME ChainOK, RunsOK, CoreOK, SetUpPasses
    PROVE  \E j, n, p : /\ DeploymentOf("core", j, n, p) /\ coreFile = writeCoreJson(n)
                        /\ n \in Nat \ {0} /\ p \in 31 .. 35 /\ n + p <= nonce
                        /\ readCoreJson.strategyFactory = n + 16
                        /\ readCoreJson.delegationManager = n + 2
                        /\ Live(readCoreJson)
<1>1. PICK j, n, p : /\ DeploymentOf("core", j, n, p)
                     /\ coreFile = writeCoreJson(n)
                     /\ p < 31 => j = Len(runs)
  BY DEF CoreOK, SetUpPasses
<1>2. n \in Nat \ {0} /\ p \in 0 .. 35 /\ n + p <= nonce /\ Deployed(CoreScript, n, p)
  BY <1>1, ScriptOfOK DEF DeploymentOf, ScriptOf
<1>3. readCoreJson.strategyFactory = n + 16 /\ readCoreJson.delegationManager = n + 2
  BY <1>1, <1>2, CoreFileFields DEF readCoreJson
<1>4. Code(n + 16) = "strategyFactoryImpl"
  BY <1>3 DEF SetUpPasses
<1>5. p >= 31
  BY <1>1, <1>4, FactoryIsUpgraded
<1>6. Live(readCoreJson)
  BY <1>1, <1>2, <1>5, CoreIsLive
<1>7. QED
  BY <1>1, <1>2, <1>3, <1>5, <1>6

(* A script in order, with nothing of it sent, may be broadcast.           *)
LEMMA ScriptsBegin ==
    ASSUME ChainOK, RunsOK, NEW kind \in {"core", "insurance"}, NEW built, BuiltFor(built, kind),
           broadcast' = [script |-> ScriptOf(kind), start |-> nonce, built |-> built],
           runs' = Append(runs, kind), UNCHANGED <<contracts, nonce, lost>>
    PROVE  /\ ChainOK' /\ RunsOK' /\ BroadcastOK' /\ broadcast' # Idle
           /\ broadcast'.start = nonce /\ broadcast'.built = built
<1>1. /\ RunsOK' /\ Len(runs) \in Nat /\ Len(runs') = Len(runs) + 1
      /\ runs'[Len(runs)'] = kind
  BY RunAppended
<1>2. PICK s, n : s = ScriptOf(kind) /\ n = nonce
  OBVIOUS
<1>3. Len(s) \in Nat \ {0} /\ n \in Nat \ {0}
  BY <1>2, ScriptOfOK DEF ScriptOK, ChainOK
<1>4. broadcast' = [script |-> s, start |-> n, built |-> built]
  BY <1>2
<1>5. /\ broadcast'.script = s /\ broadcast'.start = n /\ broadcast'.built = built
      /\ broadcast' = [script |-> broadcast'.script, start |-> broadcast'.start,
                       built |-> broadcast'.built]
  BY <1>4
<1>6. broadcast' # Idle
  <2>1. s # <<>>
    BY <1>3
  <2>2. QED
    BY <1>5, <2>1 DEF Idle
<1>7. Deployed(s, n, 0)' /\ nonce' - n = 0 /\ 0 \in 0 .. Len(s) - 1
  BY <1>2, <1>3 DEF Deployed
<1>8. BroadcastOK'
  BY <1>1, <1>2, <1>3, <1>5, <1>7 DEF BroadcastOK, BuiltFor
<1>9. ChainOK'
  BY DEF ChainOK
<1>10. QED
  BY <1>1, <1>2, <1>5, <1>6, <1>8, <1>9

LEMMA DeployCoreDeployment == DeploymentInv /\ DeployCore => DeploymentInv'
<1> SUFFICES ASSUME DeploymentInv, DeployCore PROVE DeploymentInv'
  OBVIOUS
<1>1. ChainOK /\ RunsOK
  BY DEF DeploymentInv
<1>2. PICK n, k : n = nonce /\ k = Len(runs) + 1
  OBVIOUS
<1>3. /\ broadcast = Idle /\ coreFile' = writeCoreJson(n)
      /\ broadcast' = [script |-> ScriptOf("core"), start |-> nonce, built |-> NoFile]
      /\ runs' = Append(runs, "core")
      /\ UNCHANGED <<contracts, nonce, insuranceFile, lost>>
  BY <1>2 DEF DeployCore, chainVars, ScriptOf
<1>4. BuiltFor(NoFile, "core")
  BY DEF BuiltFor
<1>5. /\ ChainOK' /\ RunsOK' /\ BroadcastOK' /\ broadcast' # Idle
      /\ broadcast'.start = nonce
  BY <1>1, <1>3, <1>4, ScriptsBegin
<1>6. Len(runs') = k
  BY <1>1, <1>2, <1>3, RunAppended
<1>7. CoreOK'
  <2>1. DeploymentOf("core", k, n, 0)'
    BY <1>1, <1>2, <1>3, <1>5, DeploymentBegins
  <2>2. QED
    BY <1>3, <1>6, <2>1 DEF CoreOK
<1>8. InsuranceOK'
  <2>1. CASE insuranceFile = NoFile /\ NoRun("insurance")
    <3>1. NoRun("insurance")'
      BY <1>1, <1>3, <2>1, RunAppended DEF NoRun
    <3>2. QED
      BY <1>3, <2>1, <3>1 DEF InsuranceOK
  <2>2. CASE ~(insuranceFile = NoFile /\ NoRun("insurance"))
    <3>1. PICK j, m, q, f : /\ DeploymentOf("insurance", j, m, q)
                            /\ insuranceFile = writeInsuranceJson(m, NewStrategy(f))
                            /\ f \in 1 .. nonce + 16
      BY <2>2 DEF DeploymentInv, InsuranceOK
    <3>2. DeploymentOf("insurance", j, m, q)'
      BY <1>1, <1>3, <1>5, <3>1, DeploymentOther
    <3>3. QED
      BY <1>3, <3>1, <3>2 DEF InsuranceOK
  <2>3. QED
    BY <2>1, <2>2
<1>9. QED
  BY <1>5, <1>7, <1>8 DEF DeploymentInv

LEMMA DeployInsuranceDeployment == DeploymentInv /\ DeployInsurance => DeploymentInv'
<1> SUFFICES ASSUME DeploymentInv, DeployInsurance PROVE DeploymentInv'
  OBVIOUS
<1>1. ChainOK /\ RunsOK /\ CoreOK
  BY DEF DeploymentInv
<1>2. PICK m, k, f, b :
        /\ m = nonce /\ k = Len(runs) + 1 /\ f = readCoreJson.strategyFactory
        /\ b = [core |-> readCoreJson, strategy |-> NewStrategy(f), run |-> k]
  OBVIOUS
<1>3. /\ broadcast = Idle /\ SetUpPasses
      /\ insuranceFile' = writeInsuranceJson(m, NewStrategy(f))
      /\ broadcast' = [script |-> ScriptOf("insurance"), start |-> nonce, built |-> b]
      /\ runs' = Append(runs, "insurance")
      /\ UNCHANGED <<contracts, nonce, coreFile, lost>>
  BY <1>2 DEF DeployInsurance, chainVars, ScriptOf
<1>4. BuiltFor(b, "insurance")
  <2>1. "run" \in DOMAIN b
    BY <1>2
  <2>2. QED
    BY <2>1 DEF BuiltFor, NoFile
<1>5. /\ ChainOK' /\ RunsOK' /\ BroadcastOK' /\ broadcast' # Idle
      /\ broadcast'.start = nonce
  BY <1>1, <1>3, <1>4, ScriptsBegin
<1>6. PICK j, n, p : /\ DeploymentOf("core", j, n, p) /\ coreFile = writeCoreJson(n)
                     /\ n \in Nat \ {0} /\ p \in 31 .. 35 /\ n + p <= nonce /\ f = n + 16
  BY <1>1, <1>2, <1>3, SetUpFacts
<1>7. CoreOK'
  <2>1. DeploymentOf("core", j, n, p)'
    BY <1>1, <1>3, <1>5, <1>6, DeploymentOther
  <2>2. ~(p < 31)
    BY <1>6
  <2>3. QED
    BY <1>3, <1>6, <2>1, <2>2 DEF CoreOK
<1>8. InsuranceOK'
  <2>1. DeploymentOf("insurance", k, m, 0)'
    BY <1>1, <1>2, <1>3, <1>5, DeploymentBegins
  <2>2. f \in 1 .. nonce' + 16
    BY <1>1, <1>3, <1>6 DEF ChainOK
  <2>3. QED
    BY <1>3, <2>1, <2>2 DEF InsuranceOK
<1>9. QED
  BY <1>5, <1>7, <1>8 DEF DeploymentInv

LEMMA ReadersDeployment ==
    ASSUME DeploymentInv, UNCHANGED <<chainVars, files, broadcast, histories>>
    PROVE  DeploymentInv'
<1>1. UNCHANGED <<contracts, nonce, coreFile, insuranceFile, broadcast, runs, lost>>
  BY DEF chainVars, files, histories
<1>2. ChainOK' /\ RunsOK'
  BY <1>1 DEF DeploymentInv, ChainOK, RunsOK
<1>3. BroadcastOK'
  <2>1. Deployed(broadcast.script, broadcast.start, nonce - broadcast.start)' 
           <=> Deployed(broadcast.script, broadcast.start, nonce - broadcast.start)
    BY <1>1 DEF Deployed
  <2>2. QED
    BY <1>1, <2>1 DEF DeploymentInv, BroadcastOK
<1>4. CoreOK'
  <2>1. CASE coreFile = NoFile /\ NoRun("core")
    BY <1>1, <2>1 DEF CoreOK, NoRun
  <2>2. CASE ~(coreFile = NoFile /\ NoRun("core"))
    <3>1. PICK j, m, q : /\ DeploymentOf("core", j, m, q)
                         /\ coreFile = writeCoreJson(m)
                         /\ q < 31 => j = Len(runs)
      BY <2>2 DEF DeploymentInv, CoreOK
    <3>2. DeploymentOf("core", j, m, q)'
      BY <1>1, <3>1, DeploymentSame
    <3>3. QED
      BY <1>1, <3>1, <3>2 DEF CoreOK
  <2>3. QED
    BY <2>1, <2>2
<1>5. InsuranceOK'
  <2>1. CASE insuranceFile = NoFile /\ NoRun("insurance")
    BY <1>1, <2>1 DEF InsuranceOK, NoRun
  <2>2. CASE ~(insuranceFile = NoFile /\ NoRun("insurance"))
    <3>1. PICK j, m, q, f : /\ DeploymentOf("insurance", j, m, q)
                            /\ insuranceFile = writeInsuranceJson(m, NewStrategy(f))
                            /\ f \in 1 .. nonce + 16
      BY <2>2 DEF DeploymentInv, InsuranceOK
    <3>2. DeploymentOf("insurance", j, m, q)'
      BY <1>1, <3>1, DeploymentSame
    <3>3. QED
      BY <1>1, <3>1, <3>2 DEF InsuranceOK
  <2>3. QED
    BY <2>1, <2>2
<1>6. QED
  BY <1>2, <1>3, <1>4, <1>5 DEF DeploymentInv

LEMMA ReadersLeave ==
    ASSUME Readers \/ UNCHANGED vars
    PROVE  UNCHANGED <<chainVars, files, broadcast, histories>>
BY DEF Readers, TsStarts, TsLoads, TsStops, RustStarts, RustSigns, RustRegisters, RustMonitors,
       RustAnswers, RustStops, RustStep, vars

LEMMA StepDeployment == DeploymentInv /\ [Next]_vars => DeploymentInv'
<1> SUFFICES ASSUME DeploymentInv, [Next]_vars PROVE DeploymentInv'
  OBVIOUS
<1>1. CASE Readers \/ UNCHANGED vars
  BY <1>1, ReadersLeave, ReadersDeployment
<1>2. QED
  BY <1>1, DeployCoreDeployment, DeployInsuranceDeployment, BroadcastDeployment,
     BroadcastStopsDeployment DEF Next

LEMMA DeploymentInvariant == Spec => []DeploymentInv
BY InitDeployment, StepDeployment, PTL DEF Spec

----------------------------------------------------------------------------
NoCore(first, last) == \A i \in first + 1 .. last : runs[i] # "core"

BuiltOK(b) ==
    b # NoFile =>
        /\ b.run \in 1 .. Len(runs)
        /\ Live(b.core)
        /\ NoCore(b.run, Len(runs)) => b.core.delegationManager = coreFile.delegation
        /\ TsRuns /\ b.run <= ts.at /\ NoCore(b.run, ts.at)
              => b.core.delegationManager = ts.delegation

BuiltsOK ==
    /\ BuiltOK(broadcast.built)
    /\ \A a \in DOMAIN contracts :
          /\ BuiltOK(contracts[a].built)
          /\ contracts[a].name = "stakeRegistry" => contracts[a].built # NoFile

(* A stake registry built by a later deployment than those ts knows of.    *)
SameDelegation(b) == b # NoFile /\ b.run > ts.at => b.core.delegationManager = ts.delegation

TsOK ==
    TsRuns =>
        /\ ts.at \in 0 .. Len(runs)
        /\ ts.stakeRegistry \in Nat /\ ts.stakeRegistry <= nonce + 4
        /\ NoCore(ts.at, Len(runs)) => ts.delegation = coreFile.delegation
        /\ ~NoCore(ts.at, Len(runs)) => coreFile.proxyAdmin + 4 >= ts.stakeRegistry
        /\ Exists(ts.stakeRegistry) /\ contracts[ts.stakeRegistry].name = "stakeRegistry"
              => SameDelegation(contracts[ts.stakeRegistry].built)
        /\ broadcast.start + 4 = ts.stakeRegistry => SameDelegation(broadcast.built)

(* Transactions change the code of empty contracts only.                   *)
LEMMA LiveStays ==
    ASSUME ChainOK, Sent, NEW core, Live(core)
    PROVE  Live(core)'
<1>1. ASSUME NEW a, NEW code, Code(a) = code, code # "none", code # "EmptyContract"
      PROVE  Code(a)' = code
  <2>1. a \in DOMAIN contracts /\ contracts[a].code = code
    BY <1>1 DEF Code, Exists
  <2>2. a \in DOMAIN contracts' /\ contracts'[a].code = code
    BY <1>1, <2>1 DEF Sent
  <2>3. QED
    BY <2>2 DEF Code, Exists
<1>2. QED
  BY <1>1 DEF Live

LEMMA BuiltKept ==
    ASSUME NEW b, BuiltOK(b), UNCHANGED <<coreFile, runs>>, ts' = ts \/ ~TsRuns',
           b # NoFile /\ Live(b.core) => Live(b.core)'
    PROVE  BuiltOK(b)'
BY DEF BuiltOK, NoCore, TsRuns

LEMMA InitReaders == Init => BuiltsOK /\ TsOK
<1> SUFFICES ASSUME Init PROVE BuiltsOK /\ TsOK
  OBVIOUS
<1>1. broadcast.built = NoFile /\ DOMAIN contracts = {} /\ ~TsRuns
  BY DEF Init, Idle, TsDown, TsRuns
<1>2. QED
  BY <1>1 DEF BuiltsOK, TsOK, BuiltOK

(* A new stake registry gets what its deployment was built for; only the   *)
(* fifth transaction of the insurance script makes one.                    *)
LEMMA BroadcastBuilts == DeploymentInv /\ DeploymentInv' /\ BuiltsOK /\ TsOK /\ Broadcast => BuiltsOK' /\ TsOK'
<1> SUFFICES ASSUME DeploymentInv, DeploymentInv', BuiltsOK, TsOK, Broadcast PROVE BuiltsOK' /\ TsOK'
  OBVIOUS
<1>1. ChainOK /\ RunsOK /\ BroadcastOK
  BY DEF DeploymentInv
<1>2. PICK s, n, p, b : /\ s = broadcast.script /\ n = broadcast.start /\ p = nonce - n
                        /\ b = broadcast.built
  OBVIOUS
<1>3. /\ ChainOK' /\ Sent
      /\ ScriptOK(s) /\ n \in Nat \ {0} /\ p \in 0 .. Len(s) - 1
      /\ Step(s[p + 1], n - 1 + Target(s, p + 1))
  BY <1>1, <1>2, BroadcastSends
<1>4. /\ broadcast # Idle /\ UNCHANGED <<runs, coreFile, ts>>
      /\ broadcast' = Idle \/ broadcast' = broadcast
      /\ nonce' = nonce + 1
  BY DEF Broadcast, histories, files, readers
<1>5. nonce \in Nat /\ nonce = n + p /\ nonce \notin DOMAIN contracts
  BY <1>1, <1>2, <1>3 DEF ChainOK
<1>6. ASSUME NEW c, BuiltOK(c) PROVE BuiltOK(c)'
  BY <1>1, <1>3, <1>4, <1>6, LiveStays, BuiltKept
<1>7. BuiltOK(broadcast.built)'
  <2>1. broadcast'.built = b \/ broadcast'.built = NoFile
    BY <1>2, <1>4 DEF Idle
  <2>2. BuiltOK(b)'
    BY <1>2, <1>6 DEF BuiltsOK
  <2>3. QED
    BY <2>1, <2>2 DEF BuiltOK
<1>8. ASSUME NEW a \in DOMAIN contracts', a \notin DOMAIN contracts
      PROVE  /\ a = nonce /\ contracts'[a].name = s[p + 1].name /\ contracts'[a].built = b
             /\ s[p + 1].op = "create"
  <2>1. a = nonce
    BY <1>3, <1>8 DEF Sent
  <2>2. s[p + 1].op = "create"
    BY <1>3, <1>8 DEF Step, Upgrades
  <2>3. QED
    BY <1>2, <1>3, <2>1, <2>2 DEF Step, Creates
<1>9. s[p + 1].op = "create" /\ s[p + 1].name = "stakeRegistry" =>
         p = 4 /\ b # NoFile
  <2>1. SUFFICES ASSUME s[p + 1].op = "create", s[p + 1].name = "stakeRegistry"
                 PROVE  p = 4 /\ b # NoFile
    OBVIOUS
  <2>2. PICK kind \in {"core", "insurance"} : s = ScriptOf(kind) /\ BuiltFor(b, kind)
    BY <1>1, <1>2, <1>4, LastRun DEF BroadcastOK
  <2>3. CASE kind = "core"
    <3>1. s = CoreScript
      BY <2>2, <2>3 DEF ScriptOf
    <3>2. p + 1 \in 1 .. 35
      BY <1>3, <3>1, CoreScriptOK
    <3>3. \A i \in 1 .. 28 : CoreScript[i].name # "stakeRegistry"
      BY CoreNames
    <3>4. QED
      BY <2>1, <3>1, <3>2, <3>3, CoreNames
  <2>4. CASE kind = "insurance"
    <3>1. s = InsuranceScript
      BY <2>2, <2>4 DEF ScriptOf
    <3>2. p + 1 \in 1 .. 9
      BY <1>3, <3>1, InsuranceScriptOK
    <3>3. p + 1 = 5
      BY <2>1, <3>1, <3>2, InsuranceNames
    <3>4. QED
      BY <1>3, <2>2, <2>4, <3>3 DEF BuiltFor
  <2>5. QED
    BY <2>3, <2>4
<1>10. BuiltsOK'
  <2>1. ASSUME NEW a \in DOMAIN contracts'
        PROVE  BuiltOK(contracts[a].built)' /\ (contracts'[a].name = "stakeRegistry" => contracts'[a].built # NoFile)
    <3>1. CASE a \in DOMAIN contracts
      <4>1. PICK c : c = contracts[a].built
        OBVIOUS
      <4>2. c = contracts'[a].built /\ contracts'[a].name = contracts[a].name
        BY <1>3, <3>1, <4>1 DEF Sent
      <4>3. BuiltOK(c)'
        BY <1>6, <3>1, <4>1 DEF BuiltsOK
      <4>4. QED
        BY <3>1, <4>1, <4>2, <4>3 DEF BuiltsOK
    <3>2. CASE a \notin DOMAIN contracts
      <4>1. BuiltOK(b)'
        BY <1>2, <1>6 DEF BuiltsOK
      <4>2. QED
        BY <1>8, <1>9, <3>2, <4>1
    <3>3. QED
      BY <3>1, <3>2
  <2>2. QED
    BY <1>7, <2>1 DEF BuiltsOK
<1>11. TsOK'
  <2>1. SUFFICES ASSUME TsRuns PROVE TsOK'
    BY <1>4 DEF TsOK, TsRuns
  <2>2. PICK at, r : at = ts.at /\ r = ts.stakeRegistry
    OBVIOUS
  <2>3. /\ ts'.at = at /\ ts'.stakeRegistry = r /\ at \in 0 .. Len(runs')
        /\ r \in Nat /\ r <= nonce' + 4
        /\ NoCore(ts.at, Len(runs))' => ts'.delegation = coreFile'.delegation
        /\ ~NoCore(ts.at, Len(runs))' => coreFile'.proxyAdmin + 4 >= r
    BY <1>4, <1>5, <2>1, <2>2 DEF TsOK, NoCore
  <2>4. ASSUME NEW c, SameDelegation(c) PROVE SameDelegation(c)'
    BY <1>4, <2>4 DEF SameDelegation
  <2>5. broadcast'.start + 4 = r => SameDelegation(broadcast.built)'
    <3>1. CASE broadcast' = Idle
      BY <3>1 DEF Idle, SameDelegation
    <3>2. CASE broadcast' = broadcast
      BY <1>2, <2>1, <2>2, <2>4, <3>2 DEF TsOK
    <3>3. QED
      BY <1>4, <3>1, <3>2
  <2>6. ASSUME r \in DOMAIN contracts', contracts'[r].name = "stakeRegistry"
        PROVE  SameDelegation(contracts[r].built)'
    <3>1. CASE r \in DOMAIN contracts
      <4>1. PICK c : c = contracts[r].built
        OBVIOUS
      <4>2. c = contracts'[r].built /\ contracts'[r].name = contracts[r].name
        BY <1>3, <3>1, <4>1 DEF Sent
      <4>3. SameDelegation(c)'
        BY <2>1, <2>2, <2>4, <2>6, <3>1, <4>1, <4>2 DEF TsOK, Exists
      <4>4. QED
        BY <4>2, <4>3
    <3>2. CASE r \notin DOMAIN contracts
      <4>1. r = nonce /\ contracts'[r].built = b /\ p = 4
        BY <1>8, <1>9, <2>6, <3>2
      <4>2. n + 4 = r
        BY <1>3, <1>5, <4>1
      <4>3. SameDelegation(b)'
        BY <1>2, <2>1, <2>2, <2>4, <4>2 DEF TsOK
      <4>4. QED
        BY <4>1, <4>3
    <3>3. QED
      BY <3>1, <3>2
  <2>7. QED
    BY <2>2, <2>3, <2>5, <2>6 DEF TsOK, Exists
<1>12. QED
  BY <1>10, <1>11

(* Whatever a step leaves of the chain, the file and the history.          *)
LEMMA SameBuilts ==
    ASSUME BuiltsOK, UNCHANGED <<contracts, coreFile, runs>>,
           broadcast' = broadcast \/ broadcast' = Idle, ts' = ts \/ ~TsRuns'
    PROVE  BuiltsOK'
<1>1. ASSUME NEW b, BuiltOK(b) PROVE BuiltOK(b)'
  <2>1. b # NoFile /\ Live(b.core) => Live(b.core)'
    BY DEF Live, Code, Exists
  <2>2. QED
    BY <1>1, <2>1, BuiltKept
<1>2. BuiltOK(broadcast.built)'
  BY <1>1 DEF BuiltsOK, BuiltOK, Idle
<1>3. \A a \in DOMAIN contracts : BuiltOK(contracts[a].built)'
  BY <1>1 DEF BuiltsOK
<1>4. QED
  BY <1>2, <1>3 DEF BuiltsOK

LEMMA SameTs ==
    ASSUME TsOK, UNCHANGED <<contracts, nonce, coreFile, runs>>,
           broadcast' = broadcast \/ broadcast' = Idle, ts' = ts \/ ~TsRuns'
    PROVE  TsOK'
<1>1. CASE ~TsRuns'
  BY <1>1 DEF TsOK
<1>2. CASE ts' = ts
  <2>1. ASSUME NEW b PROVE SameDelegation(b)' <=> SameDelegation(b)
    BY <1>2 DEF SameDelegation
  <2>2. SameDelegation(broadcast.built)' \/ broadcast' = broadcast
    BY DEF SameDelegation, Idle
  <2>3. TsRuns /\ Exists(ts.stakeRegistry) /\ contracts[ts.stakeRegistry].name = "stakeRegistry"
          => SameDelegation(contracts[ts.stakeRegistry].built)'
    <3>1. PICK c : c = contracts[ts.stakeRegistry].built
      OBVIOUS
    <3>2. (contracts[ts.stakeRegistry].built)' = c
      BY <1>2, <3>1
    <3>3. TsRuns /\ Exists(ts.stakeRegistry) /\ contracts[ts.stakeRegistry].name = "stakeRegistry"
            => SameDelegation(c)'
      BY <2>1, <3>1 DEF TsOK
    <3>4. QED
      BY <3>2, <3>3
  <2>4. TsRuns /\ broadcast'.start + 4 = ts.stakeRegistry => SameDelegation(broadcast.built)'
    BY <2>1, <2>2 DEF TsOK
  <2>5. QED
    BY <1>2, <2>3, <2>4 DEF TsOK, NoCore, Exists, TsRuns
<1>3. QED
  BY <1>1, <1>2

(* What the operator knows before it has read the file of the core.        *)
TsKnown ==
    /\ ts.pc \in {"down", "loading", "running"}
    /\ ts.stakeRegistry \in Nat /\ ts.stakeRegistry <= nonce + 4

LEMMA InitTsKnown == Init => TsKnown
BY DEF Init, TsDown, Zero, TsKnown

LEMMA TsStartsKnown ==
    ASSUME DeploymentInv, TsStarts
    PROVE  TsKnown'
<1>1. PICK r : r = insuranceFile.stakeRegistry
  OBVIOUS
<1>2. ts'.pc = "loading" /\ ts'.stakeRegistry = r /\ nonce' = nonce /\ insuranceFile # NoFile
  BY <1>1 DEF TsStarts, TsDown, chainVars
<1>3. nonce \in Nat
  BY DEF DeploymentInv, ChainOK
<1>4. PICK j, m, q, f : /\ DeploymentOf("insurance", j, m, q)
                        /\ insuranceFile = writeInsuranceJson(m, NewStrategy(f))
  BY <1>2 DEF DeploymentInv, InsuranceOK
<1>5. m \in Nat /\ m <= nonce
  BY <1>3, <1>4 DEF DeploymentOf
<1>6. r = m + 4
  BY <1>1, <1>4, <1>5, InsuranceFileFields
<1>7. QED
  BY <1>2, <1>3, <1>5, <1>6 DEF TsKnown

LEMMA StepTsKnown == DeploymentInv /\ TsKnown /\ [Next]_vars => TsKnown'
<1> SUFFICES ASSUME DeploymentInv, TsKnown, [Next]_vars PROVE TsKnown'
  OBVIOUS
<1>1. nonce \in Nat
  BY DEF DeploymentInv, ChainOK
<1>2. nonce' = nonce \/ nonce' = nonce + 1
  BY DEF Next, DeployCore, DeployInsurance, Broadcast, BroadcastStops, Readers, TsStarts, TsLoads,
     TsStops, RustStarts, RustSigns, RustRegisters, RustMonitors, RustAnswers, RustStops, RustStep,
     vars, chainVars
<1>3. CASE ts' = ts
  BY <1>1, <1>2, <1>3 DEF TsKnown
<1>4. CASE TsStarts
  BY <1>4, TsStartsKnown
<1>5. CASE TsLoads
  <2>1. ts'.pc = "running" /\ ts'.stakeRegistry = ts.stakeRegistry
    BY <1>5 DEF TsLoads
  <2>2. QED
    BY <1>1, <1>2, <2>1 DEF TsKnown
<1>6. CASE TsStops
  <2>1. ts'.pc = "down" /\ ts'.stakeRegistry = 0
    BY <1>6 DEF TsStops, TsDown, Zero
  <2>2. QED
    BY <1>1, <1>2, <2>1 DEF TsKnown
<1>7. QED
  BY <1>3, <1>4, <1>5, <1>6 DEF Next, DeployCore, DeployInsurance, Broadcast, BroadcastStops,
     Readers, RustStarts, RustSigns, RustRegisters, RustMonitors, RustAnswers, RustStops, RustStep,
     vars, readers

LEMMA TsKnownInvariant == Spec => []TsKnown
BY InitTsKnown, StepTsKnown, DeploymentInvariant, PTL DEF Spec

(* An operator that loads the files knows the delegation manager of every  *)
(* deployment so far that no core deployment followed.                     *)
LEMMA TsLoadsBuilts ==
    ASSUME DeploymentInv, BuiltsOK, TsKnown, TsLoads
    PROVE  BuiltsOK' /\ TsOK'
<1>1. PICK r, d, at : r = ts.stakeRegistry /\ d = coreFile.delegation /\ at = Len(runs)
  OBVIOUS
<1>2. /\ UNCHANGED <<contracts, nonce, coreFile, runs, broadcast>>
      /\ ts'.stakeRegistry = r /\ ts'.delegation = d /\ ts'.at = at
  BY <1>1 DEF TsLoads, chainVars, files, histories
<1>3. at \in Nat /\ nonce \in Nat
  BY <1>1, LenProperties DEF DeploymentInv, RunsOK, ChainOK
<1>4. r \in Nat /\ r <= nonce + 4
  BY <1>1 DEF TsKnown
<1>5. ASSUME NEW b, BuiltOK(b) PROVE BuiltOK(b)' /\ SameDelegation(b)'
  <2>1. CASE b = NoFile
    BY <2>1 DEF BuiltOK, SameDelegation
  <2>2. CASE b # NoFile
    <3>1. b.run \in 1 .. at /\ Live(b.core) /\ (NoCore(b.run, at) => b.core.delegationManager = d)
      BY <1>1, <1>5, <2>2 DEF BuiltOK
    <3>2. Live(b.core)'
      BY <1>2, <3>1 DEF Live, Code, Exists
    <3>3. BuiltOK(b)'
      BY <1>1, <1>2, <3>1, <3>2 DEF BuiltOK, NoCore
    <3>4. SameDelegation(b)'
      BY <1>2, <1>3, <3>1 DEF SameDelegation
    <3>5. QED
      BY <3>3, <3>4
  <2>3. QED
    BY <2>1, <2>2
<1>6. BuiltsOK'
  <2>1. BuiltOK(broadcast.built)' /\ \A a \in DOMAIN contracts : BuiltOK(contracts[a].built)'
    BY <1>2, <1>5 DEF BuiltsOK
  <2>2. QED
    BY <1>2, <2>1 DEF BuiltsOK
<1>7. TsOK'
  <2>1. SameDelegation(broadcast.built)' /\ \A a \in DOMAIN contracts : SameDelegation(contracts[a].built)'
    BY <1>2, <1>5 DEF BuiltsOK
  <2>2. NoCore(at, at)'
    BY <1>3 DEF NoCore
  <2>3. QED
    BY <1>1, <1>2, <1>3, <1>4, <2>1, <2>2 DEF TsOK, Exists
<1>8. QED
  BY <1>6, <1>7

(* A deployment of the core begins: what was built before is of an older   *)
(* one, and the addresses of the new one are beyond every registry.        *)
LEMMA DeployCoreBuilts ==
    ASSUME DeploymentInv, BuiltsOK, TsOK, DeployCore
    PROVE  BuiltsOK' /\ TsOK'
<1>1. PICK len, n : len = Len(runs) /\ n = nonce
  OBVIOUS
<1>2. /\ broadcast'.built = NoFile /\ coreFile' = writeCoreJson(n)
      /\ UNCHANGED <<contracts, nonce, ts>>
  BY <1>1 DEF DeployCore, chainVars, readers
<1>3. /\ len \in Nat /\ Len(runs') = len + 1
      /\ \A i \in 1 .. len : runs'[i] = runs[i]
      /\ runs'[len + 1] = "core"
  BY <1>1, RunAppended DEF DeploymentInv, DeployCore
<1>4. n \in Nat /\ coreFile'.proxyAdmin = n
  BY <1>1, <1>2, CoreFileFields DEF DeploymentInv, ChainOK
<1>5. ASSUME NEW k \in 0 .. len PROVE ~NoCore(k, Len(runs))'
  <2>1. len + 1 \in k + 1 .. Len(runs')
    BY <1>3
  <2>2. QED
    BY <1>3, <2>1 DEF NoCore
<1>6. ASSUME NEW b, BuiltOK(b) PROVE BuiltOK(b)'
  <2>1. CASE b = NoFile
    BY <2>1 DEF BuiltOK
  <2>2. CASE b # NoFile
    <3>1. /\ b.run \in 1 .. len /\ Live(b.core)
          /\ TsRuns /\ b.run <= ts.at /\ NoCore(b.run, ts.at)
               => b.core.delegationManager = ts.delegation
      BY <1>1, <1>6, <2>2 DEF BuiltOK
    <3>2. Live(b.core)'
      BY <1>2, <3>1 DEF Live, Code, Exists
    <3>3. TsRuns /\ NoCore(b.run, ts.at)' => NoCore(b.run, ts.at)
      <4>1. PICK first, last : first = b.run /\ last = ts.at
        OBVIOUS
      <4>2. TsRuns => last \in 0 .. len
        BY <1>1, <4>1 DEF TsOK
      <4>3. last \in 0 .. len /\ NoCore(first, last)' => NoCore(first, last)
        BY <1>3, <3>1, <4>1 DEF NoCore
      <4>4. QED
        BY <1>2, <4>1, <4>2, <4>3
    <3>4. ~NoCore(b.run, Len(runs))'
      BY <1>3, <1>5, <3>1
    <3>5. b.run \in 1 .. Len(runs')
      BY <1>3, <3>1
    <3>6. QED
      BY <1>2, <3>1, <3>2, <3>3, <3>4, <3>5 DEF BuiltOK, TsRuns
  <2>3. QED
    BY <2>1, <2>2
<1>7. BuiltsOK'
  <2>1. \A a \in DOMAIN contracts : BuiltOK(contracts[a].built)'
    BY <1>2, <1>6 DEF BuiltsOK
  <2>2. BuiltOK(broadcast.built)'
    BY <1>2 DEF BuiltOK
  <2>3. QED
    BY <1>2, <2>1, <2>2 DEF BuiltsOK
<1>8. TsOK'
  <2>1. SUFFICES ASSUME TsRuns PROVE TsOK'
    BY <1>2 DEF TsOK, TsRuns
  <2>2. PICK at, r : at = ts.at /\ r = ts.stakeRegistry
    OBVIOUS
  <2>3. at \in 0 .. len /\ r \in Nat /\ r <= n + 4
    BY <1>1, <2>1, <2>2 DEF TsOK
  <2>4. ~NoCore(at, Len(runs))'
    BY <1>5, <2>3
  <2>5. SameDelegation(broadcast.built)'
    BY <1>2 DEF SameDelegation
  <2>6. r \in DOMAIN contracts /\ contracts[r].name = "stakeRegistry" => SameDelegation(contracts[r].built)'
    BY <1>2, <2>1, <2>2 DEF TsOK, Exists, SameDelegation
  <2>7. at \in 0 .. Len(runs') /\ coreFile'.proxyAdmin + 4 >= r /\ r <= nonce' + 4
    BY <1>1, <1>2, <1>3, <1>4, <2>3
  <2>8. QED
    BY <1>2, <2>2, <2>3, <2>4, <2>5, <2>6, <2>7 DEF TsOK, Exists
<1>9. QED
  BY <1>7, <1>8

(* A deployment of the insurance contracts begins: they get the delegation *)
(* manager of the core file, and if the core is newer than what the        *)
(* operator loaded, the registry comes beyond the one it knows.            *)
LEMMA DeployInsuranceBuilts ==
    ASSUME DeploymentInv, BuiltsOK, TsOK, DeployInsurance
    PROVE  BuiltsOK' /\ TsOK'
<1>1. PICK len, m, d, b :
        /\ len = Len(runs) /\ m = nonce /\ d = coreFile.delegation /\ b = broadcast'.built
  OBVIOUS
<1>2. /\ SetUpPasses /\ broadcast'.start = m
      /\ UNCHANGED <<contracts, nonce, ts, coreFile>>
  BY <1>1 DEF DeployInsurance, chainVars, readers
<1>3. /\ len \in Nat /\ Len(runs') = len + 1
      /\ \A i \in 1 .. len : runs'[i] = runs[i]
      /\ runs'[len + 1] = "insurance"
  BY <1>1, RunAppended DEF DeploymentInv, DeployInsurance
<1>4. b.core = readCoreJson /\ b.run = len + 1
  BY <1>1 DEF DeployInsurance
<1>5. Live(b.core) /\ b.core.delegationManager = d
  <2>1. Live(readCoreJson)
    BY <1>2, SetUpFacts DEF DeploymentInv
  <2>2. readCoreJson.delegationManager = d
    BY <1>1 DEF readCoreJson
  <2>3. QED
    BY <1>4, <2>1, <2>2
<1>6. PICK n, p : coreFile.proxyAdmin = n /\ n \in Nat /\ p \in 31 .. 35 /\ n + p <= m
  <2>1. PICK n, p : coreFile = writeCoreJson(n) /\ n \in Nat \ {0} /\ p \in 31 .. 35 /\ n + p <= nonce
    BY <1>2, SetUpFacts, Zenon DEF DeploymentInv
  <2>2. coreFile.proxyAdmin = n
    BY <2>1, CoreFileFields
  <2>3. QED
    BY <1>1, <2>1, <2>2
<1>7. m \in Nat
  BY <1>1 DEF DeploymentInv, ChainOK
<1>8. ASSUME NEW c, BuiltOK(c) PROVE BuiltOK(c)'
  <2>1. CASE c = NoFile
    BY <2>1 DEF BuiltOK
  <2>2. CASE c # NoFile
    <3>1. /\ c.run \in 1 .. len /\ Live(c.core)
          /\ NoCore(c.run, len) => c.core.delegationManager = d
          /\ TsRuns /\ c.run <= ts.at /\ NoCore(c.run, ts.at)
               => c.core.delegationManager = ts.delegation
      BY <1>1, <1>8, <2>2 DEF BuiltOK
    <3>2. Live(c.core)'
      BY <1>2, <3>1 DEF Live, Code, Exists
    <3>3. TsRuns /\ NoCore(c.run, ts.at)' => NoCore(c.run, ts.at)
      <4>1. PICK first, last : first = c.run /\ last = ts.at
        OBVIOUS
      <4>2. TsRuns => last \in 0 .. len
        BY <1>1, <4>1 DEF TsOK
      <4>3. last \in 0 .. len /\ NoCore(first, last)' => NoCore(first, last)
        BY <1>3, <3>1, <4>1 DEF NoCore
      <4>4. QED
        BY <1>2, <4>1, <4>2, <4>3
    <3>4. NoCore(c.run, Len(runs))' => NoCore(c.run, len)
      BY <1>3, <3>1 DEF NoCore
    <3>5. c.run \in 1 .. Len(runs')
      BY <1>3, <3>1
    <3>6. QED
      BY <1>1, <1>2, <3>1, <3>2, <3>3, <3>4, <3>5 DEF BuiltOK, TsRuns
  <2>3. QED
    BY <2>1, <2>2
<1>9. BuiltOK(b)'
  <2>1. Live(b.core)'
    BY <1>2, <1>5 DEF Live, Code, Exists
  <2>2. b.run \in 1 .. Len(runs')
    BY <1>3, <1>4
  <2>3. TsRuns' => ~(b.run <= ts'.at)
    BY <1>1, <1>2, <1>3, <1>4 DEF TsOK, TsRuns
  <2>4. b.core.delegationManager = coreFile'.delegation
    BY <1>1, <1>2, <1>5
  <2>5. QED
    BY <2>1, <2>2, <2>3, <2>4 DEF BuiltOK
<1>10. BuiltsOK'
  <2>1. \A a \in DOMAIN contracts : BuiltOK(contracts[a].built)'
    BY <1>2, <1>8 DEF BuiltsOK
  <2>2. BuiltOK(broadcast.built)'
    BY <1>1, <1>9
  <2>3. QED
    BY <1>2, <2>1, <2>2 DEF BuiltsOK
<1>11. TsOK'
  <2>1. SUFFICES ASSUME TsRuns PROVE TsOK'
    BY <1>2 DEF TsOK, TsRuns
  <2>2. PICK at, r : at = ts.at /\ r = ts.stakeRegistry
    OBVIOUS
  <2>3. /\ at \in 0 .. len /\ r \in Nat /\ r <= m + 4
        /\ NoCore(at, len) => ts.delegation = d
        /\ ~NoCore(at, len) => n + 4 >= r
    BY <1>1, <1>6, <2>1, <2>2 DEF TsOK
  <2>4. NoCore(at, Len(runs))' <=> NoCore(at, len)
    BY <1>3, <2>3 DEF NoCore
  <2>5. m + 4 = r => SameDelegation(b)'
    <3>1. SUFFICES ASSUME m + 4 = r PROVE ts.delegation = d
      BY <1>2, <1>5 DEF SameDelegation
    <3>2. NoCore(at, len)
      BY <1>6, <1>7, <2>3, <3>1
    <3>3. QED
      BY <2>3, <3>2
  <2>6. r \in DOMAIN contracts /\ contracts[r].name = "stakeRegistry" => SameDelegation(contracts[r].built)'
    BY <1>2, <2>1, <2>2 DEF TsOK, Exists, SameDelegation
  <2>7. at \in 0 .. Len(runs') /\ r <= nonce' + 4
    BY <1>1, <1>2, <1>3, <2>3
  <2>8. /\ NoCore(at, Len(runs))' => ts'.delegation = coreFile'.delegation
        /\ ~NoCore(at, Len(runs))' => coreFile'.proxyAdmin + 4 >= r
    BY <1>1, <1>2, <1>6, <2>3, <2>4
  <2>9. SameDelegation(broadcast.built)' <=> SameDelegation(b)'
    BY <1>1
  <2>10. QED
    BY <1>2, <2>2, <2>3, <2>5, <2>6, <2>7, <2>8, <2>9 DEF TsOK, Exists
<1>12. QED
  BY <1>10, <1>11

LEMMA StepBuilts ==
    DeploymentInv /\ DeploymentInv' /\ TsKnown /\ BuiltsOK /\ TsOK /\ [Next]_vars => BuiltsOK' /\ TsOK'
<1> SUFFICES ASSUME DeploymentInv, DeploymentInv', TsKnown, BuiltsOK, TsOK, [Next]_vars
             PROVE  BuiltsOK' /\ TsOK'
  OBVIOUS
<1>1. CASE TsLoads
  BY <1>1, TsLoadsBuilts
<1>2. CASE BroadcastStops \/ (Readers /\ ~TsLoads) \/ UNCHANGED vars
  <2>1. /\ UNCHANGED <<contracts, nonce, coreFile, runs>>
        /\ broadcast' = broadcast \/ broadcast' = Idle
    BY <1>2 DEF BroadcastStops, Readers, TsStarts, TsStops, RustStarts, RustSigns, RustRegisters,
       RustMonitors, RustAnswers, RustStops, RustStep, vars, chainVars, files, histories
  <2>2. ts' = ts \/ ~TsRuns'
    <3>1. CASE TsStarts \/ TsStops
      <4>1. CASE TsStarts
        <5>1. PICK m, r : /\ m = insuranceFile.insuranceServiceManager
                          /\ r = insuranceFile.stakeRegistry
          OBVIOUS
        <5>2. ts'.pc = "loading"
          BY <4>1, <5>1 DEF TsStarts, TsDown
        <5>3. QED
          BY <5>2 DEF TsRuns
      <4>2. CASE TsStops
        BY <4>2 DEF TsStops, TsDown, TsRuns
      <4>3. QED
        BY <3>1, <4>1, <4>2
    <3>2. CASE ~(TsStarts \/ TsStops)
      BY <1>2, <3>2 DEF BroadcastStops, Readers, RustStarts, RustSigns, RustRegisters,
         RustMonitors, RustAnswers, RustStops, RustStep, vars, readers
    <3>3. QED
      BY <3>1, <3>2
  <2>3. QED
    BY <2>1, <2>2, SameBuilts, SameTs
<1>3. QED
  BY <1>1, <1>2, DeployCoreBuilts, DeployInsuranceBuilts, BroadcastBuilts DEF Next

LEMMA BuiltsInvariant == Spec => [](BuiltsOK /\ TsOK)
BY InitReaders, StepBuilts, TsKnownInvariant, DeploymentInvariant, PTL DEF Spec

----------------------------------------------------------------------------

(* The file of the core is the one of its last deployment.                 *)
LEMMA LatestCore ==
    ASSUME DeploymentInv
    PROVE  \/ LatestRun("core") = 0 /\ coreFile = NoFile
           \/ \E n, p : /\ DeploymentOf("core", LatestRun("core"), n, p)
                        /\ coreFile = writeCoreJson(n) /\ coreFile # NoFile
                        /\ p < 31 => LatestRun("core") = Len(runs)
<1>1. CASE coreFile = NoFile /\ NoRun("core")
  <2>1. Len(runs) \in Nat
    BY LenProperties DEF DeploymentInv, RunsOK
  <2>2. IsLatest(0, "core") /\ 0 \in 0 .. Len(runs)
    BY <1>1, <2>1 DEF IsLatest, NoRun
  <2>3. QED
    BY <1>1, <2>2, LatestIs DEF DeploymentInv
<1>2. CASE ~(coreFile = NoFile /\ NoRun("core"))
  <2>1. PICK j, n, p : /\ DeploymentOf("core", j, n, p)
                       /\ coreFile = writeCoreJson(n)
                       /\ p < 31 => j = Len(runs)
    BY <1>2 DEF DeploymentInv, CoreOK
  <2>2. j \in 0 .. Len(runs) /\ IsLatest(j, "core") /\ n \in Nat
    BY <2>1 DEF DeploymentOf
  <2>3. LatestRun("core") = j
    BY <2>2, LatestIs DEF DeploymentInv
  <2>4. QED
    BY <2>1, <2>2, <2>3, CoreFileFields
<1>3. QED
  BY <1>1, <1>2

(* The file of the insurance contracts is the one of their last            *)
(* deployment.                                                             *)
LEMMA LatestInsurance ==
    ASSUME DeploymentInv
    PROVE  \/ LatestRun("insurance") = 0 /\ insuranceFile = NoFile
           \/ \E n, p, f : /\ DeploymentOf("insurance", LatestRun("insurance"), n, p)
                           /\ insuranceFile = writeInsuranceJson(n, NewStrategy(f))
                           /\ f \in 1 .. nonce + 16
<1>1. CASE insuranceFile = NoFile /\ NoRun("insurance")
  <2>1. Len(runs) \in Nat
    BY LenProperties DEF DeploymentInv, RunsOK
  <2>2. IsLatest(0, "insurance") /\ 0 \in 0 .. Len(runs)
    BY <1>1, <2>1 DEF IsLatest, NoRun
  <2>3. QED
    BY <1>1, <2>2, LatestIs DEF DeploymentInv
<1>2. CASE ~(insuranceFile = NoFile /\ NoRun("insurance"))
  <2>1. PICK j, n, p, f : /\ DeploymentOf("insurance", j, n, p)
                          /\ insuranceFile = writeInsuranceJson(n, NewStrategy(f))
                          /\ f \in 1 .. nonce + 16
    BY <1>2 DEF DeploymentInv, InsuranceOK
  <2>2. j \in 0 .. Len(runs) /\ IsLatest(j, "insurance")
    BY <2>1 DEF DeploymentOf
  <2>3. LatestRun("insurance") = j
    BY <2>2, LatestIs DEF DeploymentInv
  <2>4. QED
    BY <2>1, <2>3
<1>3. QED
  BY <1>1, <1>2

(* Code that no upgrade of the core touches.                               *)
LEMMA CreatedCode ==
    ASSUME NEW n \in Nat \ {0}, Deployed(CoreScript, n, 35)
    PROVE  Code(n - 1 + 15) = "EmptyContract"
<1>1. \A k \in 1 .. 35 : CoreScript[k].op = "upgrade" => Target(CoreScript, k) # 15
  BY CoreNames, CoreTargets
<1>2. CoreScript[15].op = "create" /\ CoreScript[15].code = "EmptyContract"
  BY CoreNames, CoreTargets
<1>3. n - 1 + 15 \in DOMAIN contracts /\ contracts[n - 1 + 15].code = "EmptyContract"
  <2>1. PICK i, p, t : i = 15 /\ p = 35 /\ t = CoreScript
    OBVIOUS
  <2>2. /\ i \in 1 .. p /\ t[i].op = "create" /\ t[i].code = "EmptyContract"
        /\ Deployed(t, n, p)
    BY <1>2, <2>1
  <2>3. \A j \in 1 .. p : t[j].op = "upgrade" => Target(t, j) # i
    BY <1>1, <2>1
  <2>4. n - 1 + i \in DOMAIN contracts /\ contracts[n - 1 + i].code = t[i].code
    BY <2>2, <2>3, CreatedAt
  <2>5. QED
    BY <2>1, <2>2, <2>4
<1>4. QED
  BY <1>3 DEF Code, Exists

LEMMA PlaceExists ==
    ASSUME NEW n \in Nat \ {0}, NEW p \in 28 .. 35, Deployed(CoreScript, n, p),
           NEW i \in 1 .. 28
    PROVE  n - 1 + i \in DOMAIN contracts /\ contracts[n - 1 + i].name = CoreScript[i].name
<1>1. i \in 1 .. p /\ CoreScript[i].op = "create"
  BY CoreNames
<1>2. QED
  BY <1>1, CreatedAt

LEMMA CoreKeysPlaced ==
    ASSUME NEW k \in CoreKeys
    PROVE  /\ Place(CoreScript, NameOfKey(k)) \in 1 .. 28
           /\ CoreScript[Place(CoreScript, NameOfKey(k))].name = NameOfKey(k)
<1>1. NameOfKey(k) \in {"proxyAdmin", "delegationManager", "delegationManagerImpl", "avsDirectory",
     "avsDirectoryImpl", "strategyManager", "strategyManagerImpl", "eigenPodManager",
     "eigenPodManagerImpl", "strategyFactory", "strategyFactoryImpl", "strategyBeacon"}
  BY DEF CoreKeys, NameOfKey
<1>2. QED
  BY <1>1, CorePlaces, CoreNames

LEMMA CoreFileAt ==
    ASSUME NEW n, NEW k \in CoreKeys
    PROVE  writeCoreJson(n)[k] = n - 1 + Place(CoreScript, NameOfKey(k))
BY DEF writeCoreJson, AddressOf

LEMMA CoreCompleted ==
    ASSUME DeploymentInv
    PROVE  OnlyBeaconAndPauserUnusable
<1> SUFFICES ASSUME Complete("core")
             PROVE  /\ {x \in DOMAIN ImplementationOf :
                           Code(AddressOf(CoreScript, x, coreFile.proxyAdmin)) # ImplementationOf[x]}
                          = {"eigenPodBeacon", "pauserRegistry"}
                    /\ \A k \in CoreKeys : Exists(coreFile[k])
  BY DEF OnlyBeaconAndPauserUnusable
<1>1. /\ LatestRun("core") # 0 /\ LatestRun("core") \notin lost
      /\ broadcast = Idle \/ LatestRun("core") # Len(runs)
  BY DEF Complete
<1>2. PICK n, p : DeploymentOf("core", LatestRun("core"), n, p) /\ coreFile = writeCoreJson(n)
  BY <1>1, LatestCore, Zenon
<1>3. n \in Nat \ {0} /\ p \in 0 .. 35 /\ ~(p < 35) /\ Deployed(CoreScript, n, p)
  BY <1>1, <1>2, ScriptOfOK DEF DeploymentOf, ScriptOf
<1>4. p = 35
  BY <1>3
<1>5. /\ Code(n - 1 + 3) = "delegationManagerImpl" /\ Code(n - 1 + 7) = "strategyManagerImpl"
      /\ Code(n - 1 + 17) = "strategyFactoryImpl" /\ Code(n - 1 + 9) = "eigenPodManagerImpl"
  BY <1>3, <1>4, UpgradedCode, CoreTargets
<1>6. /\ Code(n - 1 + 5) = "avsDirectoryImpl" /\ Code(n - 1 + 11) = "rewardsCoordinatorImpl"
      /\ Code(n - 1 + 13) = "eigenPodImpl"
  BY <1>3, <1>4, UpgradedCode, CoreTargets
<1>7. Code(n - 1 + 15) = "EmptyContract"
  BY <1>3, <1>4, CreatedCode
<1>8. coreFile.proxyAdmin = n
  BY <1>2, <1>3, CoreFileFields
<1>9. PICK at : at = [x \in DOMAIN ImplementationOf |-> Code(AddressOf(CoreScript, x, coreFile.proxyAdmin))]
  OBVIOUS
<1>10. DOMAIN ImplementationOf =
          {"delegationManager", "avsDirectory", "strategyManager", "eigenPodManager",
           "rewardsCoordinator", "eigenPodBeacon", "pauserRegistry", "strategyFactory"}
  BY DEF ImplementationOf
<1>11. /\ at["delegationManager"] = "delegationManagerImpl"
       /\ at["avsDirectory"] = "avsDirectoryImpl"
       /\ at["strategyManager"] = "strategyManagerImpl"
       /\ at["eigenPodManager"] = "eigenPodManagerImpl"
       /\ at["rewardsCoordinator"] = "rewardsCoordinatorImpl"
       /\ at["eigenPodBeacon"] = "eigenPodImpl"
       /\ at["pauserRegistry"] = "EmptyContract"
       /\ at["strategyFactory"] = "strategyFactoryImpl"
  BY <1>5, <1>6, <1>7, <1>8, <1>9, <1>10, CorePlaces DEF AddressOf
<1>12. \A x \in DOMAIN ImplementationOf :
          at[x] # ImplementationOf[x] <=> x \in {"eigenPodBeacon", "pauserRegistry"}
  BY <1>10, <1>11 DEF ImplementationOf
<1>13. {x \in DOMAIN ImplementationOf : at[x] # ImplementationOf[x]} = {"eigenPodBeacon", "pauserRegistry"}
  BY <1>10, <1>12
<1>14. \A k \in CoreKeys : Exists(coreFile[k])
  BY <1>2, <1>3, <1>4, CoreKeysPlaced, CoreFileAt, PlaceExists DEF Exists
<1>15. QED
  BY <1>9, <1>13, <1>14

LEMMA InsurancePlaceExists ==
    ASSUME NEW n \in Nat \ {0}, NEW p \in 7 .. 9, Deployed(InsuranceScript, n, p),
           NEW i \in 1 .. 7
    PROVE  n - 1 + i \in DOMAIN contracts /\ contracts[n - 1 + i].name = InsuranceScript[i].name
<1>1. i \in 1 .. p /\ InsuranceScript[i].op = "create"
  BY InsuranceNames
<1>2. QED
  BY <1>1, CreatedAt

LEMMA InsuranceKeysPlaced ==
    ASSUME NEW k \in InsuranceKeys, k \notin {"strategy", "token"}
    PROVE  /\ Place(InsuranceScript, k) \in 1 .. 7
           /\ InsuranceScript[Place(InsuranceScript, k)].name = k
BY InsurancePlaces, InsuranceNames DEF InsuranceKeys

LEMMA InsuranceFileAt ==
    ASSUME NEW n, NEW strategy, NEW k \in InsuranceKeys, k \notin {"strategy", "token"}
    PROVE  writeInsuranceJson(n, strategy)[k] = n - 1 + Place(InsuranceScript, k)
BY DEF writeInsuranceJson, AddressOf

LEMMA InsuranceFileRest ==
    ASSUME NEW n, NEW f \in Nat
    PROVE  /\ writeInsuranceJson(n, NewStrategy(f)).strategy = -1 - f
           /\ writeInsuranceJson(n, NewStrategy(f)).token = -1
           /\ DOMAIN writeInsuranceJson(n, NewStrategy(f)) = InsuranceKeys
BY DEF writeInsuranceJson, NewStrategy, Token, InsuranceKeys

LEMMA InsuranceCompleted ==
    ASSUME DeploymentInv
    PROVE  OnlyStrategyAndTokenMissing
<1> SUFFICES ASSUME Complete("insurance")
             PROVE  {k \in DOMAIN insuranceFile : ~Exists(insuranceFile[k])} = {"strategy", "token"}
  BY DEF OnlyStrategyAndTokenMissing
<1>1. /\ LatestRun("insurance") # 0 /\ LatestRun("insurance") \notin lost
      /\ broadcast = Idle \/ LatestRun("insurance") # Len(runs)
  BY DEF Complete
<1>2. PICK n, p, f : /\ DeploymentOf("insurance", LatestRun("insurance"), n, p)
                     /\ insuranceFile = writeInsuranceJson(n, NewStrategy(f))
                     /\ f \in 1 .. nonce + 16
  BY <1>1, LatestInsurance
<1>3. n \in Nat \ {0} /\ p \in 0 .. 9 /\ ~(p < 9) /\ Deployed(InsuranceScript, n, p)
  BY <1>1, <1>2, ScriptOfOK DEF DeploymentOf, ScriptOf
<1>4. p = 9
  BY <1>3
<1>5. f \in Nat /\ DOMAIN contracts \subseteq Nat
  BY <1>2 DEF DeploymentInv, ChainOK
<1>6. DOMAIN insuranceFile = InsuranceKeys
  BY <1>2, <1>5, InsuranceFileRest
<1>7. ASSUME NEW k \in InsuranceKeys, k \notin {"strategy", "token"}
      PROVE  Exists(insuranceFile[k])
  BY <1>2, <1>3, <1>4, <1>7, InsuranceKeysPlaced, InsuranceFileAt, InsurancePlaceExists DEF Exists
<1>8. ~Exists(insuranceFile.strategy) /\ ~Exists(insuranceFile.token)
  <2>1. insuranceFile.strategy \notin Nat /\ insuranceFile.token \notin Nat
    BY <1>2, <1>5, InsuranceFileRest
  <2>2. QED
    BY <1>5, <2>1 DEF Exists
<1>9. {"strategy", "token"} \subseteq InsuranceKeys
  BY DEF InsuranceKeys
<1>10. QED
  BY <1>6, <1>7, <1>8, <1>9

(* A core deployment whose broadcast went through leaves every proxy with  *)
(* its implementation except the beacon of the pods and the pauser         *)
(* registry, and every address of its file is on the chain; of a completed *)
(* deployment of the insurance contracts the strategy and the token alone  *)
(* are missing (CoreDeploymentLib.sol:96-274,                              *)
(* InsuranceDeploymentLib.sol:33-59).                                      *)
THEOREM CompletedDeployments == Spec => []CompletedDeploymentsLackFourThings
<1>1. DeploymentInv => CompletedDeploymentsLackFourThings
  BY CoreCompleted, InsuranceCompleted DEF CompletedDeploymentsLackFourThings
<1>2. QED
  BY <1>1, DeploymentInvariant, PTL

(* Insurance contracts rest on a delegation manager, a strategy manager    *)
(* and a factory that are initialised, however early the core deployment   *)
(* below them stopped (CoreDeploymentLib.sol:188-274,                      *)
(* InsuranceDeployer.s.sol:36-63).                                         *)
THEOREM InsuranceRests == Spec => []InsuranceRestsOnLiveCore
<1>1. BuiltsOK => InsuranceRestsOnLiveCore
  BY DEF BuiltsOK, BuiltOK, Live, InsuranceRestsOnLiveCore
<1>2. QED
  BY <1>1, BuiltsInvariant, PTL

LEMMA CoreFileNames ==
    ASSUME DeploymentInv, coreFile # NoFile, NEW k \in CoreKeys, Exists(coreFile[k])
    PROVE  contracts[coreFile[k]].name = NameOfKey(k)
<1>1. PICK n, p : /\ DeploymentOf("core", LatestRun("core"), n, p) /\ coreFile = writeCoreJson(n)
                  /\ p < 31 => LatestRun("core") = Len(runs)
  BY LatestCore, Zenon
<1>2. /\ n \in Nat \ {0} /\ p \in 0 .. 35 /\ Deployed(CoreScript, n, p)
      /\ p < 31 => nonce = n + p
  <2>1. /\ n \in Nat \ {0} /\ p \in 0 .. 35 /\ Deployed(CoreScript, n, p)
        /\ p < 35 /\ LatestRun("core") = Len(runs) => nonce = n + p
    BY <1>1, ScriptOfOK DEF DeploymentOf, ScriptOf
  <2>2. QED
    BY <1>1, <2>1
<1>3. PICK i : i = Place(CoreScript, NameOfKey(k))
  OBVIOUS
<1>4. i \in 1 .. 28 /\ CoreScript[i].name = NameOfKey(k) /\ coreFile[k] = n - 1 + i
  BY <1>1, <1>3, CoreKeysPlaced, CoreFileAt
<1>5. n - 1 + i \in 1 .. nonce - 1
  BY <1>4 DEF Exists, DeploymentInv, ChainOK
<1>6. i \in 1 .. p
  BY <1>2, <1>4, <1>5
<1>7. QED
  BY <1>2, <1>4, <1>6, CoreNames DEF Deployed

LEMMA InsuranceFileNames ==
    ASSUME DeploymentInv, insuranceFile # NoFile,
           ~(LatestRun("insurance") \in lost /\ LatestRun("core") > LatestRun("insurance")),
           NEW k \in DOMAIN insuranceFile, Exists(insuranceFile[k])
    PROVE  contracts[insuranceFile[k]].name = k
<1>1. PICK n, p, f : /\ DeploymentOf("insurance", LatestRun("insurance"), n, p)
                     /\ insuranceFile = writeInsuranceJson(n, NewStrategy(f))
                     /\ f \in 1 .. nonce + 16
  BY LatestInsurance
<1>2. /\ n \in Nat \ {0} /\ p \in 0 .. 9 /\ Deployed(InsuranceScript, n, p)
      /\ p < 9 /\ LatestRun("insurance") = Len(runs) => nonce = n + p
      /\ p < 9 => LatestRun("insurance") \in lost \/ LatestRun("insurance") = Len(runs)
      /\ LatestRun("insurance") \in 1 .. Len(runs) /\ IsLatest(LatestRun("insurance"), "insurance")
  BY <1>1, ScriptOfOK DEF DeploymentOf, ScriptOf
<1>3. Len(runs) \in Nat
  BY LenProperties DEF DeploymentInv, RunsOK
<1>4. p < 9 => nonce = n + p
  <2>1. SUFFICES ASSUME p < 9, LatestRun("insurance") # Len(runs) PROVE FALSE
    BY <1>2
  <2>2. Len(runs) \in LatestRun("insurance") + 1 .. Len(runs) /\ Len(runs) # 0
    BY <1>2, <1>3, <2>1
  <2>3. runs[Len(runs)] = "core"
    BY <1>2, <2>2, LastRun DEF IsLatest, DeploymentInv
  <2>4. IsLatest(Len(runs), "core")
    BY <1>3, <2>3 DEF IsLatest
  <2>5. LatestRun("core") = Len(runs)
    BY <1>3, <2>4, LatestIs DEF DeploymentInv
  <2>6. QED
    BY <1>2, <1>3, <2>1, <2>5
<1>5. f \in Nat /\ nonce \in Nat
  BY <1>1 DEF DeploymentInv, ChainOK
<1>6. k \in InsuranceKeys /\ k \notin {"strategy", "token"}
  <2>1. insuranceFile[k] \in Nat
    BY DEF Exists, DeploymentInv, ChainOK
  <2>2. insuranceFile.strategy \notin Nat /\ insuranceFile.token \notin Nat
    BY <1>1, <1>5, InsuranceFileRest
  <2>3. k \in InsuranceKeys
    BY <1>1, <1>5, InsuranceFileRest
  <2>4. QED
    BY <2>1, <2>2, <2>3
<1>7. PICK i : i = Place(InsuranceScript, k)
  OBVIOUS
<1>8. i \in 1 .. 7 /\ InsuranceScript[i].name = k /\ insuranceFile[k] = n - 1 + i
  BY <1>1, <1>6, <1>7, InsuranceKeysPlaced, InsuranceFileAt
<1>9. n - 1 + i \in 1 .. nonce - 1
  BY <1>8 DEF Exists, DeploymentInv, ChainOK
<1>10. i \in 1 .. p
  <2>1. n \in Nat /\ p \in 0 .. 9 /\ i \in 1 .. 7 /\ (p < 9 => nonce = n + p)
    BY <1>2, <1>4, <1>8
  <2>2. QED
    BY <1>5, <1>9, <2>1
<1>11. QED
  BY <1>2, <1>8, <1>10, InsuranceNames DEF Deployed

(* An address of a file that has code has the contract of that name,       *)
(* unless the broadcast behind the file stopped early and a core           *)
(* deployment took over its nonces (CoreDeploymentLib.sol:388-453,         *)
(* InsuranceDeploymentLib.sol:94-149).                                     *)
THEOREM FilesNameContracts == Spec => []FilesNameTheirContracts
<1>1. DeploymentInv => FilesNameTheirContracts
  BY CoreFileNames, InsuranceFileNames DEF FilesNameTheirContracts
<1>2. QED
  BY <1>1, DeploymentInvariant, PTL

LEMMA MixedOnly ==
    ASSUME BuiltsOK, TsOK, RunsOK
    PROVE  MixedOnlyAfterCoreRedeployed
<1>1. PICK b, at : b = contracts[ts.stakeRegistry].built /\ at = ts.at
  OBVIOUS
<1>2. SUFFICES ASSUME TsRuns, Exists(ts.stakeRegistry),
                      contracts[ts.stakeRegistry].name = "stakeRegistry",
                      b.core.delegationManager # ts.delegation
               PROVE  \E j \in b.run + 1 .. at : runs[j] = "core"
  BY <1>1 DEF MixedOnlyAfterCoreRedeployed
<1>3. b # NoFile /\ BuiltOK(b)
  BY <1>1, <1>2 DEF BuiltsOK, Exists
<1>4. SameDelegation(b)
  BY <1>1, <1>2 DEF TsOK
<1>5. b.run \in Nat /\ at \in Nat
  BY <1>1, <1>2, <1>3 DEF BuiltOK, TsOK
<1>6. b.run <= at
  BY <1>1, <1>2, <1>3, <1>4, <1>5 DEF SameDelegation
<1>7. ~NoCore(b.run, at)
  BY <1>1, <1>2, <1>3, <1>6 DEF BuiltOK
<1>8. QED
  BY <1>7 DEF NoCore

----------------------------------------------------------------------------
(* There is a last run of the kind, or there is none of it.                *)
HasLatest(kind) == \E j \in 0 .. Len(runs) : IsLatest(j, kind)

RustOK(r) ==
    /\ r = [pc |-> r.pc, delegation |-> r.delegation, signedFor |-> r.signedFor,
            registry |-> r.registry, manager |-> r.manager, answered |-> r.answered,
            since |-> r.since]
    /\ r.pc \in {"down", "registering", "signed", "registered", "monitoring"}
    /\ r.since \in 0 .. Len(runs)

(* No insurance contracts were deployed since the Rust operator started.   *)
Undisturbed == \A i \in rust.since + 1 .. Len(runs) : runs[i] # "insurance"

Manager == insuranceFile.insuranceServiceManager

RustFollowsFile ==
    /\ rust.pc \in {"signed", "registered", "monitoring"} => rust.signedFor = Manager
    /\ rust.pc \in {"registered", "monitoring"} => rust.registry = insuranceFile.stakeRegistry
    /\ IF rust.pc = "monitoring"
       THEN rust.manager = Manager /\ rust.answered \in {Zero, Manager}
       ELSE rust.answered = Zero

(* What the operator has read so far is what the file says now, as long as *)
(* it is undisturbed; the answers are known to be zero before any is given.*)
RustInv ==
    /\ runs \in Seq({"core", "insurance"})
    /\ HasLatest("insurance")
    /\ RustOK(rust)
    /\ Undisturbed => RustFollowsFile
    /\ rust.pc = "monitoring" \/ rust.answered = Zero

----------------------------------------------------------------------------

LEMMA RustInvInit == Init => RustInv
<1> SUFFICES ASSUME Init PROVE RustInv
  OBVIOUS
<1>1. runs = <<>> /\ rust = Down
  BY DEF Init
<1>2. runs \in Seq({"core", "insurance"}) /\ Len(runs) = 0
  BY <1>1, EmptySeq
<1>3. HasLatest("insurance")
  BY <1>2 DEF HasLatest, IsLatest
<1>4. RustOK(rust) /\ RustFollowsFile /\ rust.answered = Zero
  BY <1>1, <1>2 DEF RustOK, RustFollowsFile, Down, Zero
<1>5. QED
  BY <1>2, <1>3, <1>4 DEF RustInv

(* A deployment writes its file and adds itself to the history.            *)
LEMMA RunsAppended ==
    ASSUME RustInv, NEW kind \in {"core", "insurance"}, runs' = Append(runs, kind)
    PROVE  /\ runs' \in Seq({"core", "insurance"})
           /\ Len(runs) \in Nat /\ Len(runs') = Len(runs) + 1
           /\ \A i \in 1 .. Len(runs) : runs'[i] = runs[i]
           /\ runs'[Len(runs) + 1] = kind
           /\ HasLatest("insurance")'
<1>1. /\ runs' \in Seq({"core", "insurance"})
      /\ Len(runs) \in Nat /\ Len(runs') = Len(runs) + 1
      /\ \A i \in 1 .. Len(runs) : runs'[i] = runs[i]
      /\ runs'[Len(runs) + 1] = kind
  BY AppendProperties, LenProperties DEF RustInv
<1>2. HasLatest("insurance")'
  <2>1. CASE kind = "insurance"
    BY <1>1, <2>1 DEF HasLatest, IsLatest
  <2>2. CASE kind = "core"
    <3>1. PICK j \in 0 .. Len(runs) : IsLatest(j, "insurance")
      BY DEF RustInv, HasLatest
    <3>2. j \in 0 .. Len(runs') /\ (j # 0 => runs'[j] = "insurance")
      BY <1>1, <3>1 DEF IsLatest
    <3>3. \A i \in j + 1 .. Len(runs') : runs'[i] # "insurance"
      BY <1>1, <2>2, <3>1 DEF IsLatest
    <3>4. QED
      BY <3>2, <3>3 DEF HasLatest, IsLatest
  <2>3. QED
    BY <2>1, <2>2
<1>3. QED
  BY <1>1, <1>2

LEMMA DeployCoreInv == RustInv /\ DeployCore => RustInv'
<1> SUFFICES ASSUME RustInv, DeployCore PROVE RustInv'
  OBVIOUS
<1>1. runs' = Append(runs, "core") /\ UNCHANGED <<insuranceFile, rust>>
  BY DEF DeployCore, readers
<1>2. /\ runs' \in Seq({"core", "insurance"})
      /\ Len(runs) \in Nat /\ Len(runs') = Len(runs) + 1
      /\ \A i \in 1 .. Len(runs) : runs'[i] = runs[i]
      /\ HasLatest("insurance")'
  BY <1>1, RunsAppended
<1>3. RustOK(rust)'
  BY <1>1, <1>2 DEF RustInv, RustOK
<1>4. Undisturbed' => Undisturbed
  BY <1>1, <1>2 DEF Undisturbed, RustInv, RustOK
<1>5. RustFollowsFile' <=> RustFollowsFile
  BY <1>1 DEF RustFollowsFile, Manager
<1>6. QED
  BY <1>1, <1>2, <1>3, <1>4, <1>5 DEF RustInv

LEMMA DeployInsuranceInv == RustInv /\ DeployInsurance => RustInv'
<1> SUFFICES ASSUME RustInv, DeployInsurance PROVE RustInv'
  OBVIOUS
<1>1. runs' = Append(runs, "insurance") /\ rust' = rust
  BY DEF DeployInsurance, readers
<1>2. /\ runs' \in Seq({"core", "insurance"})
      /\ Len(runs) \in Nat /\ Len(runs') = Len(runs) + 1
      /\ runs'[Len(runs) + 1] = "insurance"
      /\ HasLatest("insurance")'
  BY <1>1, RunsAppended
<1>3. RustOK(rust)'
  BY <1>1, <1>2 DEF RustInv, RustOK
<1>4. ~Undisturbed'
  BY <1>1, <1>2 DEF Undisturbed, RustInv, RustOK
<1>5. QED
  BY <1>1, <1>2, <1>3, <1>4 DEF RustInv

(* A step of the operator itself: what it reads is in the file now.        *)
LEMMA RustReads ==
    ASSUME RustInv, UNCHANGED <<runs, insuranceFile>>, RustOK(rust)',
           Undisturbed' => RustFollowsFile', (rust.pc = "monitoring" \/ rust.answered = Zero)'
    PROVE  RustInv'
<1>1. HasLatest("insurance")'
  BY DEF RustInv, HasLatest, IsLatest
<1>2. QED
  BY <1>1 DEF RustInv

LEMMA ReadersInv == RustInv /\ Readers => RustInv'
<1> SUFFICES ASSUME RustInv, Readers PROVE RustInv'
  OBVIOUS
<1>0. UNCHANGED <<runs, insuranceFile>>
  BY DEF Readers, TsStarts, TsLoads, TsStops, RustStarts, RustSigns, RustRegisters, RustMonitors,
         RustAnswers, RustStops, RustStep, files, histories
<1>1. CASE TsStarts \/ TsLoads \/ TsStops
  <2>1. rust' = rust
    BY <1>1 DEF TsStarts, TsLoads, TsStops
  <2>2. RustOK(rust)' /\ (Undisturbed' <=> Undisturbed) /\ (RustFollowsFile' <=> RustFollowsFile)
    BY <1>0, <2>1 DEF RustInv, RustOK, Undisturbed, RustFollowsFile, Manager
  <2>3. QED
    BY <1>0, <2>1, <2>2, RustReads DEF RustInv
<1>2. CASE RustStarts \/ RustStops
  <2>1. /\ rust'.pc \in {"registering", "down"} /\ rust'.answered = Zero
        /\ RustOK(rust)'
    <3>1. Len(runs) \in Nat
      BY LenProperties DEF RustInv
    <3>2. PICK d, n : d = parse_delegation_manager_address /\ n = Len(runs)
      OBVIOUS
    <3>3. \/ rust' = [Down EXCEPT !.pc = "registering", !.delegation = d, !.since = n]
          \/ rust' = Down
      BY <1>2, <3>2 DEF RustStarts, RustStops, RustStep
    <3>4. n \in Nat /\ n = Len(runs')
      BY <1>0, <3>1, <3>2
    <3>5. PICK zero : zero = Zero
      OBVIOUS
    <3>6. \E delegation : \E pc \in {"registering", "down"}, since \in 0 .. n :
             rust' = [pc |-> pc, delegation |-> delegation, signedFor |-> zero,
                      registry |-> zero, manager |-> zero, answered |-> zero,
                      since |-> since]
      <4>1. CASE rust' = Down
        BY <3>4, <3>5, <4>1 DEF Down
      <4>2. CASE rust' = [Down EXCEPT !.pc = "registering", !.delegation = d, !.since = n]
        <5>1. rust' = [pc |-> "registering", delegation |-> d, signedFor |-> zero,
                       registry |-> zero, manager |-> zero, answered |-> zero, since |-> n]
          BY <3>5, <4>2, Zenon DEF Down
        <5>2. n \in 0 .. n
          BY <3>4
        <5>3. "registering" \in {"registering", "down"}
          OBVIOUS
        <5>4. QED
          BY <5>1, <5>2, <5>3, Zenon
      <4>3. QED
        BY <3>3, <4>1, <4>2
    <3>7. QED
      BY <3>4, <3>5, <3>6 DEF RustOK
  <2>2. QED
    BY <1>0, <2>1, RustReads DEF RustFollowsFile
<1>3. CASE RustSigns \/ RustRegisters \/ RustMonitors \/ RustAnswers
  <2>1. PICK r : r = rust
    OBVIOUS
  <2>2. PICK file : file = insuranceFile
    OBVIOUS
  <2>3. /\ RustOK(r)
        /\ \/ r.pc = "registering" /\ rust' = [r EXCEPT !.pc = "signed", !.signedFor = file.insuranceServiceManager]
           \/ r.pc = "signed" /\ rust' = [r EXCEPT !.pc = "registered", !.registry = file.stakeRegistry]
           \/ r.pc = "registered" /\ rust' = [r EXCEPT !.pc = "monitoring", !.manager = file.insuranceServiceManager]
           \/ r.pc = "monitoring" /\ rust' = [r EXCEPT !.answered = file.insuranceServiceManager]
    BY <1>3, <2>1, <2>2 DEF RustInv, RustSigns, RustRegisters, RustMonitors, RustAnswers, RustStep,
          parse_insurance_service_manager, parse_stake_registry_address
  <2>4. rust'.since = r.since /\ RustOK(rust)'
    BY <1>0, <2>3 DEF RustOK
  <2>5. Undisturbed' <=> Undisturbed
    BY <1>0, <2>1, <2>4 DEF Undisturbed
  <2>6. ASSUME RustFollowsFile PROVE RustFollowsFile'
    BY <1>0, <2>1, <2>2, <2>3, <2>6 DEF RustFollowsFile, Manager, RustOK
  <2>7. (rust.pc = "monitoring" \/ rust.answered = Zero)'
    BY <2>1, <2>3 DEF RustInv, RustOK
  <2>8. QED
    BY <1>0, <2>4, <2>5, <2>6, <2>7, RustReads DEF RustInv
<1>4. QED
  BY <1>1, <1>2, <1>3 DEF Readers

LEMMA RustInvStep == RustInv /\ [Next]_vars => RustInv'
<1> SUFFICES ASSUME RustInv, [Next]_vars PROVE RustInv'
  OBVIOUS
<1>1. CASE Broadcast \/ BroadcastStops \/ UNCHANGED vars
  <2>1. UNCHANGED <<runs, insuranceFile, rust>>
    BY <1>1 DEF Broadcast, BroadcastStops, vars, files, readers, histories
  <2>2. RustOK(rust)' /\ (Undisturbed' <=> Undisturbed) /\ (RustFollowsFile' <=> RustFollowsFile)
    BY <2>1 DEF RustInv, RustOK, Undisturbed, RustFollowsFile, Manager
  <2>3. QED
    BY <2>1, <2>2, RustReads DEF RustInv
<1>2. QED
  BY <1>1, DeployCoreInv, DeployInsuranceInv, ReadersInv DEF Next

LEMMA RustInvariant == Spec => []RustInv
BY RustInvInit, RustInvStep, PTL DEF Spec

(* The Rust operator reads the file of addresses anew at every step        *)
(* (start_operator.rs:62, 91, 186, 203).  As long as the insurance         *)
(* contracts are not deployed again it signs for, monitors and answers at  *)
(* one contract, and registers at the registry deployed with it, however   *)
(* often the core is deployed meanwhile and wherever broadcasts stop.      *)
THEOREM RustStaysUndisturbed == Spec => []RustStaysAtOneDeployment
<1>1. RustInv => RustStaysAtOneDeployment
  <2> SUFFICES ASSUME RustInv, rust.pc = "monitoring", LatestRun("insurance") <= rust.since
               PROVE  /\ rust.signedFor = rust.manager
                      /\ rust.answered \in {Zero, rust.manager}
                      /\ rust.manager = insuranceFile.insuranceServiceManager
                      /\ rust.registry = insuranceFile.stakeRegistry
    BY DEF RustStaysAtOneDeployment
  <2>1. LatestRun("insurance") \in 0 .. Len(runs) /\ IsLatest(LatestRun("insurance"), "insurance")
    BY DEF RustInv, HasLatest, IsLatest, LatestRun
  <2>2. Undisturbed
    <3>1. rust.since \in Nat /\ Len(runs) \in Nat
      BY LenProperties DEF RustInv, RustOK
    <3>2. QED
      BY <2>1, <3>1 DEF Undisturbed, IsLatest
  <2>3. QED
    BY <2>2 DEF RustInv, RustFollowsFile, Manager
<1>2. QED
  BY <1>1, RustInvariant, PTL

----------------------------------------------------------------------------
(* A TypeScript operator registers with another delegation manager than    *)
(* its stake registry reads only if the core was deployed again after the  *)
(* insurance contracts and before it loaded the files; and the Rust        *)
(* operator keeps to one deployment until the next                         *)
(* (operator/index.ts:27-36, start_operator.rs:62, 91, 186, 203).          *)
THEOREM OperatorsMix == Spec => []OperatorsMixOnlyRedeployments
<1>1. BuiltsOK /\ TsOK /\ DeploymentInv => MixedOnlyAfterCoreRedeployed
  BY MixedOnly DEF DeploymentInv
<1>2. MixedOnlyAfterCoreRedeployed /\ RustStaysAtOneDeployment => OperatorsMixOnlyRedeployments
  BY DEF OperatorsMixOnlyRedeployments
<1>3. QED
  BY <1>1, <1>2, BuiltsInvariant, DeploymentInvariant, RustStaysUndisturbed, PTL

LEMMA CoreFileType ==
    ASSUME DeploymentInv, coreFile # NoFile
    PROVE  coreFile \in [CoreKeys -> Addresses]
<1>1. PICK n, p : DeploymentOf("core", LatestRun("core"), n, p) /\ coreFile = writeCoreJson(n)
  BY LatestCore, Zenon
<1>2. n \in Nat \ {0} /\ n <= nonce /\ nonce \in Nat /\ Len(CoreScript) = 35
  BY <1>1, ScriptOfOK, CoreScriptOK DEF DeploymentOf, ScriptOf, DeploymentInv, ChainOK
<1>3. ASSUME NEW k \in CoreKeys PROVE writeCoreJson(n)[k] \in Addresses
  <2>1. PICK i : i = Place(CoreScript, NameOfKey(k))
    OBVIOUS
  <2>2. i \in 1 .. 28 /\ writeCoreJson(n)[k] = n - 1 + i
    BY <2>1, CoreKeysPlaced, CoreFileAt
  <2>3. QED
    BY <1>2, <2>2 DEF Addresses
<1>4. writeCoreJson(n) = [k \in CoreKeys |-> writeCoreJson(n)[k]]
  BY DEF writeCoreJson
<1>5. writeCoreJson(n) \in [CoreKeys -> Addresses]
  BY <1>3, <1>4
<1>6. QED
  BY <1>1, <1>5

LEMMA InsuranceFileType ==
    ASSUME DeploymentInv, insuranceFile # NoFile
    PROVE  insuranceFile \in [InsuranceKeys -> Addresses]
<1>1. PICK n, p, f : /\ DeploymentOf("insurance", LatestRun("insurance"), n, p)
                     /\ insuranceFile = writeInsuranceJson(n, NewStrategy(f))
                     /\ f \in 1 .. nonce + 16
  BY LatestInsurance
<1>2. /\ n \in Nat \ {0} /\ n <= nonce /\ nonce \in Nat /\ f \in Nat /\ f <= nonce + 16
      /\ Len(CoreScript) = 35
  BY <1>1, ScriptOfOK, CoreScriptOK DEF DeploymentOf, ScriptOf, DeploymentInv, ChainOK
<1>3. PICK file : file = writeInsuranceJson(n, NewStrategy(f))
  OBVIOUS
<1>4. ASSUME NEW k \in InsuranceKeys PROVE file[k] \in Addresses
  <2>1. CASE k \in {"strategy", "token"}
    BY <1>2, <1>3, <2>1, InsuranceFileRest DEF Addresses
  <2>2. CASE k \notin {"strategy", "token"}
    <3>1. PICK i : i = Place(InsuranceScript, k)
      OBVIOUS
    <3>2. i \in 1 .. 7 /\ file[k] = n - 1 + i
      BY <1>3, <2>2, <3>1, InsuranceKeysPlaced, InsuranceFileAt
    <3>3. QED
      BY <1>2, <3>2 DEF Addresses
  <2>3. QED
    BY <2>1, <2>2
<1>5. file = [k \in InsuranceKeys |-> file[k]]
  BY <1>3 DEF writeInsuranceJson
<1>6. file \in [InsuranceKeys -> Addresses]
  BY <1>4, <1>5
<1>7. QED
  BY <1>1, <1>3, <1>6

(* The chain, the files and what the processes know of them have their     *)
(* types, creations have the nonces of the past, and a broadcast is inside *)
(* its script (CoreDeploymentLib.sol:90-277,                               *)
(* InsuranceDeployer.s.sol:50-63).                                         *)
THEOREM TypeCorrect == Spec => []TypeOK
<1>1. DeploymentInv /\ TsKnown /\ RustInv => TypeOK
  <2> SUFFICES ASSUME DeploymentInv, TsKnown, RustInv PROVE TypeOK
    OBVIOUS
  <2>1. nonce \in Nat \ {0} /\ DOMAIN contracts \subseteq 1 .. nonce - 1
    BY DEF DeploymentInv, ChainOK
  <2>2. broadcast # Idle => nonce - broadcast.start \in 0 .. Len(broadcast.script) - 1
    BY DEF DeploymentInv, BroadcastOK
  <2>3. rust.pc \in {"down", "registering", "signed", "registered", "monitoring"}
    BY DEF RustInv, RustOK
  <2>4. ts.pc \in {"down", "loading", "running"}
    BY DEF TsKnown
  <2>5. runs \in Seq({"core", "insurance"}) /\ lost \subseteq 1 .. Len(runs)
    BY DEF DeploymentInv, RunsOK
  <2>6. QED
    BY <2>1, <2>2, <2>3, <2>4, <2>5, CoreFileType, InsuranceFileType, Zenon DEF TypeOK
<1>2. QED
  BY <1>1, DeploymentInvariant, TsKnownInvariant, RustInvariant, PTL
=============================================================================
