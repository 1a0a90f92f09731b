------------------------------ MODULE NpuDomain ------------------------------
(***************************************************************************)
(* The IOMMU domains of the NPU driver.  The device is attached to one     *)
(* domain at a time; whoever needs a domain, a job or a mapping, takes a   *)
(* reference, and only a domain nobody refers to is switched away.         *)
(*                                                                         *)
(* The operators are parts of actions: NpuJob and NpuMemory, which extend  *)
(* this module, say who takes them and where they go on.                   *)
(***************************************************************************)
EXTENDS Integers, FiniteSets

CONSTANTS
  Domains,    \* domain ids in use
  Domain0,    \* the default domain, attached at probe
  NoDomain    \* attached to no domain

ASSUME DomainAssumption == Domain0 \in Domains /\ NoDomain \notin Domains

VARIABLES
  iommu_domain_id,        \* the domain the driver believes to be attached
  attached,               \* the domain that is attached
  iommu_domain_refcount

domainVars == <<iommu_domain_id, attached, iommu_domain_refcount>>

InitDomain ==
  /\ iommu_domain_id = Domain0
  /\ attached = Domain0
  /\ iommu_domain_refcount = 0

\* The current domain is asked for again.
GetSame(d) ==
  /\ d = iommu_domain_id
  /\ iommu_domain_refcount' = iommu_domain_refcount + 1
  /\ UNCHANGED <<iommu_domain_id, attached>>

\* Mutant of SwitchDomain: the references to the old domain are not looked at.
SwitchDomainInUse(d) ==
  /\ d # iommu_domain_id
  /\ attached = iommu_domain_id
  /\ iommu_domain_id' = d
  /\ attached' = d
  /\ iommu_domain_refcount' = iommu_domain_refcount + 1

\* Nobody uses the old domain: the new one, allocated at its first use, is
\* attached.
SwitchDomain(d) ==
  /\ d # iommu_domain_id
  /\ iommu_domain_refcount = 0
  /\ attached = iommu_domain_id
  /\ iommu_domain_id' = d
  /\ attached' = d
  /\ iommu_domain_refcount' = iommu_domain_refcount + 1

\* The switch fails: before the old domain is detached, or after it, and then
\* attaching it again may fail or, for a new domain, is not even tried.
SwitchFails(d) ==
  /\ d # iommu_domain_id
  /\ iommu_domain_refcount = 0
  /\ IF attached = iommu_domain_id
       THEN attached' \in {attached, NoDomain}
       ELSE UNCHANGED attached
  /\ UNCHANGED <<iommu_domain_id, iommu_domain_refcount>>

\* Six seconds have passed and the old domain is still in use.
SwitchTimesOut(d) ==
  /\ d # iommu_domain_id
  /\ iommu_domain_refcount # 0
  /\ UNCHANGED domainVars

DomainPut ==
  /\ iommu_domain_refcount' = iommu_domain_refcount - 1
  /\ UNCHANGED <<iommu_domain_id, attached>>
=============================================================================
