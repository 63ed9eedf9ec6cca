-------------------------- MODULE SourceHardening --------------------------
(***************************************************************************)
(* What the source hardening guards watch. Each of them reads some files   *)
(* of the project and reports when a line of its table is missing, when a  *)
(* word appears that would change something, or when a definition comes    *)
(* after its use. The tables themselves are abstracted to the files they   *)
(* speak of; an edit of a file is one of a few kinds.                      *)
(***************************************************************************)

(* What can have happened to a file. *)
Kinds == {
  "lost",     \* a line the tables demand of it is gone
  "writes",   \* a statement that changes the database has come in
  "swapped",  \* two of its parts have changed places
  "linked",   \* it is a symbolic link to the same text
  "noexec",   \* it is no longer executable
  "absent"}   \* it is gone

(***************************************************************************)
(* A guard that reads targets reports a lost line and a missing file, in   *)
(* ordered also a changed order, in readOnly a write, and a link if it     *)
(* looks for links.                                                        *)
(***************************************************************************)
Watching(targets, ordered, readOnly, links) ==
  [lost |-> targets, absent |-> targets, swapped |-> ordered, writes |-> readOnly,
   linked |-> IF links THEN targets ELSE {}, noexec |-> {}]

-----------------------------------------------------------------------------
(* Guards of the host, the containers and the network *)

CoreHostTargets == {"check-host-context.py", "check-time-sync.py", "check-compose-services.py"}

CorePrivilegeTargets ==
  {"check-privilege-policy.py", "check-privilege-risk-review.py",
   "check-privilege-least-privilege-plan.py", "check-privilege-remediation-gate.py",
   "check-privilege-no-sudoers-change.py"}

CoreArtifactTargets == {"check-project-artifacts.sh", "check-runtime-log-markers.sh"}

CoreTargets == CoreHostTargets \cup CorePrivilegeTargets \cup CoreArtifactTargets

CoreSourceHardening == Watching(CoreTargets, CoreTargets, CoreTargets, FALSE)

ContainerTargets ==
  {"check-container-hardening.py", "check-container-images.sh", "check-image-pinning-guard.sh",
   "check-image-pinning-readiness.sh"}

ContainerSourceHardening ==
  Watching(ContainerTargets, ContainerTargets \ {"check-container-images.sh"}, ContainerTargets, FALSE)

DnsTargets ==
  {"check-network-exposure.py", "check-public-dns-exposure.py", "check-public-dns-multiresolver.py",
   "check-public-dns-authoritative.py", "check-public-dns-caa.py", "check-direct-origin-bypass.py"}

PortTargets ==
  {"check-direct-origin-port-exposure.py", "check-host-udp-exposure.py",
   "check-host-firewall-br-ports.py", "check-host-nft-br-ports.py",
   "check-network-policy-consistency.py", "check-network-policy-runtime-env.py",
   "check-network-policy-runtime-summary.py"}

NetworkTargets == DnsTargets \cup PortTargets

(* As a bug would have it: a table without the nftables guard. *)
NetworkSourceHardeningShort ==
  LET targets == NetworkTargets \ {"check-host-nft-br-ports.py"}
  IN  Watching(targets, targets, targets, TRUE)

(* The order in the nftables guard is looked at under a name it does not have. *)
NetworkSourceHardening ==
  Watching(NetworkTargets,
           {"check-network-exposure.py", "check-public-dns-multiresolver.py",
            "check-public-dns-authoritative.py", "check-network-policy-runtime-summary.py"},
           NetworkTargets, TRUE)

AccessRuntimeTargets ==
  {"check-runtime-http-security.py", "check-external-access-surface.py",
   "check-external-cookie-security.py", "check-tls-certificate.py", "check-app-auth-surface.py"}

AccessRuntimeSourceHardening ==
  Watching(AccessRuntimeTargets, AccessRuntimeTargets, AccessRuntimeTargets, FALSE)

(* The compose file is compared by its values, whatever their order. *)
ComposeTargets == {"docker-compose.yml"}

ComposeSourceHardening == Watching(ComposeTargets, {}, {}, FALSE)

-----------------------------------------------------------------------------
(* Guards of imports, data, backup and restore *)

ImportTargets ==
  {"import-m00h-betriebsrat.sh", "import-bag-feed-docker.sh", "import-bag-feed.py",
   "check-import-pipeline.py"}

ImportUnits ==
  {"br-wissen-import-m00h.service", "br-wissen-import-bag.service",
   "br-wissen-import-m00h.timer", "br-wissen-import-bag.timer"}

ImportSourceHardening ==
  Watching(ImportTargets \cup ImportUnits,
           {"import-m00h-betriebsrat.sh", "import-bag-feed.py"}, {}, FALSE)

DataIntegrityTargets == {"check-answer-export-safety.py", "check-audit-trail.py", "check-db-schema.py"}

DataIntegritySourceHardening ==
  Watching(DataIntegrityTargets, DataIntegrityTargets, DataIntegrityTargets, FALSE)

FreshnessPolicyTargets ==
  {"check-backup-scope.py", "check-backup-runtime-policy.py", "check-restic-repository-check.py",
   "check-restore-runtime-policy.py"}

BackupAgeTargets == {"check-backup-freshness.py"}
RestoreAgeTargets == {"check-restore-freshness.py"}
FreshnessAgeTargets == BackupAgeTargets \cup RestoreAgeTargets

FreshnessSourceHardening ==
  Watching(FreshnessPolicyTargets \cup FreshnessAgeTargets, FreshnessAgeTargets,
           FreshnessPolicyTargets \cup FreshnessAgeTargets, FALSE)

StorageTargets == {"check-storage-permissions.py", "check-storage-capacity.py"}

StorageSourceHardening == Watching(StorageTargets, StorageTargets, StorageTargets, FALSE)

RegressionTargets == {"run-regressions.py", "run-regressions-docker.sh", "check-regression-freshness.py"}

(* The regressions write, and are cleaned up after. *)
RegressionSourceHardening ==
  Watching(RegressionTargets, RegressionTargets, {"check-regression-freshness.py"}, FALSE)

BackupTargets == {"backup-br-wissen.sh"}

BackupSourceHardening == Watching(BackupTargets, BackupTargets, {}, FALSE)

RestoreTargets == {"restore-smoke-br-wissen.sh", "run-restore-smoke-drill.sh"}

RestoreSourceHardening == Watching(RestoreTargets, RestoreTargets, {}, FALSE)

-----------------------------------------------------------------------------
(* Guards of the surfaces: status, health check, units, wrappers, documents *)

StatusTargets == {"status-br-wissen.sh", "report-duplicate-documents-docker.sh"}

StatusSourceHardening == Watching(StatusTargets, {"status-br-wissen.sh"}, {}, FALSE)

HealthcheckTargets == {"healthcheck-br-wissen.py", "healthcheck-br-wissen-docker.sh"}

HealthcheckSourceHardening ==
  Watching(HealthcheckTargets, HealthcheckTargets, {"healthcheck-br-wissen.py"}, FALSE)

ServiceUnits ==
  {"br-wissen-healthcheck.service", "br-wissen-backup.service", "br-wissen-restore-smoke.service"}
TimerUnits ==
  {"br-wissen-healthcheck.timer", "br-wissen-backup.timer", "br-wissen-restore-smoke.timer"}
Units == ServiceUnits \cup TimerUnits \cup ImportUnits

SystemdSourceHardening == Watching(Units, {}, {}, FALSE)

WrapperTargets ==
  {"backup-br-wissen.sh", "run-restore-smoke-drill.sh", "restore-smoke-br-wissen.sh",
   "import-m00h-betriebsrat.sh", "import-bag-feed-docker.sh", "run-regressions-docker.sh",
   "export-answer-docker.sh", "repair-short-text-sources-docker.sh",
   "check-cloudflare-staging-pattern.sh", "ocr-single-pdf.sh"}

OperationalWrapperSourceHardening == Watching(WrapperTargets, {}, {}, TRUE)

GuideTargets == {"README.md", "docs/RUNBOOK.md"}
OperationTargets == {"systemd/README.md", "docs/READINESS.md"}
DocTargets == GuideTargets \cup OperationTargets

DocSourceHardening == Watching(DocTargets, DocTargets, {}, FALSE)

-----------------------------------------------------------------------------
(* Guards of guards *)

MetaWiringTargets ==
  {"check-guard-coverage.py", "check-readiness-doc.py", "check-python-syntax.sh",
   "check-shell-syntax.sh"}

MetaUnitTargets ==
  {"check-systemd-units.sh", "check-systemd-loaded-units.py", "check-script-permission-policy.py"}

MetaRegistryTargets ==
  {"check-doc-source-hardening.py", "check-source-hardening-coverage.py",
   "check-summary-contracts.py", "check-surface-registry.py", "check-guard-registry-integrity.py"}

MetaRecordTargets ==
  {"check-protocol-integrity.py", "check-git-remote-readiness.py", "check-backup-scope.py"}

MetaTargets == MetaWiringTargets \cup MetaUnitTargets \cup MetaRegistryTargets \cup MetaRecordTargets

MetaSourceHardening == Watching(MetaTargets, MetaTargets, MetaTargets, FALSE)

(* The guards that have a group of targets, whose names must be in them. *)
CoverageGuards ==
  {"check-core-source-hardening.py", "check-container-source-hardening.py",
   "check-network-source-hardening.py", "check-access-runtime-source-hardening.py",
   "check-import-source-hardening.py", "check-data-integrity-source-hardening.py",
   "check-freshness-source-hardening.py", "check-storage-source-hardening.py",
   "check-regression-source-hardening.py", "check-meta-source-hardening.py"}

CoverageTargets ==
  CoreTargets \cup ContainerTargets \cup NetworkTargets \cup AccessRuntimeTargets
    \cup {"check-import-pipeline.py", "check-regression-freshness.py"}
    \cup DataIntegrityTargets \cup FreshnessPolicyTargets \cup FreshnessAgeTargets
    \cup StorageTargets \cup (MetaTargets \ {"check-backup-scope.py"})

(* Not in a group: nobody demands a line of them. *)
UngroupedGuards ==
  {"check-backup-source-hardening.py", "check-compose-source-hardening.py",
   "check-healthcheck-source-hardening.py", "check-operational-wrapper-source-hardening.py",
   "check-restore-source-hardening.py", "check-status-source-hardening.py",
   "check-systemd-source-hardening.py"}

Exceptions == {"check-cloudflare-staging-pattern.sh"}

CoverageItself == {"check-source-hardening-coverage.py"}

SourceHardeningCoverage == Watching(CoverageGuards, CoverageItself, CoverageItself, TRUE)

CheckScripts == CoverageTargets \cup CoverageGuards \cup UngroupedGuards \cup Exceptions

OtherScripts ==
  StatusTargets \cup HealthcheckTargets \cup WrapperTargets \cup RegressionTargets \cup ImportTargets

WatchedFiles == CheckScripts \cup OtherScripts \cup Units \cup DocTargets \cup ComposeTargets

(* The guards that read files: those of groups, those of none, and two more. *)
HardeningGuards ==
  CoverageGuards \cup UngroupedGuards \cup CoverageItself \cup {"check-doc-source-hardening.py"}

(* What each of them reports; all others read none of these files. *)
Watches ==
  [g \in HardeningGuards |->
     CASE g = "check-core-source-hardening.py" -> CoreSourceHardening
       [] g = "check-container-source-hardening.py" -> ContainerSourceHardening
       [] g = "check-network-source-hardening.py" -> NetworkSourceHardening
       [] g = "check-access-runtime-source-hardening.py" -> AccessRuntimeSourceHardening
       [] g = "check-compose-source-hardening.py" -> ComposeSourceHardening
       [] g = "check-import-source-hardening.py" -> ImportSourceHardening
       [] g = "check-data-integrity-source-hardening.py" -> DataIntegritySourceHardening
       [] g = "check-freshness-source-hardening.py" -> FreshnessSourceHardening
       [] g = "check-storage-source-hardening.py" -> StorageSourceHardening
       [] g = "check-regression-source-hardening.py" -> RegressionSourceHardening
       [] g = "check-backup-source-hardening.py" -> BackupSourceHardening
       [] g = "check-restore-source-hardening.py" -> RestoreSourceHardening
       [] g = "check-status-source-hardening.py" -> StatusSourceHardening
       [] g = "check-healthcheck-source-hardening.py" -> HealthcheckSourceHardening
       [] g = "check-systemd-source-hardening.py" -> SystemdSourceHardening
       [] g = "check-operational-wrapper-source-hardening.py" -> OperationalWrapperSourceHardening
       [] g = "check-doc-source-hardening.py" -> DocSourceHardening
       [] g = "check-meta-source-hardening.py" -> MetaSourceHardening
       [] g = "check-source-hardening-coverage.py" -> SourceHardeningCoverage]
=============================================================================
