--------------------------- MODULE Normalization ---------------------------
(***************************************************************************)
(* The normaliser and its adapters (src/src/ingestion): what a raw payload *)
(* becomes, an event of some severity or an exception.  Pure functions; of *)
(* a payload only what decides severity or outcome is kept.                *)
(***************************************************************************)
EXTENDS Integers

Severities == {"INFO", "LOW", "MEDIUM", "HIGH", "CRITICAL"}

\* SeverityLevel, "ordered CRITICAL (worst) -> INFO (lowest)"
Rank(severity) ==
    IF severity = "CRITICAL" THEN 4
    ELSE IF severity = "HIGH" THEN 3
    ELSE IF severity = "MEDIUM" THEN 2
    ELSE IF severity = "LOW" THEN 1 ELSE 0

-----------------------------------------------------------------------------
(* BaseAdapter                                                             *)

NoScore == -1

\* A CVSS base score in tenths.
cvss_to_severity(score) ==
    IF score = NoScore THEN "INFO"
    ELSE IF score >= 90 THEN "CRITICAL"
    ELSE IF score >= 70 THEN "HIGH"
    ELSE IF score >= 40 THEN "MEDIUM"
    ELSE IF score > 0 THEN "LOW"
    ELSE "INFO"

\* A label after str().strip().upper(); "" is a field that is missing or empty.
label_to_severity(label) ==
    IF label \in {"CRIT", "CRITICAL", "P1", "SEV1"} THEN "CRITICAL"
    ELSE IF label \in {"HIGH", "P2", "SEV2"} THEN "HIGH"
    ELSE IF label \in {"MED", "MEDIUM", "MODERATE", "P3"} THEN "MEDIUM"
    ELSE IF label \in {"LOW", "P4"} THEN "LOW"
    ELSE "INFO"

-----------------------------------------------------------------------------
(* The adapters                                                            *)

\* The first field that is present and not empty.
First(fields, empty, default) ==
    IF \A i \in DOMAIN fields : fields[i] = empty THEN default
    ELSE fields[CHOOSE i \in DOMAIN fields :
                   fields[i] # empty /\ \A j \in 1..(i - 1) : fields[j] = empty]

NoPri == -1

SYSLOG_SEVERITY ==
    <<"CRITICAL", "CRITICAL", "CRITICAL", "HIGH", "MEDIUM", "LOW", "INFO", "INFO">>

\* A line without <PRI> keeps the lowest level; severity is PRI % 8.
decode_pri(pri) == IF pri = NoPri THEN "INFO" ELSE SYSLOG_SEVERITY[(pri % 8) + 1]

\* Scores of CVSS v3.1, v3.0 and v2; a score or id that cannot be read raises
\* ValueError, a field of an unexpected JSON type TypeError or AttributeError.
NvdParse(p) ==
    IF p.fields = "readable" THEN cvss_to_severity(First(p.scores, NoScore, NoScore))
    ELSE IF p.fields = "unreadable" THEN "ValueError" ELSE "OtherError"

\* The fields severity, priority, level and risk.  Every field is taken as
\* text; a timestamp that cannot be read becomes now(), but an epoch beyond
\* the platform's time_t raises OverflowError.
SiemParse(p) ==
    IF p.epoch = "overflow" THEN "OtherError"
    ELSE label_to_severity(First(p.labels, "", "INFO"))

SyslogParse(p) == decode_pri(p.pri)

\* ADAPTER_REGISTRY: a hint that is no source type, or one without adapter,
\* raises ValueError.
normalize(p) ==
    IF p.source = "CVE" THEN NvdParse(p)
    ELSE IF p.source = "SIEM_ALERT" THEN SiemParse(p)
    ELSE IF p.source = "SYSLOG" THEN SyslogParse(p)
    ELSE "ValueError"

-----------------------------------------------------------------------------
(* What is kept of a payload.                                              *)

UrlVerdicts == {"none", "allowed", "refused"}

CvePayloads ==
    [source : {"CVE"}, url : UrlVerdicts,
     fields : {"readable", "unreadable", "mistyped"}, scores : [1..3 -> Nat \union {NoScore}]]

SiemPayloads ==
    [source : {"SIEM_ALERT"}, url : UrlVerdicts,
     epoch : {"fits", "overflow"}, labels : [1..4 -> STRING]]

SyslogPayloads == [source : {"SYSLOG"}, url : UrlVerdicts, pri : Nat \union {NoPri}]

OtherPayloads == [source : {"AUTH", "NETWORK", "CLOUD", "unknown"}, url : UrlVerdicts]

AllPayloads == CvePayloads \union SiemPayloads \union SyslogPayloads \union OtherPayloads

=============================================================================
