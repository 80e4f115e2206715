---------------------------- MODULE MCReportJobs -----------------------------
(***************************************************************************)
(* Two messages out of: a good request (perhaps published twice), one for  *)
(* the report that drops its errors, a selection that needs a permission,  *)
(* bad dates, an unknown report, an unsupported format, an undecodable one. *)
(***************************************************************************)
EXTENDS ReportJobs

MCRegistry == {"daily_sales", "staff_summary"}
MCSilentReport == {"staff_summary"}
MCColumns == <<[key |-> "name", sensitive |-> FALSE],
               [key |-> "pan", sensitive |-> TRUE],
               [key |-> "cash", sensitive |-> FALSE]>>

Req(job, report, format, columns, allow) ==
    [job |-> job, report |-> report, format |-> format, columns |-> columns,
     allow |-> allow, dates |-> TRUE]

MCRequest ==
    {Req("j1", "daily_sales", "CSV", <<>>, FALSE),
     Req("j2", "staff_summary", "PDF", <<"cash", "pan">>, TRUE),
     Req("j3", "daily_sales", "XLSX", <<"cash", "pan">>, FALSE),
     [Req("j6", "daily_sales", "CSV", <<>>, TRUE) EXCEPT !.dates = FALSE],
     Req("j4", "gone", "CSV", <<>>, FALSE),
     Req("j5", "daily_sales", "ods", <<>>, FALSE),
     Undecodable}
=============================================================================
