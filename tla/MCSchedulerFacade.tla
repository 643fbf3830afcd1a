-------------------------- MODULE MCSchedulerFacade --------------------------
\* A clock with two cron fields, and one schedule in several versions, of which
\* the first that is registered stays.
EXTENDS SchedulerFacade

\* A minute is two ticks, an hour three minutes, a day two hours.
MCLimits == <<<<0, 2>>, <<0, 1>>>>
MCFields(w) == <<(w \div 2) % 3, (w \div 6) % 2>>

Steady == [change |-> 0, before |-> 0, after |-> 0]
Back == [change |-> 8, before |-> 6, after |-> 0]
Forward == [change |-> 8, before |-> 0, after |-> 6]

Star == [from |-> None, to |-> None, step |-> 1]

Base == [id |-> "s", version |-> 1, kind |-> "interval", at |-> 0, naive |-> FALSE,
         seconds |-> 4, expr |-> <<>>, zone |-> Steady, expires |-> None,
         write |-> FALSE, limit |-> 1, retries |-> 0, channel |-> FALSE,
         only_if |-> "failure"]

MCDefinitions ==
    {[Base EXCEPT !.retries = 1, !.channel = TRUE],
     [Base EXCEPT !.version = 2, !.write = TRUE, !.expires = 9, !.channel = TRUE,
                  !.only_if = "finding_or_failure"],
     [Base EXCEPT !.version = 3, !.kind = "one_shot", !.at = 9, !.naive = TRUE,
                  !.zone = Forward],
     [Base EXCEPT !.version = 4, !.kind = "one_shot", !.at = 4, !.channel = TRUE,
                  !.only_if = "always"],
     [Base EXCEPT !.version = 5, !.kind = "cron", !.zone = Back, !.limit = 2,
                  !.expr = <<{[from |-> 1, to |-> 2, step |-> 2]}, {Star}>>],
     [Base EXCEPT !.version = 6, !.kind = "cron", !.zone = Forward,
                  !.expr = <<{[from |-> 0, to |-> 2, step |-> 2]}, {Star}>>],
     [Base EXCEPT !.version = 7, !.kind = "cron", !.expr = <<{Star}, {[Star EXCEPT !.from = 1, !.to = 3]}>>],
     [Base EXCEPT !.version = 8, !.limit = 0],
     [Base EXCEPT !.version = 9, !.kind = "cron", !.zone = Forward,
                  !.expr = <<{[from |-> 0, to |-> 2, step |-> 2]},
                             {[from |-> 0, to |-> 0, step |-> 1]}>>]}
=============================================================================
