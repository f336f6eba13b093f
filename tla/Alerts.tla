------------------------------- MODULE Alerts -------------------------------
(***************************************************************************)
(* Operational alerts (domain/notifications/alerts.rs).  A monitoring      *)
(* alert is counted against the hour's, sent to each channel of its level  *)
(* in turn and recorded with what became of it; the mail channel holds an  *)
(* SMTP dialogue whose every reply may be a refusal or fail to come.  A    *)
(* security alert goes to the destinations its severity reaches.           *)
(***************************************************************************)
EXTENDS Naturals, Sequences, FiniteSets

CONSTANTS Senders,        \* alerts that may be raised
          Channels,       \* what an alert may be sent to
          ChannelsOf,     \* level -> its channels, in order
          MaxPerHour, AlertHour,
          Recipients,     \* recipients of the mail channel
          MinSeverity,    \* destination -> the rank from which it is told
          Configured,     \* the destinations and channels that are configured
          MaxTick, MaxAlertLost   \* bounds: instants, failures

Levels == DOMAIN ChannelsOf
Destinations == DOMAIN MinSeverity

ASSUME AlertsAssumption ==
  /\ {MaxPerHour, AlertHour, Recipients, MaxTick, MaxAlertLost} \subseteq Nat
  /\ "" \notin Levels /\ \A l \in Levels : ChannelsOf[l] \in Seq(Channels)
  /\ {"email", "chat-webhook", "webhook"} \subseteq Channels

VARIABLES
  tick,
  alert,     \* s -> [at, level, born, limited, todo, sent, failed, stage, rcpt]
  recorded,  \* monitoring_alerts: the senders whose row was inserted
  mailbox,   \* s -> the recipients the mail server has delivered the message to
  alertOverlap,   \* two alerts raised at once, a row not inserted or a count not read
  alertLost

alertVars == <<tick, alert, recorded, mailbox, alertOverlap, alertLost>>

NoAlert == [at |-> "idle", level |-> "", born |-> 0, limited |-> FALSE, todo |-> <<>>,
            sent |-> {}, failed |-> {}, stage |-> "", rcpt |-> 0]

AlertInit ==
  /\ tick = 0 /\ alertLost = 0 /\ recorded = {} /\ alertOverlap = FALSE
  /\ alert = [s \in Senders |-> NoAlert] /\ mailbox = [s \in Senders |-> 0]

Busy(s) == alert[s].at \notin {"idle", "done"}
Phase(s, a) == alert[s].at = a
RecentAlerts == {s \in recorded : tick < alert[s].born + AlertHour}

\* MUTANT of Limited: off by one.
LimitedLate(level) == level /= "emergency" /\ Cardinality(RecentAlerts) > MaxPerHour

Limited(level) == level /= "emergency" /\ Cardinality(RecentAlerts) >= MaxPerHour

-----------------------------------------------------------------------------
\* A COUNT that fails reads as none sent.
SendMonitoringAlert(s, level) ==
  /\ Phase(s, "idle")
  /\ \E counted \in BOOLEAN :
       LET over == counted /\ Limited(level)
       IN  /\ IF counted THEN UNCHANGED alertLost ELSE alertLost < MaxAlertLost /\ alertLost' = alertLost + 1
           /\ alert' = [alert EXCEPT ![s] =
                [NoAlert EXCEPT !.at = "send", !.level = level, !.born = tick, !.limited = over,
                                !.todo = IF over THEN <<>> ELSE ChannelsOf[level]]]
           /\ alertOverlap' = (alertOverlap \/ ~counted \/ \E q \in Senders : Busy(q))
  /\ UNCHANGED <<tick, recorded, mailbox>>

Told(d, severity) == IF d \in Destinations /\ severity >= MinSeverity[d] THEN <<d>> ELSE <<>>
Selected(severity) == Told("email", severity) \o Told("chat-webhook", severity) \o Told("webhook", severity)
SendSecurityAlert(s, severity) ==
  /\ Phase(s, "idle")
  /\ alert' = [alert EXCEPT ![s] = [NoAlert EXCEPT !.at = "warn", !.todo = Selected(severity)]]
  /\ UNCHANGED <<tick, recorded, mailbox, alertOverlap, alertLost>>

\* What becomes of the channel at hand; the next one is tried in either case.
ChannelSent(a) == [a EXCEPT !.todo = Tail(@), !.sent = @ \cup {Head(a.todo)}, !.stage = "", !.rcpt = 0]
ChannelFailed(a) == [a EXCEPT !.todo = Tail(@), !.failed = @ \cup {Head(a.todo)}, !.stage = "", !.rcpt = 0]

Dialogue(s) == Phase(s, "send") /\ alert[s].todo /= <<>> /\ Head(alert[s].todo) = "email"

\* A post that is refused, not answered in time or not configured is a failure.
Post(s) ==
  /\ alert[s].todo /= <<>> /\ ~Dialogue(s)
  /\ LET c == Head(alert[s].todo)
     IN  \/ c \in Configured /\ alert' = [alert EXCEPT ![s] = ChannelSent(@)] /\ UNCHANGED alertLost
         \/ c \notin Configured /\ alert' = [alert EXCEPT ![s] = ChannelFailed(@)] /\ UNCHANGED alertLost
         \/ /\ c \in Configured \ {"console"} /\ alertLost < MaxAlertLost /\ alertLost' = alertLost + 1
            /\ alert' = [alert EXCEPT ![s] = ChannelFailed(@)]
  /\ UNCHANGED <<tick, recorded, mailbox, alertOverlap>>

-----------------------------------------------------------------------------
(* send_plain_smtp: a stage is over when the server has accepted it.       *)

NextStage(a) ==
  CASE a.stage = "" -> [a EXCEPT !.stage = "mail"]
    [] a.stage \in {"mail", "rcpt"} -> IF a.rcpt < Recipients
                                       THEN [a EXCEPT !.stage = "rcpt", !.rcpt = @ + 1]
                                       ELSE [a EXCEPT !.stage = "data"]
    [] a.stage = "data" -> [a EXCEPT !.stage = "text"]

\* The greeting, HELO and AUTH, the sender, each recipient, DATA: then the message.
SmtpAccepts(s) ==
  /\ Dialogue(s) /\ "email" \in Configured /\ alert[s].stage /= "text"
  /\ alert' = [alert EXCEPT ![s] = NextStage(@)]
  /\ UNCHANGED <<tick, recorded, mailbox, alertOverlap, alertLost>>

SmtpDelivers(s) ==
  /\ Dialogue(s) /\ alert[s].stage = "text"
  /\ mailbox' = [mailbox EXCEPT ![s] = alert[s].rcpt]
  /\ \/ alert' = [alert EXCEPT ![s] = ChannelSent(@)] /\ UNCHANGED alertLost
     \/ \* the message is taken, its reply does not come in SMTP_TIMEOUT
        /\ alertLost < MaxAlertLost /\ alertLost' = alertLost + 1
        /\ alert' = [alert EXCEPT ![s] = ChannelFailed(@)]
  /\ UNCHANGED <<tick, recorded, alertOverlap>>

SmtpRefuses(s) ==
  /\ Dialogue(s)
  /\ IF "email" \in Configured THEN alertLost < MaxAlertLost /\ alertLost' = alertLost + 1
     ELSE UNCHANGED alertLost
  /\ alert' = [alert EXCEPT ![s] = ChannelFailed(@)]
  /\ UNCHANGED <<tick, recorded, mailbox, alertOverlap>>

-----------------------------------------------------------------------------
\* The row carries the instant the alert was raised at, and one that is not inserted is
\* only logged.
Record(s) ==
  /\ Phase(s, "send") /\ alert[s].todo = <<>>
  /\ alert' = [alert EXCEPT ![s].at = "done"]
  /\ \/ recorded' = recorded \cup {s} /\ UNCHANGED <<alertOverlap, alertLost>>
     \/ /\ alertLost < MaxAlertLost /\ alertLost' = alertLost + 1
        /\ alertOverlap' = TRUE /\ UNCHANGED recorded
  /\ UNCHANGED <<tick, mailbox>>

WarningSent(s) ==
  /\ Phase(s, "warn") /\ alert[s].todo = <<>>
  /\ alert' = [alert EXCEPT ![s].at = "done"]
  /\ UNCHANGED <<tick, recorded, mailbox, alertOverlap, alertLost>>

AlertTick ==
  /\ tick < MaxTick /\ tick' = tick + 1
  /\ UNCHANGED <<alert, recorded, mailbox, alertOverlap, alertLost>>

AlertNext ==
  \/ \E s \in Senders :
       \/ \E level \in Levels : SendMonitoringAlert(s, level)
       \/ \E severity \in 0..3 : SendSecurityAlert(s, severity)
       \/ Post(s)
       \/ SmtpAccepts(s)
       \/ SmtpDelivers(s)
       \/ SmtpRefuses(s)
       \/ Record(s)
       \/ WarningSent(s)
  \/ AlertTick

AlertSpec == AlertInit /\ [][AlertNext]_alertVars

-----------------------------------------------------------------------------
AlertRows == [at : {"idle", "send", "warn", "done"}, level : Levels \cup {""}, born : 0..MaxTick,
              limited : BOOLEAN, todo : Seq(Channels), sent : SUBSET Channels, failed : SUBSET Channels,
              stage : {"", "mail", "rcpt", "data", "text"}, rcpt : 0..Recipients]
AlertTypeOK ==
  /\ tick \in 0..MaxTick /\ alertLost \in 0..MaxAlertLost /\ recorded \subseteq Senders
  /\ mailbox \in [Senders -> 0..Recipients] /\ alertOverlap \in BOOLEAN
  /\ alert \in [Senders -> AlertRows]

\* Where an alert stands: security alerts have no level, and a dialogue has told the
\* server of no recipient before its turn, and of all of them after.
AlertIsStaged(s) ==
  LET a == alert[s]
  IN  /\ a.at = "idle" => a = NoAlert
      /\ a.at = "send" => a.level \in Levels
      /\ a.at = "warn" => a.level = ""
      /\ a.at = "done" => a.todo = <<>>
      /\ a.born <= tick
      /\ a.stage /= "" => Dialogue(s)
      /\ a.stage \in {"", "mail"} => a.rcpt = 0
      /\ a.stage \in {"data", "text"} => a.rcpt = Recipients

\* Each channel of the level is still to be tried, has been told or has failed; an alert
\* over the limit has nobody to tell. A channel that is listed once is tried once.
Items(q) == {q[i] : i \in DOMAIN q}
EachOnce(q) == \A i, j \in DOMAIN q : q[i] = q[j] => i = j
IsAccounted(s) ==
  LET a == alert[s]
  IN  a.level \in Levels =>
        IF a.limited THEN a.level /= "emergency" /\ a.todo = <<>> /\ a.sent \cup a.failed = {}
        ELSE /\ Items(a.todo) \cup a.sent \cup a.failed = Items(ChannelsOf[a.level])
             /\ EachOnce(ChannelsOf[a.level]) =>
                  /\ EachOnce(a.todo) /\ a.sent \cap a.failed = {}
                  /\ Items(a.todo) \cap (a.sent \cup a.failed) = {}

\* The rows are those of monitoring alerts that are over: of each, if none was lost.
RowIsOfTheOver(s) ==
  LET over == alert[s].at = "done" /\ alert[s].level \in Levels
  IN  (s \in recorded => over) /\ (~alertOverlap /\ over => s \in recorded)
Raised == {s \in Senders : alert[s].at /= "idle"}

\* The alerts within the limit that were raised in the hour from t.
DeliveredFrom(t) ==
  {s \in Senders : /\ alert[s].at /= "idle" /\ alert[s].level \in Levels \ {"emergency"}
                   /\ ~alert[s].limited /\ t <= alert[s].born /\ alert[s].born < t + AlertHour}

\* "A per-hour rate limit": no hour sees more alerts delivered than it allows, whatever
\* the emergencies among them, unless alerts were raised at once (each counts the rows
\* the others have yet to insert) or a row was lost.
HourlyCap ==
  ~alertOverlap => \A t \in 0..tick : Cardinality(DeliveredFrom(t)) <= MaxPerHour

\* A recorded alert accounts for every channel of its level, one that is listed once as told
\* or as failed and never as both; an emergency is never held back, and an alert that is
\* held back was sent to nobody.
RecordedAccounts ==
  \A s \in recorded :
    LET a == alert[s]
    IN  IF a.limited THEN a.level /= "emergency" /\ a.sent \cup a.failed = {}
        ELSE /\ a.sent \cup a.failed = Items(ChannelsOf[a.level])
             /\ EachOnce(ChannelsOf[a.level]) => a.sent \cap a.failed = {}

\* An alert that reports its mail as sent has reached every recipient, and mail that was
\* broken off has reached none; a reply that is lost after the message makes the one
\* case of mail that arrived and is reported as failed.
MailArrived(s) ==
  /\ "email" \in alert[s].sent /\ alert[s].level \in Levels => mailbox[s] = Recipients
  /\ mailbox[s] \in {0, Recipients}
  /\ mailbox[s] > 0 => "email" \in alert[s].sent \cup alert[s].failed
SentMailArrived == \A s \in Senders : MailArrived(s)

\* What is recorded of an alert is what became of it, within the hour's limit.
AlertInv ==
  /\ AlertTypeOK /\ HourlyCap /\ RecordedAccounts /\ SentMailArrived /\ IsFiniteSet(Raised)
  /\ \A s \in Senders : AlertIsStaged(s) /\ IsAccounted(s) /\ RowIsOfTheOver(s)
=============================================================================
