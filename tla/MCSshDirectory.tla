----------------------------- MODULE MCSshDirectory -----------------------------
EXTENDS SshDirectory

MCNewKey == [c \in Clients |-> IF c = 1 THEN "n1" ELSE "n2"]
MCAuthFiles == {<<Note, KeyLine("a", "none"), KeyLine("b", "spaced")>>,
                <<KeyLine("a", "plain"), KeyLine("b", "plain"), Note, KeyLine("a", "none")>>}
MCKnownFiles == {Missing, <<>>, <<Line(<<"h", 22>>, "k1", FALSE), Line(<<"h", 2222>>, "k2", TRUE)>>}

Web == Entry("host", <<"web">>, [Plain EXCEPT !.port = 2222, !.fwd = 1])
Db == Entry("host", <<"db", "db2">>, [Plain EXCEPT !.compression = TRUE, !.fwd = 2])
Git == Entry("match", <<"git">>, Plain)
Www == ToProtoHostConfig(HostEntry("www", 22, 1))
Mail == Entry("host", <<"mail">>, [Plain EXCEPT !.port = 2222, !.compression = TRUE])

\* The same, with no type in the message; and a message without options.
MailMessage == [ToProtoSSHConfigEntry(Mail) EXCEPT !.type = "UNSPECIFIED"]
MatchMessage == [ToProtoSSHConfigEntry(Entry("match", <<"ci">>, Plain)) EXCEPT !.options = NoOptions]

MCEditorItem == Directive("g", 3, TRUE)

MCFiles == {<<Directive("g", 1, FALSE), Web, Db>>, ManagedBlock \o <<Web, Git>>}

Changes == {
    [op |-> "add", entry |-> MailMessage],
    [op |-> "create", host |-> ToProtoHostConfig(ToHostEntry(Mail))],
    [op |-> "update", id |-> ID(Web), entry |-> MatchMessage],
    [op |-> "updateHost", alias |-> "web", host |-> Www],
    [op |-> "delete", id |-> ID(Web)],
    [op |-> "deleteHost", alias |-> "db"],
    [op |-> "reorder", ids |-> <<ID(Git), ID(Web)>>],
    [op |-> "set", key |-> "g", val |-> 2],
    [op |-> "unset", key |-> "g"],
    [op |-> "enable"],
    [op |-> "disable"]}

\* One request is any of them; the other, before, after or beside it, adds,
\* removes or goes by the file.  The editor sets the directive that "set" and
\* "unset" are about.
MCEdits == [r \in Requests |->
    IF r = 1 THEN Changes ELSE {e \in Changes : e.op \in {"add", "delete", "enable"}}]
================================================================================
