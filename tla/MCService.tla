------------------------------ MODULE MCService ------------------------------
(* Nine ways to start, two of which come to serve.                            *)
EXTENDS Service

Pair == {"secretId", "secretKey"}
Usual == [flags |-> Pair, file |-> {}, env |-> {}, oidc |-> FALSE, oidcWorks |-> FALSE,
          apiRate |-> 0, dryRun |-> FALSE, logLevel |-> TRUE, busy |-> {}]

MCLaunches ==
  {[Usual EXCEPT !.apiRate = 2],
   \* A dry run at the default rate; keys in the file and in the environment.
   [Usual EXCEPT !.flags = {"internetEndpoint"}, !.file = Pair \cup {"region", "internetEndpoint"},
                 !.env = Pair, !.dryRun = TRUE],
   \* OIDC with a role, but a port in use; and without a role.
   [Usual EXCEPT !.flags = {}, !.env = {"tkeRegion"}, !.oidc = TRUE, !.oidcWorks = TRUE,
                 !.busy = {"provider"}],
   [Usual EXCEPT !.flags = {}, !.oidc = TRUE],
   \* Keys from the environment, and the other port in use.
   [Usual EXCEPT !.flags = {}, !.env = Pair, !.busy = {"health"}],
   \* Half a pair; an id from the file for a key from the environment; a file
   \* that does not parse; a log level there is not.
   [Usual EXCEPT !.flags = {"secretKey"}],
   [Usual EXCEPT !.flags = {}, !.file = {"secretId"}, !.env = Pair, !.busy = {"provider"}],
   [Usual EXCEPT !.file = Broken],
   [Usual EXCEPT !.logLevel = FALSE]}
=============================================================================
