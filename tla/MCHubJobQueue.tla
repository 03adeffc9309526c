---- MODULE MCHubJobQueue ----
EXTENDS HubJobQueue
JobNumbers == 1 .. MaxJobs
====
