----------------------------- MODULE MCScanConfig -----------------------------
EXTENDS ScanConfig

\* No cron line, one that matches for ever (within the clock) and one that
\* matches at a single point in time.
MCCrons == {{}, {1, 3, 4, 7, 10, 12}, {2}}
=============================================================================
