--------------------------- MODULE CpuConversions ---------------------------
(* The units of lmctfy/controllers/cpu_controller.cc: the specification    *)
(* counts thousandths of a cpu, the kernel shares of 1/1024 and            *)
(* microseconds of quota in each period of 250 ms.                         *)
EXTENDS Integers

kMinShares          == 2
kPerCpuShares       == 1024
kCpusToMilliCpus    == 1000
kHardcapPeriodUsecs == 250000
kUsecsPerMilliSecs  == 1000
kMinHardcapQuotaUsecs == 1000

NoMinimum(m) == (m * kPerCpuShares) \div kCpusToMilliCpus \* mutant
MilliCpusToShares(m) ==
    LET shares == (m * kPerCpuShares) \div kCpusToMilliCpus
    IN  IF shares < kMinShares THEN kMinShares ELSE shares

SharesToMilliCpus(shares) ==
    IF shares < kMinShares THEN 0
    ELSE (kCpusToMilliCpus * shares) \div kPerCpuShares

(* SetMaxMilliCpus and GetMaxMilliCpus; -1 is an unthrottled container.    *)
QuotaUsecs(m) == (m * kHardcapPeriodUsecs) \div kUsecsPerMilliSecs
QuotaToMilliCpus(q) ==
    IF q = -1 THEN q ELSE (q * kUsecsPerMilliSecs) \div kHardcapPeriodUsecs
=============================================================================
