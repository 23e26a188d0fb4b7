--------------------------- MODULE MCCertificate ---------------------------
EXTENDS Certificate

Config(mode, domain, cert, key, email, days) ==
  [mode |-> mode, domain |-> domain, cert |-> cert, key |-> key,
   provider |-> "", email |-> email, renewBefore |-> days]

\* Two accounts for one certificate, one of them asking for it a day earlier;
\* another certificate with the same key file; another domain on the files of
\* the first; a controller that reads them.
Http == Config("http", "d1", "crt", "key", "e1", 1)
Dns == Config("dns", "d1", "crt", "key", "e2", 2)
Neighbour == Config("self", "d1", "crt2", "key", "", 1)
Self == Config("self", "d2", "crt", "key", "", 1)
Reader == Config("file", "d1", "crt", "key", "", 1)

MCConfigs == {Http, Dns, Neighbour, Self, Reader}
MCSites == {<<Http, Dns>>, <<Self, Http>>, <<Http, Neighbour>>, <<Reader>>}
MCChanging == {Dns, Reader}

MCFiles == {"crt", "crt2", "key"}

\* A certificate with its key.
Pair(domain, left) ==
  [f \in MCFiles |-> CASE f = "crt" -> [serial |-> 1, domain |-> domain, left |-> left]
                       [] f = "key" -> [key |-> 1]
                       [] OTHER -> Missing]

MCInitDisks == { [f \in MCFiles |-> Missing], Pair("d1", 1), Pair("d2", -1) }
=============================================================================
