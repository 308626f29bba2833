SPECIFICATION AsyncSpec
CONSTANTS
  AsyncTask = {t1, t2}
  Domain = {"async_running", "private"}
  MAX_WORK = 1
  MaxCookie = 4
PROPERTIES
  CookieSyncComplete
