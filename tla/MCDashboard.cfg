SPECIFICATION FairSpec
CONSTANTS
    scrape = scrape
    page1 = page1
    page2 = page2
    thread1 = thread1
    thread2 = thread2
    None = None
    Callers = {scrape, page1, page2}
    Background = {thread1, thread2}
    Scraper = scrape
    MaxData = 2
INVARIANTS TypeOK OneRefresh WokenToResult
PROPERTIES NeverOlder AllAnswered StaleIsReplaced
