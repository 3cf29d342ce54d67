SPECIFICATION FairShellSpec
CONSTANTS
    Client = {"PA", "PB", "CA", "CB", "Writer", "ReaderA", "ReaderB", "ReaderC", "Deinit"}
    Reader = {"ReaderA", "ReaderB", "ReaderC"}
    Mutex = {g_mutex, g_mutex_write, g_mutex_read}
    g_mutex = g_mutex
    g_mutex_write = g_mutex_write
    g_mutex_read = g_mutex_read
    Absent = Absent
    Nobody = Nobody
    Somebody = Somebody
    Gone = Gone
    BUFF_SIZE = 2
    CMD_LENGTH = 1
    NUM = 2
    ROUNDS = 2
INVARIANTS AppsTypeOK Exclusive ProductsCounted ReadersCounted PromptAfterDemo LineOnScreen
PROPERTIES ReadersUndisturbed Demo1Ends Demo2Ends
